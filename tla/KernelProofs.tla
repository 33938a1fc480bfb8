---------------------------- MODULE KernelProofs ----------------------------
(***************************************************************************)
(* The process layer of Kernel, with its linked PCBs, is proved sound and  *)
(* shown to implement Scheduler, for any number of PCBs and any commands;  *)
(* and the idle process is dispatched last.                                *)
(***************************************************************************)
EXTENDS Kernel, LinkedListProofs

-----------------------------------------------------------------------------

(***************************************************************************)
(* The queues of a memory mm, as sequences Q.                              *)
(***************************************************************************)

\* Queue t of mm has exactly the members of q, linked in that order.
Linked(mm, t, q) ==
  /\ q \in Seq(PCB)
  /\ \A i, j \in 1..Len(q) : q[i] = q[j] => i = j
  /\ mm.queue[t].queue_head = IF Len(q) = 0 THEN NULL ELSE q[1]
  /\ mm.queue[t].queue_tail = IF Len(q) = 0 THEN NULL ELSE q[Len(q)]
  /\ \A i \in 1..Len(q) :
       /\ mm.pcb[q[i]].next_pcbPtr = IF i < Len(q) THEN q[i + 1] ELSE NULL
       /\ mm.pcb[q[i]].prev_pcbPtr = IF i > 1 THEN q[i - 1] ELSE NULL

\* x is in the queue q; it is in none of the queues Q.
In(x, q) == \E i \in 1..Len(q) : q[i] = x
Unqueued(x, Q) == \A t \in queue_tag : ~In(x, Q[t])

\* The queues of mm are Q, no PCB is in two of them, and a PCB that is in none
\* has no links, on which enqueue relies.
Queues(mm, Q) ==
  /\ Q \in [queue_tag -> Seq(PCB)]
  /\ \A t \in queue_tag : Linked(mm, t, Q[t])
  /\ \A t, u \in queue_tag : \A x : In(x, Q[t]) /\ In(x, Q[u]) => t = u
  /\ \A p \in PCB : Unqueued(p, Q) =>
       mm.pcb[p].next_pcbPtr = NULL /\ mm.pcb[p].prev_pcbPtr = NULL

Reversed(q) == [i \in 1..Len(q) |-> q[Len(q) + 1 - i]]

\* The length of a queue is a number, and its members are PCBs.
LEMMA QueueFacts ==
  ASSUME NEW q \in Seq(PCB)
  PROVE  /\ Len(q) \in Nat /\ DOMAIN q = 1..Len(q)
         /\ \A i \in 1..Len(q) : q[i] \in PCB /\ q[i] # NULL
  BY LenProperties, ElementOfSeq, KernelAssumption

\* The two link fields are links in the sense of LinkedLists.
LEMMA LinkFields ==
  ASSUME NEW mm
  PROVE  /\ AreLinks(next_pcbPtr(mm)) /\ AreLinks(prev_pcbPtr(mm))
         /\ DOMAIN next_pcbPtr(mm) \ {NULL} = PCB
         /\ DOMAIN prev_pcbPtr(mm) \ {NULL} = PCB
PROOF
<1>1. IsFiniteSet(PCB \cup {NULL})
  BY KernelAssumption, FS_AddElement
<1> QED
  BY <1>1, KernelAssumption DEF AreLinks, next_pcbPtr, prev_pcbPtr

\* Following next from the head of a queue gives q; ...
LEMMA Forwards ==
  ASSUME NEW mm, NEW t, NEW q, Linked(mm, t, q)
  PROVE  IsListFrom(next_pcbPtr(mm), mm.queue[t].queue_head, q)
PROOF
<1>1. q \in Seq(PCB)
  BY DEF Linked
<1>2. q = << >> <=> Len(q) = 0
  BY <1>1, EmptySeq
<1>3. \A i \in 1..Len(q) : next_pcbPtr(mm)[q[i]] = mm.pcb[q[i]].next_pcbPtr
  BY <1>1, QueueFacts DEF next_pcbPtr
<1> QED
  BY <1>1, <1>2, <1>3, LinkFields DEF Linked, IsListFrom

\* ... following prev from its tail gives q reversed.
LEMMA Backwards ==
  ASSUME NEW mm, NEW t, NEW q, Linked(mm, t, q)
  PROVE  IsListFrom(prev_pcbPtr(mm), mm.queue[t].queue_tail, Reversed(q))
PROOF
<1> DEFINE r == Reversed(q)
<1>1. q \in Seq(PCB)
  BY DEF Linked
<1>2. Len(q) \in Nat /\ \A i \in 1..Len(q) : q[i] \in PCB /\ q[i] # NULL
  BY <1>1, QueueFacts
<1>3. r \in Seq(PCB) /\ Len(r) = Len(q) /\ \A i \in 1..Len(q) : r[i] = q[Len(q) + 1 - i]
  <2>1. \A i \in 1..Len(q) : q[Len(q) + 1 - i] \in PCB
    BY <1>2
  <2> QED
    BY <1>2, <2>1 DEF Reversed
<1> HIDE DEF r
<1>4. r = << >> <=> Len(q) = 0
  BY <1>3, EmptySeq
<1>5. mm.queue[t].queue_tail = IF r = << >> THEN NULL ELSE r[1]
  BY <1>2, <1>3, <1>4 DEF Linked
<1>6. ASSUME NEW i \in 1..Len(r)
      PROVE  prev_pcbPtr(mm)[r[i]] = IF i < Len(r) THEN r[i + 1] ELSE NULL
  <2> DEFINE k == Len(q) + 1 - i
  <2>1. k \in 1..Len(q) /\ r[i] = q[k]
    BY <1>2, <1>3
  <2>2. prev_pcbPtr(mm)[q[k]] = mm.pcb[q[k]].prev_pcbPtr
    BY <1>2, <2>1 DEF prev_pcbPtr
  <2>3. mm.pcb[q[k]].prev_pcbPtr = IF k > 1 THEN q[k - 1] ELSE NULL
    BY <2>1 DEF Linked
  <2>4. i < Len(r) => i + 1 \in 1..Len(q) /\ r[i + 1] = q[k - 1]
    <3> SUFFICES ASSUME i < Len(r) PROVE i + 1 \in 1..Len(q) /\ r[i + 1] = q[k - 1]
      OBVIOUS
    <3>1. i + 1 \in 1..Len(q) /\ Len(q) + 1 - (i + 1) = k - 1
      BY <1>2, <1>3
    <3> QED
      BY <1>3, <3>1
  <2>5. i < Len(r) <=> k > 1
    BY <1>2, <1>3
  <2> QED
    BY <2>1, <2>2, <2>3, <2>4, <2>5
<1>7. ASSUME NEW i \in 1..Len(r), NEW j \in 1..Len(r), r[i] = r[j]
      PROVE  i = j
  <2>1. Len(q) + 1 - i \in 1..Len(q) /\ Len(q) + 1 - j \in 1..Len(q)
    BY <1>2, <1>3
  <2>2. q[Len(q) + 1 - i] = q[Len(q) + 1 - j]
    BY <1>3, <1>7
  <2>3. Len(q) + 1 - i = Len(q) + 1 - j
    BY <2>1, <2>2 DEF Linked
  <2> QED
    BY <1>2, <1>3, <2>3
<1> QED
  BY <1>3, <1>5, <1>6, <1>7, LinkFields DEF IsListFrom, r

\* So QueueOf reads the queue that is linked, whichever way it is read.
LEMMA QueueRead ==
  ASSUME NEW mm, NEW t, NEW q, Linked(mm, t, q)
  PROVE  /\ QueueOf(mm, t) = q
         /\ Chain(prev_pcbPtr(mm), mm.queue[t].queue_tail) = Reversed(q)
  BY Forwards, Backwards, LinkFields, ChainIsList DEF QueueOf

\* What a search by name finds is a member of the queue with that name.
LEMMA SearchFinds ==
  ASSUME NEW mm, NEW t, NEW q, Linked(mm, t, q), NEW name
  PROVE  \/ /\ search_queue(mm, name, t) = NULL
            /\ \A i \in 1..Len(q) : mm.pcb[q[i]].process_name # name
         \/ \E i \in 1..Len(q) : search_queue(mm, name, t) = q[i]
PROOF
<1> DEFINE S == {p \in PCB : mm.pcb[p].process_name = name}
<1>1. NULL \notin S
  BY KernelAssumption
<1>2. \/ /\ search_queue(mm, name, t) = NULL
         /\ \A i \in 1..Len(q) : q[i] \notin S
      \/ \E i \in 1..Len(q) : search_queue(mm, name, t) = q[i]
  <2> HIDE DEF S
  <2>1. \/ /\ FirstOf(next_pcbPtr(mm), mm.queue[t].queue_head, S) = NULL
           /\ \A i \in 1..Len(q) : q[i] \notin S
        \/ \E i \in 1..Len(q) : FirstOf(next_pcbPtr(mm), mm.queue[t].queue_head, S) = q[i]
    BY <1>1, Forwards, LinkFields, FirstOfIsFirst
  <2> QED
    BY <2>1 DEF search_queue, S
<1>3. \A i \in 1..Len(q) : q[i] \in PCB
  BY QueueFacts DEF Linked
<1> QED
  BY <1>2, <1>3

\* dequeue finds a PCB that is in the queue, if not under its pointer then
\* under its name.
LEMMA DequeueFinds ==
  ASSUME NEW mm, NEW t, NEW q, Linked(mm, t, q), NEW k \in 1..Len(q)
  PROVE  dequeue_finds(mm, q[k], t)
PROOF
<1>1. \A i \in 1..Len(q) : q[i] # NULL
  BY QueueFacts DEF Linked
<1>2. \/ /\ search_queue(mm, mm.pcb[q[k]].process_name, t) = NULL
         /\ \A i \in 1..Len(q) : mm.pcb[q[i]].process_name # mm.pcb[q[k]].process_name
      \/ \E i \in 1..Len(q) : search_queue(mm, mm.pcb[q[k]].process_name, t) = q[i]
  BY SearchFinds
<1> QED
  BY <1>1, <1>2 DEF dequeue_finds

\* What pcb_find finds is in a queue.
LEMMA PcbFindQueued ==
  ASSUME NEW mm, NEW Q, Queues(mm, Q), NEW name, pcb_find(mm, name) # NULL
  PROVE  \E t \in queue_tag : \E k \in 1..Len(Q[t]) : pcb_find(mm, name) = Q[t][k]
PROOF
<1> DEFINE hit == {t \in queue_tag : search_queue(mm, name, t) # NULL}
           first == CHOOSE t \in hit : \A u \in hit : t <= u
<1>1. hit # {} /\ pcb_find(mm, name) = search_queue(mm, name, first)
  BY DEF pcb_find
<1>2. first \in hit
  <2>1. hit \in SUBSET Nat
    BY DEF queue_tag
  <2>2. \E t \in hit : \A u \in hit : t <= u
    <3> HIDE DEF hit
    <3> QED
      BY <1>1, <2>1, LeastNumber
  <2> QED
    BY <2>2
<1> HIDE DEF first
<1>3. Linked(mm, first, Q[first])
  BY <1>2 DEF Queues
<1> QED
  BY <1>1, <1>2, <1>3, SearchFinds

-----------------------------------------------------------------------------

(***************************************************************************)
(* enqueue, branch by branch.                                              *)
(***************************************************************************)

\* Nothing but links differs between the PCBs of mm and m2.
SameData(mm, m2) ==
  \A x \in PCB : /\ m2.pcb[x].process_name = mm.pcb[x].process_name
                 /\ m2.pcb[x].process_class = mm.pcb[x].process_class
                 /\ m2.pcb[x].process_priority = mm.pcb[x].process_priority
                 /\ m2.pcb[x].exe_state = mm.pcb[x].exe_state
                 /\ m2.pcb[x].disp_state = mm.pcb[x].disp_state
                 /\ m2.pcb[x].context = mm.pcb[x].context

\* m2 is mm with p linked in as the k-th of queue t, which was q.
InsertedAt(mm, m2, t, q, p, k) ==
  /\ m2 \in Memory
  /\ SameData(mm, m2)
  /\ \A x \in PCB :
       /\ m2.pcb[x].next_pcbPtr = IF x = p THEN IF k <= Len(q) THEN q[k] ELSE NULL
                                  ELSE IF k > 1 /\ x = q[k - 1] THEN p
                                  ELSE mm.pcb[x].next_pcbPtr
       /\ m2.pcb[x].prev_pcbPtr = IF x = p THEN IF k > 1 THEN q[k - 1] ELSE NULL
                                  ELSE IF k <= Len(q) /\ x = q[k] THEN p
                                  ELSE mm.pcb[x].prev_pcbPtr
  /\ \A u \in queue_tag :
       /\ m2.queue[u].queue_head = IF u = t /\ k = 1 THEN p ELSE mm.queue[u].queue_head
       /\ m2.queue[u].queue_tail = IF u = t /\ k = Len(q) + 1 THEN p
                                   ELSE mm.queue[u].queue_tail

\* A PCB that is in no queue.
Loose(mm, p) == p \in PCB /\ mm.pcb[p].next_pcbPtr = NULL /\ mm.pcb[p].prev_pcbPtr = NULL

\* One assignment to a pointer each.
SetNext(mm, x, v) == [mm EXCEPT !.pcb[x].next_pcbPtr = v]
SetPrev(mm, x, v) == [mm EXCEPT !.pcb[x].prev_pcbPtr = v]
SetHead(mm, t, v) == [mm EXCEPT !.queue[t].queue_head = v]
SetTail(mm, t, v) == [mm EXCEPT !.queue[t].queue_tail = v]

\* m2 is mm with one pointer assigned.
NextSet(mm, m2, x, v) ==
  /\ m2 \in Memory /\ SameData(mm, m2) /\ m2.queue = mm.queue
  /\ \A y \in PCB : /\ m2.pcb[y].next_pcbPtr = IF y = x THEN v ELSE mm.pcb[y].next_pcbPtr
                   /\ m2.pcb[y].prev_pcbPtr = mm.pcb[y].prev_pcbPtr
PrevSet(mm, m2, x, v) ==
  /\ m2 \in Memory /\ SameData(mm, m2) /\ m2.queue = mm.queue
  /\ \A y \in PCB : /\ m2.pcb[y].prev_pcbPtr = IF y = x THEN v ELSE mm.pcb[y].prev_pcbPtr
                   /\ m2.pcb[y].next_pcbPtr = mm.pcb[y].next_pcbPtr
HeadSet(mm, m2, t, v) ==
  /\ m2 \in Memory /\ m2.pcb = mm.pcb
  /\ \A u \in queue_tag :
       /\ m2.queue[u].queue_head = IF u = t THEN v ELSE mm.queue[u].queue_head
       /\ m2.queue[u].queue_tail = mm.queue[u].queue_tail
TailSet(mm, m2, t, v) ==
  /\ m2 \in Memory /\ m2.pcb = mm.pcb
  /\ \A u \in queue_tag :
       /\ m2.queue[u].queue_tail = IF u = t THEN v ELSE mm.queue[u].queue_tail
       /\ m2.queue[u].queue_head = mm.queue[u].queue_head

\* Assigning next_process of one PCB changes that link and no other field.
LEMMA SetNextEffect ==
  ASSUME NEW mm \in Memory, NEW x \in PCB, NEW v \in PCB \cup {NULL}
  PROVE  NextSet(mm, SetNext(mm, x, v), x, v)
PROOF
<1> DEFINE f == [mm.pcb[x] EXCEPT !.next_pcbPtr = v]
           g == [mm.pcb EXCEPT ![x] = f]
<1>1. mm.pcb \in [PCB -> PcbType] /\ mm.queue \in [queue_tag -> QueueType]
  BY DEF Memory
<1>2. f \in PcbType
  BY <1>1 DEF PcbType
<1>3. g \in [PCB -> PcbType] /\ \A y \in PCB : g[y] = IF y = x THEN f ELSE mm.pcb[y]
  BY <1>1, <1>2
<1>4. SetNext(mm, x, v) = [mm EXCEPT !.pcb = g]
  BY DEF SetNext
<1> HIDE DEF g
<1>5. SetNext(mm, x, v) \in Memory /\ SetNext(mm, x, v).pcb = g /\ SetNext(mm, x, v).queue = mm.queue
  BY <1>3, <1>4 DEF Memory
<1> QED
  BY <1>1, <1>3, <1>5 DEF NextSet, SameData, PcbType

\* Assigning previous_process of one PCB changes that link and no other field.
LEMMA SetPrevEffect ==
  ASSUME NEW mm \in Memory, NEW x \in PCB, NEW v \in PCB \cup {NULL}
  PROVE  PrevSet(mm, SetPrev(mm, x, v), x, v)
PROOF
<1> DEFINE f == [mm.pcb[x] EXCEPT !.prev_pcbPtr = v]
           g == [mm.pcb EXCEPT ![x] = f]
<1>1. mm.pcb \in [PCB -> PcbType] /\ mm.queue \in [queue_tag -> QueueType]
  BY DEF Memory
<1>2. f \in PcbType
  BY <1>1 DEF PcbType
<1>3. g \in [PCB -> PcbType] /\ \A y \in PCB : g[y] = IF y = x THEN f ELSE mm.pcb[y]
  BY <1>1, <1>2
<1>4. SetPrev(mm, x, v) = [mm EXCEPT !.pcb = g]
  BY DEF SetPrev
<1> HIDE DEF g
<1>5. SetPrev(mm, x, v) \in Memory /\ SetPrev(mm, x, v).pcb = g /\ SetPrev(mm, x, v).queue = mm.queue
  BY <1>3, <1>4 DEF Memory
<1> QED
  BY <1>1, <1>3, <1>5 DEF PrevSet, SameData, PcbType

\* Assigning the head of one queue leaves its tail, the other queues and the
\* PCBs as they were.
LEMMA SetHeadEffect ==
  ASSUME NEW mm \in Memory, NEW t \in queue_tag, NEW v \in PCB \cup {NULL}
  PROVE  HeadSet(mm, SetHead(mm, t, v), t, v)
  BY DEF HeadSet, SetHead, Memory, QueueType

\* Assigning the tail of one queue leaves its head, the other queues and the
\* PCBs as they were.
LEMMA SetTailEffect ==
  ASSUME NEW mm \in Memory, NEW t \in queue_tag, NEW v \in PCB \cup {NULL}
  PROVE  TailSet(mm, SetTail(mm, t, v), t, v)
  BY DEF TailSet, SetTail, Memory, QueueType

\* pcb_enqueue on an empty queue: the PCB is head and tail.
LEMMA EnqueueEmptyInserts ==
  ASSUME NEW mm \in Memory, NEW t \in queue_tag, NEW q, Linked(mm, t, q),
         NEW p, Loose(mm, p), Len(q) = 0
  PROVE  InsertedAt(mm, EnqueueEmpty(mm, p, t), t, q, p, 1)
  BY DEF EnqueueEmpty, InsertedAt, SameData, Loose, Memory, QueueType, PcbType, Linked

\* pcb_enqueue in front of the head writes the links of a queue with the PCB
\* at position 1.
LEMMA EnqueueHeadInserts ==
  ASSUME NEW mm \in Memory, NEW t \in queue_tag, NEW q, Linked(mm, t, q),
         NEW p, Loose(mm, p), \A i \in 1..Len(q) : q[i] # p, Len(q) # 0
  PROVE  InsertedAt(mm, EnqueueHead(mm, p, t), t, q, p, 1)
PROOF
<1> PICK x : x = q[1]
  OBVIOUS
<1>1. /\ x = q[1]
      /\ Len(q) \in Nat /\ x \in PCB /\ p \in PCB /\ mm.queue[t].queue_head = x
      /\ x \in PCB \cup {NULL} /\ p \in PCB \cup {NULL}
  BY QueueFacts DEF Linked, Loose
<1> DEFINE a == SetPrev(mm, x, p)
           b == SetNext(a, p, x)
           c == SetHead(b, t, p)
<1>2. EnqueueHead(mm, p, t) = c
  BY <1>1 DEF EnqueueHead, SetHead, SetTail, SetNext, SetPrev
<1>3. PrevSet(mm, a, x, p) /\ a \in Memory
  <2>1. PrevSet(mm, a, x, p)
    BY <1>1, SetPrevEffect
  <2> QED
    BY <2>1 DEF PrevSet
<1> HIDE DEF a
<1>4. NextSet(a, b, p, x) /\ b \in Memory
  <2>1. NextSet(a, b, p, x)
    BY <1>1, <1>3, SetNextEffect
  <2> QED
    BY <2>1 DEF NextSet
<1> HIDE DEF b
<1>5. HeadSet(b, c, t, p)
  BY <1>1, <1>4, SetHeadEffect
<1> HIDE DEF c
<1> QED
  BY <1>1, <1>2, <1>3, <1>4, <1>5
  DEF InsertedAt, SameData, Loose, PrevSet, NextSet, HeadSet

\* pcb_enqueue behind the tail writes the links of a queue with the PCB at its
\* end.
LEMMA EnqueueTailInserts ==
  ASSUME NEW mm \in Memory, NEW t \in queue_tag, NEW q, Linked(mm, t, q),
         NEW p, Loose(mm, p), \A i \in 1..Len(q) : q[i] # p, Len(q) # 0
  PROVE  InsertedAt(mm, EnqueueTail(mm, p, t), t, q, p, Len(q) + 1)
PROOF
<1> PICK x : x = q[Len(q)]
  OBVIOUS
<1>1. /\ x = q[Len(q)]
      /\ Len(q) \in Nat /\ x \in PCB /\ p \in PCB
      /\ mm.queue[t].queue_tail = x
      /\ x \in PCB \cup {NULL} /\ p \in PCB \cup {NULL}
  BY QueueFacts DEF Linked, Loose
<1> DEFINE a == SetNext(mm, x, p)
           b == SetPrev(a, p, x)
           c == SetTail(b, t, p)
<1>2. EnqueueTail(mm, p, t) = c
  BY <1>1 DEF EnqueueTail, SetHead, SetTail, SetNext, SetPrev
<1>3. NextSet(mm, a, x, p) /\ a \in Memory
  <2>1. NextSet(mm, a, x, p)
    BY <1>1, SetNextEffect
  <2> QED
    BY <2>1 DEF NextSet
<1> HIDE DEF a
<1>4. PrevSet(a, b, p, x) /\ b \in Memory
  <2>1. PrevSet(a, b, p, x)
    BY <1>1, <1>3, SetPrevEffect
  <2> QED
    BY <2>1 DEF PrevSet
<1> HIDE DEF b
<1>5. TailSet(b, c, t, p)
  BY <1>1, <1>4, SetTailEffect
<1> HIDE DEF c
<1> QED
  BY <1>1, <1>2, <1>3, <1>4, <1>5
  DEF InsertedAt, SameData, Loose, PrevSet, NextSet, TailSet

\* pcb_enqueue behind a PCB in the middle writes the links of a queue with the
\* new one at the next position.
LEMMA EnqueueBehindInserts ==
  ASSUME NEW mm \in Memory, NEW t \in queue_tag, NEW q, Linked(mm, t, q),
         NEW p, Loose(mm, p), \A i \in 1..Len(q) : q[i] # p,
         NEW k \in 2..Len(q)
  PROVE  InsertedAt(mm, EnqueueBehind(mm, p, q[k - 1]), t, q, p, k)
PROOF
<1> PICK x, y : x = q[k - 1] /\ y = q[k]
  OBVIOUS
<1>1. /\ y = q[k] /\ x = q[k - 1]
      /\ Len(q) \in Nat /\ y \in PCB /\ x \in PCB /\ y # x
      /\ mm.pcb[x].next_pcbPtr = y
      /\ p \in PCB /\ {p, y, x} \subseteq PCB \cup {NULL}
  BY QueueFacts DEF Linked, Loose
<1> DEFINE a == SetNext(mm, p, y)
           b == SetPrev(a, y, p)
           c == SetNext(b, x, p)
           d == SetPrev(c, p, x)
<1>2. EnqueueBehind(mm, p, x) = d
  BY <1>1 DEF EnqueueBehind, SetHead, SetTail, SetNext, SetPrev
<1>3. NextSet(mm, a, p, y) /\ a \in Memory
  <2>1. NextSet(mm, a, p, y)
    BY <1>1, SetNextEffect
  <2> QED
    BY <2>1 DEF NextSet
<1> HIDE DEF a
<1>4. PrevSet(a, b, y, p) /\ b \in Memory
  <2>1. PrevSet(a, b, y, p)
    BY <1>1, <1>3, SetPrevEffect
  <2> QED
    BY <2>1 DEF PrevSet
<1> HIDE DEF b
<1>5. NextSet(b, c, x, p) /\ c \in Memory
  <2>1. NextSet(b, c, x, p)
    BY <1>1, <1>4, SetNextEffect
  <2> QED
    BY <2>1 DEF NextSet
<1> HIDE DEF c
<1>6. PrevSet(c, d, p, x) /\ d \in Memory
  <2>1. PrevSet(c, d, p, x)
    BY <1>1, <1>5, SetPrevEffect
  <2> QED
    BY <2>1 DEF PrevSet
<1> HIDE DEF d
<1> QED
  BY <1>1, <1>2, <1>3, <1>4, <1>5, <1>6 DEF InsertedAt, SameData, Loose, PrevSet, NextSet

\* The place enqueue promises p in queue t, which is q: behind every PCB that
\* is as urgent, before every one that is less so; or behind all.
Slot(mm, t, q, p, k) ==
  IF t \in {SUS_READY_QUEUE_TAG, READY_QUEUE_TAG}
  THEN /\ \A i \in 1..(k - 1) : process_priority(mm, q[i]) <= process_priority(mm, p)
       /\ \A i \in k..Len(q) : process_priority(mm, p) < process_priority(mm, q[i])
  ELSE k = Len(q) + 1

\* q is ordered by priority, the most urgent first.
InOrder(mm, q) ==
  \A i, j \in 1..Len(q) : i <= j => process_priority(mm, q[i]) <= process_priority(mm, q[j])

\* A scan, from either end, stops at the PCB behind which p belongs.
LEMMA ScanFinds ==
  ASSUME NEW mm \in Memory, NEW t \in queue_tag, NEW q, Linked(mm, t, q), InOrder(mm, q),
         NEW p \in PCB, Len(q) # 0,
         process_priority(mm, q[1]) <= process_priority(mm, p),
         process_priority(mm, p) < process_priority(mm, q[Len(q)])
  PROVE  \E k \in 2..Len(q) :
           /\ ScanStop(mm, p, t) = q[k - 1]
           /\ \A i \in 1..(k - 1) : process_priority(mm, q[i]) <= process_priority(mm, p)
           /\ \A i \in k..Len(q) : process_priority(mm, p) < process_priority(mm, q[i])
PROOF
<1> DEFINE prio(x) == process_priority(mm, x)
           n == Len(q)
           next == next_pcbPtr(mm)
           prev == prev_pcbPtr(mm)
<1>1. n \in Nat /\ \A i \in 1..n : q[i] \in PCB /\ q[i] # NULL
  BY QueueFacts DEF Linked
<1>2. \A x \in PCB : prio(x) \in Int
  BY DEF process_priority, Memory, PcbType
<1>3. \A i \in 1..n : prio(q[i]) \in Int
  BY <1>1, <1>2
<1>4. n >= 2
  <2>1. n # 1
    <3> SUFFICES ASSUME n = 1 PROVE FALSE
      OBVIOUS
    <3>1. q[n] = q[1] /\ prio(q[1]) \in Int /\ prio(p) \in Int
      BY <1>2, <1>3
    <3> HIDE DEF prio, n
    <3>2. prio(q[1]) <= prio(p) /\ prio(p) < prio(q[n])
      BY DEF prio, n
    <3> QED
      BY <3>1, <3>2
  <2>2. n # 0
    OBVIOUS
  <2> HIDE DEF n
  <2> QED
    BY <1>1, <2>1, <2>2
<1>5. \A i, j \in 1..n : i <= j => prio(q[i]) <= prio(q[j])
  BY DEF InOrder
<1>6. \A i \in 1..n : /\ next[q[i]] = IF i < n THEN q[i + 1] ELSE NULL
                     /\ prev[q[i]] = IF i > 1 THEN q[i - 1] ELSE NULL
  BY <1>1 DEF Linked, next_pcbPtr, prev_pcbPtr
<1>7. prio(p) \in Int /\ prio(q[1]) <= prio(p) /\ prio(p) < prio(q[n])
  BY <1>2
<1>8. CASE prio(p) <= 4
  <2> DEFINE S == {x \in PCB : next[x] # NULL /\ process_priority(mm, next[x]) > prio(p)}
             f == FirstOf(next, mm.queue[t].queue_head, S)
  <2>1. ScanStop(mm, p, t) = f
    BY <1>8 DEF ScanStop
  <2>2. \A i \in 1..n : q[i] \in S <=> i < n /\ prio(q[i + 1]) > prio(p)
    <3> SUFFICES ASSUME NEW i \in 1..n
                 PROVE  q[i] \in S <=> i < n /\ prio(q[i + 1]) > prio(p)
      OBVIOUS
    <3>1. CASE i < n
      <4>1. next[q[i]] = q[i + 1] /\ q[i + 1] # NULL /\ q[i] \in PCB
        BY <1>1, <1>6, <3>1
      <4> HIDE DEF next, n
      <4> QED
        BY <3>1, <4>1
    <3>2. CASE ~(i < n)
      BY <1>6, <3>2
    <3> QED
      BY <3>1, <3>2
  <2>3. NULL \notin S
    BY KernelAssumption
  <2>4. AreLinks(next) /\ IsListFrom(next, mm.queue[t].queue_head, q)
    BY LinkFields, Forwards
  <2> HIDE DEF S, prio, next, prev
  <2>5. \/ f = NULL /\ \A i \in 1..n : q[i] \notin S
        \/ \E i \in 1..n : f = q[i] /\ q[i] \in S /\ \A j \in 1..(i - 1) : q[j] \notin S
    BY <2>3, <2>4, FirstOfIsFirst
  <2> HIDE DEF f, n
  <2>6. n - 1 \in 1..n /\ (n - 1) + 1 = n
    BY <1>1, <1>4
  <2>7. q[n - 1] \in S
    <3>1. n - 1 < n /\ prio(q[(n - 1) + 1]) > prio(p)
      BY <1>1, <1>3, <1>7, <2>6
    <3> QED
      BY <2>2, <2>6, <3>1
  <2>8. PICK i \in 1..n : f = q[i] /\ q[i] \in S /\ \A j \in 1..(i - 1) : q[j] \notin S
    BY <2>5, <2>6, <2>7
  <2>9. i < n /\ prio(q[i + 1]) > prio(p)
    BY <2>2, <2>8
  <2>10. i + 1 \in 2..n /\ (i + 1) - 1 = i
    BY <1>1, <2>9
  <2>11. ASSUME NEW j \in 1..i PROVE prio(q[j]) <= prio(p)
    <3>1. CASE j = 1
      BY <1>7, <3>1
    <3>2. CASE j # 1
      <4>1. j - 1 \in 1..(i - 1) /\ j - 1 \in 1..n /\ (j - 1) + 1 = j /\ j - 1 < n /\ j \in 1..n
        BY <1>1, <3>2
      <4>2. ~(prio(q[j]) > prio(p))
        BY <2>2, <2>8, <4>1
      <4> QED
        BY <1>3, <1>7, <4>1, <4>2
    <3> QED
      BY <3>1, <3>2
  <2>12. ASSUME NEW j \in (i + 1)..n PROVE prio(p) < prio(q[j])
    <3>1. i + 1 \in 1..n /\ j \in 1..n /\ i + 1 <= j
      BY <1>1, <2>10
    <3>2. prio(q[i + 1]) <= prio(q[j]) /\ prio(q[i + 1]) \in Int /\ prio(q[j]) \in Int
      BY <1>3, <1>5, <3>1
    <3> QED
      BY <1>7, <2>9, <3>2
  <2>13. ScanStop(mm, p, t) = q[(i + 1) - 1]
    BY <2>1, <2>8, <2>10
  <2> QED
    BY <2>10, <2>11, <2>12, <2>13 DEF prio, n
<1>9. CASE ~(prio(p) <= 4)
  <2> DEFINE S == {x \in PCB : prev[x] # NULL /\ process_priority(mm, prev[x]) <= prio(p)}
             f == FirstOf(prev, mm.queue[t].queue_tail, S)
             r == Reversed(q)
  <2>1. ScanStop(mm, p, t) = prev[f]
    BY <1>9 DEF ScanStop
  <2>2. \A i \in 1..n : q[i] \in S <=> i > 1 /\ prio(q[i - 1]) <= prio(p)
    <3> SUFFICES ASSUME NEW i \in 1..n
                 PROVE  q[i] \in S <=> i > 1 /\ prio(q[i - 1]) <= prio(p)
      OBVIOUS
    <3>1. CASE i > 1
      <4>1. prev[q[i]] = q[i - 1] /\ q[i - 1] # NULL /\ q[i] \in PCB
        BY <1>1, <1>6, <3>1
      <4> HIDE DEF prev, n
      <4> QED
        BY <3>1, <4>1
    <3>2. CASE ~(i > 1)
      BY <1>6, <3>2
    <3> QED
      BY <3>1, <3>2
  <2>3. NULL \notin S
    BY KernelAssumption
  <2>4. AreLinks(prev) /\ IsListFrom(prev, mm.queue[t].queue_tail, r)
    BY LinkFields, Backwards
  <2>5. Len(r) = n /\ \A i \in 1..n : r[i] = q[n + 1 - i]
    BY <1>1, QueueFacts DEF Reversed
  <2> HIDE DEF S, prio, next, prev, r
  <2>6. \/ f = NULL /\ \A i \in 1..n : r[i] \notin S
        \/ \E i \in 1..n : f = r[i] /\ r[i] \in S /\ \A j \in 1..(i - 1) : r[j] \notin S
    <3>1. \/ f = NULL /\ \A i \in 1..Len(r) : r[i] \notin S
          \/ \E i \in 1..Len(r) : f = r[i] /\ r[i] \in S /\ \A j \in 1..(i - 1) : r[j] \notin S
      BY <2>3, <2>4, FirstOfIsFirst
    <3> HIDE DEF f, n
    <3> QED
      BY <2>5, <3>1
  <2> HIDE DEF f, n
  <2>7. n - 1 \in 1..n /\ n + 1 - (n - 1) = 2 /\ 2 \in 1..n /\ 2 - 1 = 1
    BY <1>1, <1>4
  <2>8. r[n - 1] \in S
    <3>1. r[n - 1] = q[2]
      BY <2>5, <2>7
    <3>2. 2 > 1 /\ prio(q[2 - 1]) <= prio(p)
      BY <1>7, <2>7
    <3> QED
      BY <2>2, <2>7, <3>1, <3>2
  <2>9. PICK i \in 1..n : f = r[i] /\ r[i] \in S /\ \A j \in 1..(i - 1) : r[j] \notin S
    BY <2>6, <2>7, <2>8
  <2> DEFINE k == n + 1 - i
  <2>10. k \in 1..n /\ f = q[k] /\ q[k] \in S
    BY <1>1, <2>5, <2>9
  <2>11. ASSUME NEW j \in (k + 1)..n PROVE q[j] \notin S
    <3>1. n + 1 - j \in 1..(i - 1) /\ n + 1 - j \in 1..n /\ n + 1 - (n + 1 - j) = j
      BY <1>1
    <3> QED
      BY <2>5, <2>9, <3>1
  <2> HIDE DEF k
  <2>12. k > 1 /\ prio(q[k - 1]) <= prio(p)
    BY <2>2, <2>10
  <2>13. k \in 2..n /\ k - 1 \in 1..n
    BY <1>1, <2>10, <2>12
  <2>14. prev[f] = q[k - 1]
    BY <1>6, <2>10, <2>12
  <2>15. ASSUME NEW j \in k..n PROVE prio(p) < prio(q[j])
    <3>1. CASE j = n
      BY <1>7, <3>1
    <3>2. CASE j # n
      <4>1. /\ j + 1 \in (k + 1)..n /\ j + 1 \in 1..n /\ (j + 1) - 1 = j
            /\ j + 1 > 1 /\ j \in 1..n
        BY <1>1, <2>13, <3>2
      <4>2. ~(prio(q[j]) <= prio(p))
        BY <2>2, <2>11, <4>1
      <4> QED
        BY <1>3, <1>7, <4>1, <4>2
    <3> QED
      BY <3>1, <3>2
  <2>16. ASSUME NEW j \in 1..(k - 1) PROVE prio(q[j]) <= prio(p)
    <3>1. k - 1 \in 1..n /\ j \in 1..n /\ j <= k - 1
      BY <1>1, <2>13
    <3>2. prio(q[j]) <= prio(q[k - 1]) /\ prio(q[k - 1]) \in Int /\ prio(q[j]) \in Int
      BY <1>3, <1>5, <3>1
    <3> QED
      BY <1>7, <2>12, <3>2
  <2> QED
    BY <2>1, <2>13, <2>14, <2>15, <2>16 DEF prio, n
<1> QED
  BY <1>8, <1>9

\* enqueue links p in at its slot.
LEMMA EnqueueInserts ==
  ASSUME NEW mm \in Memory, NEW t \in queue_tag, NEW q, Linked(mm, t, q),
         t \in {SUS_READY_QUEUE_TAG, READY_QUEUE_TAG} => InOrder(mm, q),
         NEW p, Loose(mm, p), \A i \in 1..Len(q) : q[i] # p
  PROVE  \E k \in 1..(Len(q) + 1) :
           InsertedAt(mm, enqueue(mm, p, t), t, q, p, k) /\ Slot(mm, t, q, p, k)
PROOF
<1> DEFINE prio(x) == process_priority(mm, x)
           n == Len(q)
<1>1. n \in Nat /\ \A i \in 1..n : q[i] \in PCB /\ q[i] # NULL
  BY QueueFacts DEF Linked
<1>2. prio(p) \in Int /\ \A i \in 1..n : prio(q[i]) \in Int
  BY <1>1 DEF process_priority, Memory, PcbType, Loose
<1>3. mm.queue[t].queue_head = NULL <=> n = 0
  BY <1>1 DEF Linked
<1>4. CASE n = 0
  <2>1. enqueue(mm, p, t) = EnqueueEmpty(mm, p, t)
    BY <1>3, <1>4 DEF enqueue
  <2>2. InsertedAt(mm, enqueue(mm, p, t), t, q, p, 1)
    BY <1>4, <2>1, EnqueueEmptyInserts
  <2>3. Slot(mm, t, q, p, 1)
    BY <1>4 DEF Slot
  <2> QED
    BY <1>4, <2>2, <2>3
<1>5. CASE n # 0
  <2>1. mm.queue[t].queue_head = q[1] /\ mm.queue[t].queue_tail = q[n] /\ 1 \in 1..n /\ n \in 1..n
    BY <1>1, <1>5 DEF Linked
  <2> DEFINE ordered == t \in {SUS_READY_QUEUE_TAG, READY_QUEUE_TAG}
             before == prio(p) < prio(q[1])
             behind == prio(p) >= prio(q[n])
  <2>2. enqueue(mm, p, t) = IF ~ordered THEN EnqueueTail(mm, p, t)
                            ELSE IF before THEN EnqueueHead(mm, p, t)
                            ELSE IF behind THEN EnqueueTail(mm, p, t)
                            ELSE EnqueueBehind(mm, p, ScanStop(mm, p, t))
    BY <1>3, <1>5, <2>1 DEF enqueue
  <2>3. CASE ~ordered \/ (~before /\ behind)
    <3>1. InsertedAt(mm, enqueue(mm, p, t), t, q, p, n + 1)
      BY <1>5, <2>2, <2>3, EnqueueTailInserts
    <3>2. ASSUME ordered, behind, NEW i \in 1..n PROVE prio(q[i]) <= prio(p)
      <4>1. prio(q[i]) <= prio(q[n]) /\ prio(q[i]) \in Int /\ prio(q[n]) \in Int
        BY <1>1, <1>2, <2>1, <3>2 DEF InOrder
      <4> HIDE DEF prio
      <4> QED
        BY <1>2, <3>2, <4>1
    <3>3. Slot(mm, t, q, p, n + 1)
      BY <1>1, <2>3, <3>2 DEF Slot
    <3> QED
      BY <1>1, <3>1, <3>3
  <2>4. CASE ordered /\ before
    <3>1. InsertedAt(mm, enqueue(mm, p, t), t, q, p, 1)
      BY <1>5, <2>2, <2>4, EnqueueHeadInserts
    <3>2. ASSUME NEW i \in 1..n PROVE prio(p) < prio(q[i])
      <4>1. prio(q[1]) <= prio(q[i]) /\ prio(q[i]) \in Int /\ prio(q[1]) \in Int
        BY <1>1, <1>2, <2>1, <2>4 DEF InOrder
      <4> HIDE DEF prio
      <4> QED
        BY <1>2, <2>4, <4>1
    <3>3. Slot(mm, t, q, p, 1)
      <4>1. \A i \in 1..(1 - 1) : FALSE
        OBVIOUS
      <4> QED
        BY <2>4, <3>2, <4>1 DEF Slot
    <3> QED
      BY <1>1, <3>1, <3>3
  <2>5. CASE ordered /\ ~before /\ ~behind
    <3>1. prio(q[1]) <= prio(p) /\ prio(p) < prio(q[n])
      <4>1. prio(q[1]) \in Int /\ prio(q[n]) \in Int
        BY <1>2, <2>1
      <4> HIDE DEF prio
      <4> QED
        BY <1>2, <2>5, <4>1
    <3>2. PICK k \in 2..n :
            /\ ScanStop(mm, p, t) = q[k - 1]
            /\ \A i \in 1..(k - 1) : prio(q[i]) <= prio(p)
            /\ \A i \in k..n : prio(p) < prio(q[i])
      BY <1>5, <2>5, <3>1, ScanFinds DEF Loose
    <3>3. InsertedAt(mm, enqueue(mm, p, t), t, q, p, k)
      BY <2>2, <2>5, <3>2, EnqueueBehindInserts
    <3>4. Slot(mm, t, q, p, k)
      BY <2>5, <3>2 DEF Slot
    <3> QED
      BY <1>1, <3>3, <3>4
  <2> QED
    BY <2>3, <2>4, <2>5
<1> QED
  BY <1>4, <1>5

-----------------------------------------------------------------------------

(***************************************************************************)
(* dequeue, branch by branch.                                              *)
(***************************************************************************)

\* m2 is mm with the k-th PCB of queue t, which was q, taken out.
RemovedAt(mm, m2, t, q, k) ==
  /\ m2 \in Memory
  /\ SameData(mm, m2)
  /\ \A x \in PCB :
       /\ m2.pcb[x].next_pcbPtr = IF x = q[k] THEN NULL
                                  ELSE IF k > 1 /\ x = q[k - 1]
                                  THEN IF k < Len(q) THEN q[k + 1] ELSE NULL
                                  ELSE mm.pcb[x].next_pcbPtr
       /\ m2.pcb[x].prev_pcbPtr = IF x = q[k] THEN NULL
                                  ELSE IF k < Len(q) /\ x = q[k + 1]
                                  THEN IF k > 1 THEN q[k - 1] ELSE NULL
                                  ELSE mm.pcb[x].prev_pcbPtr
  /\ \A u \in queue_tag :
       /\ m2.queue[u].queue_head = IF u = t /\ k = 1
                                   THEN IF k < Len(q) THEN q[k + 1] ELSE NULL
                                   ELSE mm.queue[u].queue_head
       /\ m2.queue[u].queue_tail = IF u = t /\ k = Len(q)
                                   THEN IF k > 1 THEN q[k - 1] ELSE NULL
                                   ELSE mm.queue[u].queue_tail

\* dequeue unlinks the PCB it is given, wherever in the queue it is.
LEMMA DequeueRemoves ==
  ASSUME NEW mm \in Memory, NEW t \in queue_tag, NEW q, Linked(mm, t, q),
         NEW k \in 1..Len(q)
  PROVE  RemovedAt(mm, dequeue(mm, q[k], t), t, q, k)
PROOF
<1> PICK n, p, x, y : n = Len(q) /\ p = q[k] /\ x = q[k - 1] /\ y = q[k + 1]
  OBVIOUS
<1>1. /\ n = Len(q) /\ p = q[k] /\ x = q[k - 1] /\ y = q[k + 1]
      /\ n \in Nat /\ k \in 1..n /\ p \in PCB /\ NULL \in PCB \cup {NULL} /\ p # NULL
  BY QueueFacts DEF Linked
<1>2. /\ k > 1 => x \in PCB /\ x \in PCB \cup {NULL} /\ x # p
      /\ k < n => y \in PCB /\ y \in PCB \cup {NULL} /\ y # p
      /\ k > 1 /\ k < n => x # y
  <2>1. k > 1 => k - 1 \in 1..Len(q) /\ k - 1 # k
    BY <1>1
  <2>2. k < n => k + 1 \in 1..Len(q) /\ k + 1 # k
    BY <1>1
  <2>3. k - 1 # k + 1
    BY <1>1
  <2> QED
    BY <1>1, <2>1, <2>2, <2>3, QueueFacts DEF Linked
<1>3. /\ mm.pcb[p].next_pcbPtr = IF k < n THEN y ELSE NULL
      /\ mm.pcb[p].prev_pcbPtr = IF k > 1 THEN x ELSE NULL
      /\ mm.queue[t].queue_head = p <=> k = 1
      /\ mm.queue[t].queue_tail = p <=> k = n
  <2>1. /\ mm.pcb[q[k]].next_pcbPtr = IF k < n THEN q[k + 1] ELSE NULL
        /\ mm.pcb[q[k]].prev_pcbPtr = IF k > 1 THEN q[k - 1] ELSE NULL
    BY <1>1 DEF Linked
  <2>2. mm.queue[t].queue_head = q[1] /\ mm.queue[t].queue_tail = q[n]
    BY <1>1 DEF Linked
  <2>3. 1 \in 1..Len(q) /\ n \in 1..Len(q)
    BY <1>1
  <2> QED
    BY <1>1, <2>1, <2>2, <2>3 DEF Linked
<1>4. mm.queue \in [queue_tag -> QueueType]
  BY DEF Memory
<1>5. CASE k = 1 /\ k = n
  <2> DEFINE a == [mm EXCEPT !.queue[t] = [queue_head |-> NULL, queue_tail |-> NULL]]
             b == SetPrev(a, p, NULL)
             c == SetNext(b, p, NULL)
  <2>1. dequeue(mm, p, t) = c
    BY <1>3, <1>5 DEF dequeue, SetPrev, SetNext
  <2>2. /\ a \in Memory /\ a.pcb = mm.pcb
        /\ \A u \in queue_tag :
             /\ a.queue[u].queue_head = IF u = t THEN NULL ELSE mm.queue[u].queue_head
             /\ a.queue[u].queue_tail = IF u = t THEN NULL ELSE mm.queue[u].queue_tail
    BY DEF Memory, QueueType
  <2> HIDE DEF a
  <2>3. PrevSet(a, b, p, NULL)
    BY <1>1, <2>2, SetPrevEffect
  <2>4. b \in Memory
    BY <2>3 DEF PrevSet
  <2> HIDE DEF b
  <2>5. NextSet(b, c, p, NULL)
    BY <1>1, <2>4, SetNextEffect
  <2> HIDE DEF c
  <2>6. \A z \in PCB : /\ c.pcb[z].next_pcbPtr = IF z = p THEN NULL ELSE mm.pcb[z].next_pcbPtr
                      /\ c.pcb[z].prev_pcbPtr = IF z = p THEN NULL ELSE mm.pcb[z].prev_pcbPtr
    BY <2>2, <2>3, <2>5 DEF PrevSet, NextSet
  <2>7. c \in Memory /\ SameData(mm, c) /\ c.queue = a.queue
    BY <2>2, <2>3, <2>5 DEF PrevSet, NextSet, SameData
  <2>8. ~(k > 1) /\ ~(k < Len(q))
    <3>1. k = 1 /\ n = 1 /\ Len(q) = n
      BY <1>1, <1>5
    <3> QED
      BY <3>1
  <2> QED
    BY <1>1, <1>5, <2>1, <2>2, <2>6, <2>7, <2>8 DEF RemovedAt
<1>6. CASE k = 1 /\ k # n
  <2> DEFINE a == SetHead(mm, t, y)
             b == SetPrev(a, y, NULL)
             c == SetNext(b, p, NULL)
  <2>1. k < n
    BY <1>1, <1>6
  <2>2. dequeue(mm, p, t) = c
    BY <1>3, <1>6, <2>1 DEF dequeue, SetHead, SetPrev, SetNext
  <2>3. HeadSet(mm, a, t, y)
    BY <1>2, <2>1, SetHeadEffect
  <2>4. a \in Memory
    BY <2>3 DEF HeadSet
  <2> HIDE DEF a
  <2>5. PrevSet(a, b, y, NULL)
    BY <1>1, <1>2, <2>1, <2>4, SetPrevEffect
  <2>6. b \in Memory
    BY <2>5 DEF PrevSet
  <2> HIDE DEF b
  <2>7. NextSet(b, c, p, NULL)
    BY <1>1, <2>6, SetNextEffect
  <2> HIDE DEF c
  <2> QED
    BY <1>1, <1>2, <1>3, <1>6, <2>1, <2>2, <2>3, <2>5, <2>7
    DEF RemovedAt, SameData, HeadSet, PrevSet, NextSet
<1>7. CASE k # 1 /\ k = n
  <2> DEFINE a == SetTail(mm, t, x)
             b == SetNext(a, x, NULL)
             c == SetPrev(b, p, NULL)
  <2>1. k > 1
    BY <1>1, <1>7
  <2>2. dequeue(mm, p, t) = c
    BY <1>3, <1>7, <2>1 DEF dequeue, SetTail, SetPrev, SetNext
  <2>3. TailSet(mm, a, t, x)
    BY <1>2, <2>1, SetTailEffect
  <2>4. a \in Memory
    BY <2>3 DEF TailSet
  <2> HIDE DEF a
  <2>5. NextSet(a, b, x, NULL)
    BY <1>1, <1>2, <2>1, <2>4, SetNextEffect
  <2>6. b \in Memory
    BY <2>5 DEF NextSet
  <2> HIDE DEF b
  <2>7. PrevSet(b, c, p, NULL)
    BY <1>1, <2>6, SetPrevEffect
  <2> HIDE DEF c
  <2> QED
    BY <1>1, <1>2, <1>3, <1>7, <2>1, <2>2, <2>3, <2>5, <2>7
    DEF RemovedAt, SameData, TailSet, PrevSet, NextSet
<1>8. CASE k # 1 /\ k # n
  <2> DEFINE a == SetNext(mm, x, y)
             b == SetPrev(a, y, x)
             c == SetPrev(b, p, NULL)
             d == SetNext(c, p, NULL)
  <2>1. k > 1 /\ k < n
    BY <1>1, <1>8
  <2>2. dequeue(mm, p, t) = d
    BY <1>3, <1>8, <2>1 DEF dequeue, SetPrev, SetNext
  <2>3. NextSet(mm, a, x, y)
    BY <1>2, <2>1, SetNextEffect
  <2>4. a \in Memory
    BY <2>3 DEF NextSet
  <2> HIDE DEF a
  <2>5. PrevSet(a, b, y, x)
    BY <1>2, <2>1, <2>4, SetPrevEffect
  <2>6. b \in Memory
    BY <2>5 DEF PrevSet
  <2> HIDE DEF b
  <2>7. PrevSet(b, c, p, NULL)
    BY <1>1, <2>6, SetPrevEffect
  <2>8. c \in Memory
    BY <2>7 DEF PrevSet
  <2> HIDE DEF c
  <2>9. NextSet(c, d, p, NULL)
    BY <1>1, <2>8, SetNextEffect
  <2> HIDE DEF d
  <2> QED
    BY <1>1, <1>2, <1>3, <1>8, <2>1, <2>2, <2>3, <2>5, <2>7, <2>9
    DEF RemovedAt, SameData, PrevSet, NextSet
<1> QED
  BY <1>5, <1>6, <1>7, <1>8

-----------------------------------------------------------------------------

(***************************************************************************)
(* Linking a PCB into one of four well-formed queues, or out of it, leaves *)
(* four well-formed queues.                                                *)
(***************************************************************************)

\* The queues not touched are linked as before.
LEMMA LinkedStill ==
  ASSUME NEW mm, NEW m2, NEW u, NEW q, Linked(mm, u, q),
         m2.queue[u].queue_head = mm.queue[u].queue_head,
         m2.queue[u].queue_tail = mm.queue[u].queue_tail,
         \A i \in 1..Len(q) : /\ m2.pcb[q[i]].next_pcbPtr = mm.pcb[q[i]].next_pcbPtr
                              /\ m2.pcb[q[i]].prev_pcbPtr = mm.pcb[q[i]].prev_pcbPtr
  PROVE  Linked(m2, u, q)
  BY DEF Linked

\* The queue p joins.
LEMMA InsertLinked ==
  ASSUME NEW mm, NEW m2, NEW t \in queue_tag, NEW q, Linked(mm, t, q), NEW p \in PCB,
         \A i \in 1..Len(q) : q[i] # p, NEW k \in 1..(Len(q) + 1),
         InsertedAt(mm, m2, t, q, p, k)
  PROVE  Linked(m2, t, InsertAt(q, k, p))
PROOF
<1> PICK n, s : n = Len(q) /\ s = InsertAt(q, k, p)
  OBVIOUS
<1>1. /\ q \in Seq(PCB) /\ n \in Nat /\ k \in 1..(n + 1)
      /\ \A i \in 1..n : q[i] \in PCB /\ q[i] # p
      /\ \A i, j \in 1..n : q[i] = q[j] => i = j
  BY QueueFacts DEF Linked
<1>2. /\ s \in Seq(PCB) /\ Len(s) = n + 1
      /\ \A i \in 1..(n + 1) : s[i] = IF i < k THEN q[i] ELSE IF i = k THEN p ELSE q[i - 1]
  BY <1>1, InsertAtIndex
<1>3. \A i, j \in 1..(n + 1) : s[i] = s[j] => i = j
  <2> SUFFICES ASSUME NEW i \in 1..(n + 1), NEW j \in 1..(n + 1), i < j PROVE s[i] # s[j]
    BY <1>1
  <2>1. CASE j < k
    BY <1>1, <1>2, <2>1
  <2>2. CASE j = k
    BY <1>1, <1>2, <2>2
  <2>3. CASE j > k
    <3>1. j - 1 \in 1..n /\ s[j] = q[j - 1]
      BY <1>1, <1>2, <2>3
    <3>2. CASE i < k
      <4>1. i \in 1..n /\ i # j - 1 /\ s[i] = q[i]
        BY <1>1, <1>2, <2>3, <3>2
      <4> QED
        BY <1>1, <3>1, <4>1
    <3>3. CASE i = k
      BY <1>1, <1>2, <3>1, <3>3
    <3>4. CASE i > k
      <4>1. i - 1 \in 1..n /\ i - 1 # j - 1 /\ s[i] = q[i - 1]
        BY <1>1, <1>2, <3>4
      <4> QED
        BY <1>1, <3>1, <4>1
    <3> QED
      BY <1>1, <3>2, <3>3, <3>4
  <2> QED
    BY <1>1, <2>1, <2>2, <2>3
<1>4. /\ m2.queue[t].queue_head = s[1]
      /\ m2.queue[t].queue_tail = s[n + 1]
  <2>1. /\ mm.queue[t].queue_head = IF n = 0 THEN NULL ELSE q[1]
        /\ mm.queue[t].queue_tail = IF n = 0 THEN NULL ELSE q[n]
    BY DEF Linked
  <2>2. /\ m2.queue[t].queue_head = IF k = 1 THEN p ELSE mm.queue[t].queue_head
        /\ m2.queue[t].queue_tail = IF k = n + 1 THEN p ELSE mm.queue[t].queue_tail
    BY DEF InsertedAt
  <2>3. s[1] = IF k = 1 THEN p ELSE q[1]
    BY <1>1, <1>2
  <2>4. s[n + 1] = IF k = n + 1 THEN p ELSE q[n]
    BY <1>1, <1>2
  <2> QED
    BY <1>1, <2>1, <2>2, <2>3, <2>4
<1>5. \A i \in 1..n : /\ mm.pcb[q[i]].next_pcbPtr = IF i < n THEN q[i + 1] ELSE NULL
                     /\ mm.pcb[q[i]].prev_pcbPtr = IF i > 1 THEN q[i - 1] ELSE NULL
  BY DEF Linked
<1>6. \A x \in PCB :
        /\ m2.pcb[x].next_pcbPtr = IF x = p THEN IF k <= n THEN q[k] ELSE NULL
                                   ELSE IF k > 1 /\ x = q[k - 1] THEN p
                                   ELSE mm.pcb[x].next_pcbPtr
        /\ m2.pcb[x].prev_pcbPtr = IF x = p THEN IF k > 1 THEN q[k - 1] ELSE NULL
                                   ELSE IF k <= n /\ x = q[k] THEN p
                                   ELSE mm.pcb[x].prev_pcbPtr
  BY DEF InsertedAt
<1>7. ASSUME NEW i \in 1..n
      PROVE  /\ m2.pcb[q[i]].next_pcbPtr = IF i = k - 1 THEN p ELSE IF i < n THEN q[i + 1] ELSE NULL
             /\ m2.pcb[q[i]].prev_pcbPtr = IF i = k THEN p ELSE IF i > 1 THEN q[i - 1] ELSE NULL
  <2>1. k > 1 /\ q[i] = q[k - 1] <=> i = k - 1
    <3>1. k > 1 => k - 1 \in 1..n
      BY <1>1
    <3> QED
      BY <1>1, <3>1
  <2>2. k <= n /\ q[i] = q[k] <=> i = k
    <3>1. k <= n => k \in 1..n
      BY <1>1
    <3> QED
      BY <1>1, <3>1
  <2> QED
    BY <1>1, <1>5, <1>6, <2>1, <2>2
<1>8. ASSUME NEW i \in 1..(n + 1)
      PROVE  /\ m2.pcb[s[i]].next_pcbPtr = IF i < n + 1 THEN s[i + 1] ELSE NULL
             /\ m2.pcb[s[i]].prev_pcbPtr = IF i > 1 THEN s[i - 1] ELSE NULL
  <2>0. /\ i < n + 1 => i + 1 \in 1..(n + 1)
        /\ i > 1 => i - 1 \in 1..(n + 1)
    BY <1>1
  <2>1. CASE i < k
    <3>1. i \in 1..n /\ s[i] = q[i]
      BY <1>1, <1>2, <2>1
    <3>2. s[i + 1] = (IF i = k - 1 THEN p ELSE q[i + 1]) /\ i < n + 1
      BY <1>1, <1>2, <2>0, <2>1, <3>1
    <3>3. i > 1 => s[i - 1] = q[i - 1]
      BY <1>1, <1>2, <2>0, <2>1
    <3>4. i # k - 1 => i < n
      BY <1>1, <2>1
    <3> QED
      BY <1>1, <1>7, <2>1, <3>1, <3>2, <3>3, <3>4
  <2>2. CASE i = k
    <3>1. s[i] = p
      BY <1>2, <2>2
    <3>2. i < n + 1 => s[i + 1] = q[k]
      BY <1>1, <1>2, <2>0, <2>2
    <3>3. i > 1 => s[i - 1] = q[k - 1]
      BY <1>1, <1>2, <2>0, <2>2
    <3>4. i < n + 1 <=> k <= n
      BY <1>1, <2>2
    <3> QED
      BY <1>6, <2>2, <3>1, <3>2, <3>3, <3>4
  <2>3. CASE i > k
    <3>1. i - 1 \in 1..n /\ s[i] = q[i - 1] /\ i - 1 # k - 1 /\ i > 1
      BY <1>1, <1>2, <2>3
    <3>2. i < n + 1 => s[i + 1] = q[(i - 1) + 1]
      <4> SUFFICES ASSUME i < n + 1 PROVE s[i + 1] = q[(i - 1) + 1]
        OBVIOUS
      <4>1. i + 1 \in 1..(n + 1) /\ ~(i + 1 < k) /\ i + 1 # k /\ (i + 1) - 1 = (i - 1) + 1
        BY <1>1, <2>3
      <4> QED
        BY <1>2, <4>1
    <3>3. s[i - 1] = IF i - 1 = k THEN p ELSE q[(i - 1) - 1]
      BY <1>1, <1>2, <2>0, <2>3, <3>1
    <3>4. (i - 1 < n <=> i < n + 1) /\ (i - 1 # k => i - 1 > 1)
      BY <1>1, <2>3
    <3> QED
      BY <1>7, <3>1, <3>2, <3>3, <3>4
  <2> QED
    BY <1>1, <2>1, <2>2, <2>3
<1> QED
  BY <1>1, <1>2, <1>3, <1>4, <1>8 DEF Linked

\* The queue p leaves.
LEMMA RemoveLinked ==
  ASSUME NEW mm, NEW m2, NEW t \in queue_tag, NEW q, Linked(mm, t, q),
         NEW k \in 1..Len(q), RemovedAt(mm, m2, t, q, k)
  PROVE  Linked(m2, t, RemoveAt(q, k))
PROOF
<1> PICK n, s : n = Len(q) /\ s = RemoveAt(q, k)
  OBVIOUS
<1>1. /\ q \in Seq(PCB) /\ n \in Nat /\ k \in 1..n
      /\ \A i \in 1..n : q[i] \in PCB
      /\ \A i, j \in 1..n : q[i] = q[j] => i = j
  BY QueueFacts DEF Linked
<1>2. /\ s \in Seq(PCB) /\ Len(s) = n - 1
      /\ \A i \in 1..(n - 1) : s[i] = IF i < k THEN q[i] ELSE q[i + 1]
  BY <1>1, RemoveAtIndex
<1> DEFINE w(i) == IF i < k THEN i ELSE i + 1
<1>3. \A i \in 1..(n - 1) : w(i) \in 1..n /\ s[i] = q[w(i)] /\ w(i) # k
  BY <1>1, <1>2
<1>4. \A i, j \in 1..(n - 1) : s[i] = s[j] => i = j
  <2> SUFFICES ASSUME NEW i \in 1..(n - 1), NEW j \in 1..(n - 1), s[i] = s[j] PROVE i = j
    OBVIOUS
  <2>1. w(i) = w(j)
    <3> HIDE DEF w
    <3> QED
      BY <1>1, <1>3
  <2> QED
    BY <1>1, <2>1
<1>5. /\ m2.queue[t].queue_head = IF n - 1 = 0 THEN NULL ELSE s[1]
      /\ m2.queue[t].queue_tail = IF n - 1 = 0 THEN NULL ELSE s[n - 1]
  <2>1. mm.queue[t].queue_head = q[1] /\ mm.queue[t].queue_tail = q[n]
    BY <1>1 DEF Linked
  <2>2. /\ m2.queue[t].queue_head = IF k = 1 THEN IF k < n THEN q[k + 1] ELSE NULL
                                    ELSE mm.queue[t].queue_head
        /\ m2.queue[t].queue_tail = IF k = n THEN IF k > 1 THEN q[k - 1] ELSE NULL
                                    ELSE mm.queue[t].queue_tail
    BY DEF RemovedAt
  <2>3. n - 1 # 0 => s[1] = IF k = 1 THEN q[2] ELSE q[1]
    BY <1>1, <1>2
  <2>4. n - 1 # 0 => s[n - 1] = IF k = n THEN q[k - 1] ELSE q[n]
    <3> SUFFICES ASSUME n - 1 # 0 PROVE s[n - 1] = IF k = n THEN q[k - 1] ELSE q[n]
      OBVIOUS
    <3>1. n - 1 \in 1..(n - 1) /\ (n - 1 < k <=> k = n) /\ (n - 1) + 1 = n
      BY <1>1
    <3> QED
      BY <1>2, <3>1
  <2> QED
    BY <1>1, <2>1, <2>2, <2>3, <2>4
<1>6. \A i \in 1..n : /\ mm.pcb[q[i]].next_pcbPtr = IF i < n THEN q[i + 1] ELSE NULL
                     /\ mm.pcb[q[i]].prev_pcbPtr = IF i > 1 THEN q[i - 1] ELSE NULL
  BY DEF Linked
<1>7. \A x \in PCB :
        /\ m2.pcb[x].next_pcbPtr = IF x = q[k] THEN NULL
                                   ELSE IF k > 1 /\ x = q[k - 1]
                                   THEN IF k < n THEN q[k + 1] ELSE NULL
                                   ELSE mm.pcb[x].next_pcbPtr
        /\ m2.pcb[x].prev_pcbPtr = IF x = q[k] THEN NULL
                                   ELSE IF k < n /\ x = q[k + 1]
                                   THEN IF k > 1 THEN q[k - 1] ELSE NULL
                                   ELSE mm.pcb[x].prev_pcbPtr
  BY DEF RemovedAt
<1>8. ASSUME NEW i \in 1..n, i # k
      PROVE  /\ m2.pcb[q[i]].next_pcbPtr = IF i = k - 1
                                           THEN IF k < n THEN q[k + 1] ELSE NULL
                                           ELSE IF i < n THEN q[i + 1] ELSE NULL
             /\ m2.pcb[q[i]].prev_pcbPtr = IF i = k + 1
                                           THEN IF k > 1 THEN q[k - 1] ELSE NULL
                                           ELSE IF i > 1 THEN q[i - 1] ELSE NULL
  <2>1. k > 1 /\ q[i] = q[k - 1] <=> i = k - 1
    <3>1. k > 1 => k - 1 \in 1..n
      BY <1>1
    <3> QED
      BY <1>1, <3>1
  <2>2. k < n /\ q[i] = q[k + 1] <=> i = k + 1
    <3>1. k < n => k + 1 \in 1..n
      BY <1>1
    <3> QED
      BY <1>1, <3>1
  <2>3. q[i] # q[k] /\ q[i] \in PCB
    BY <1>1, <1>8
  <2> QED
    BY <1>6, <1>7, <2>1, <2>2, <2>3
<1>9. ASSUME NEW i \in 1..(n - 1)
      PROVE  /\ m2.pcb[s[i]].next_pcbPtr = IF i < n - 1 THEN s[i + 1] ELSE NULL
             /\ m2.pcb[s[i]].prev_pcbPtr = IF i > 1 THEN s[i - 1] ELSE NULL
  <2>0. /\ i < n - 1 => i + 1 \in 1..(n - 1)
        /\ i > 1 => i - 1 \in 1..(n - 1)
        /\ (i + 1) - 1 = i /\ (i - 1) + 1 = i
    BY <1>1
  <2>1. CASE i < k
    <3>1. i \in 1..n /\ s[i] = q[i] /\ i # k /\ i # k + 1
      BY <1>1, <1>2, <2>1
    <3>2. i < n - 1 => s[i + 1] = IF i = k - 1 THEN q[k + 1] ELSE q[i + 1]
      BY <1>1, <1>2, <2>0, <2>1
    <3>3. i > 1 => s[i - 1] = q[i - 1]
      BY <1>1, <1>2, <2>0, <2>1
    <3>4. (i = k - 1 => (k < n <=> i < n - 1)) /\ (i # k - 1 => i < n /\ i < n - 1)
      BY <1>1, <2>1
    <3> QED
      BY <1>8, <3>1, <3>2, <3>3, <3>4
  <2>2. CASE ~(i < k)
    <3>1. i + 1 \in 1..n /\ s[i] = q[i + 1] /\ i + 1 # k /\ i + 1 # k - 1 /\ i + 1 > 1
      BY <1>1, <1>2, <2>2
    <3>2. i < n - 1 => s[i + 1] = q[(i + 1) + 1]
      BY <1>1, <1>2, <2>0, <2>2
    <3>3. i > 1 => s[i - 1] = IF i = k THEN q[k - 1] ELSE q[i]
      BY <1>1, <1>2, <2>0, <2>2
    <3>4. /\ i < n - 1 <=> i + 1 < n
          /\ i + 1 = k + 1 <=> i = k
          /\ i # k => i > 1
      BY <1>1, <2>2
    <3>5. /\ m2.pcb[q[i + 1]].next_pcbPtr = IF i + 1 < n THEN q[(i + 1) + 1] ELSE NULL
          /\ m2.pcb[q[i + 1]].prev_pcbPtr = IF i + 1 = k + 1
                                            THEN IF k > 1 THEN q[k - 1] ELSE NULL
                                            ELSE q[(i + 1) - 1]
      BY <1>8, <3>1
    <3> QED
      BY <2>0, <3>1, <3>2, <3>3, <3>4, <3>5
  <2> QED
    BY <2>1, <2>2
<1> QED
  BY <1>1, <1>2, <1>4, <1>5, <1>9 DEF Linked

\* Q with p at place k of queue t, and Q without the k-th PCB of queue t.
Joined(Q, t, k, p) == [Q EXCEPT ![t] = InsertAt(@, k, p)]
Left(Q, t, k) == [Q EXCEPT ![t] = RemoveAt(@, k)]

\* Who is in a queue that p has joined, ...
LEMMA InsertMembers ==
  ASSUME NEW q \in Seq(PCB), NEW k \in 1..(Len(q) + 1), NEW p \in PCB, NEW x
  PROVE  In(x, InsertAt(q, k, p)) <=> In(x, q) \/ x = p
PROOF
<1> PICK n, s : n = Len(q) /\ s = InsertAt(q, k, p)
  OBVIOUS
<1>1. n \in Nat /\ n = Len(q) /\ k \in 1..(n + 1)
  BY LenProperties
<1>2. /\ s \in Seq(PCB) /\ Len(s) = n + 1
      /\ \A i \in 1..(n + 1) : s[i] = IF i < k THEN q[i] ELSE IF i = k THEN p ELSE q[i - 1]
  BY <1>1, InsertAtIndex
<1>3. In(x, s) <=> In(x, q) \/ x = p
  <2>1. ASSUME NEW i \in 1..Len(s), s[i] = x PROVE In(x, q) \/ x = p
    <3>1. CASE i < k
      <4>1. i \in 1..Len(q) /\ s[i] = q[i]
        BY <1>1, <1>2, <3>1
      <4> QED
        BY <2>1, <4>1 DEF In
    <3>2. CASE i = k
      BY <1>2, <2>1, <3>2
    <3>3. CASE i > k
      <4>1. i - 1 \in 1..Len(q) /\ s[i] = q[i - 1]
        BY <1>1, <1>2, <3>3
      <4> QED
        BY <2>1, <4>1 DEF In
    <3> QED
      BY <1>1, <1>2, <3>1, <3>2, <3>3
  <2>2. ASSUME NEW i \in 1..Len(q), q[i] = x PROVE In(x, s)
    <3>1. CASE i < k
      <4>1. i \in 1..Len(s) /\ s[i] = q[i]
        BY <1>1, <1>2, <3>1
      <4> QED
        BY <2>2, <4>1 DEF In
    <3>2. CASE ~(i < k)
      <4>1. i + 1 \in 1..Len(s) /\ ~(i + 1 < k) /\ i + 1 # k /\ (i + 1) - 1 = i
        BY <1>1, <1>2, <3>2
      <4>2. s[i + 1] = q[i]
        BY <1>2, <4>1
      <4> QED
        BY <2>2, <4>1, <4>2 DEF In
    <3> QED
      BY <3>1, <3>2
  <2>3. In(p, s)
    <3>1. k \in 1..Len(s) /\ s[k] = p
      BY <1>1, <1>2
    <3> QED
      BY <3>1 DEF In
  <2> QED
    BY <2>1, <2>2, <2>3 DEF In
<1> QED
  BY <1>3

\* ... and in one that its k-th PCB has left.
LEMMA RemoveMembers ==
  ASSUME NEW q \in Seq(PCB), NEW k \in 1..Len(q), NEW x,
         \A i, j \in 1..Len(q) : q[i] = q[j] => i = j
  PROVE  In(x, RemoveAt(q, k)) <=> In(x, q) /\ x # q[k]
PROOF
<1> PICK n, s : n = Len(q) /\ s = RemoveAt(q, k)
  OBVIOUS
<1>1. n \in Nat /\ n = Len(q) /\ k \in 1..n /\ \A i, j \in 1..n : q[i] = q[j] => i = j
  BY LenProperties
<1>2. /\ s \in Seq(PCB) /\ Len(s) = n - 1
      /\ \A i \in 1..(n - 1) : s[i] = IF i < k THEN q[i] ELSE q[i + 1]
  BY <1>1, RemoveAtIndex
<1>3. In(x, s) <=> In(x, q) /\ x # q[k]
  <2>1. ASSUME NEW i \in 1..Len(s), s[i] = x PROVE In(x, q) /\ x # q[k]
    <3>1. CASE i < k
      <4>1. i \in 1..n /\ s[i] = q[i] /\ i # k
        BY <1>1, <1>2, <3>1
      <4> QED
        BY <1>1, <2>1, <4>1 DEF In
    <3>2. CASE ~(i < k)
      <4>1. i + 1 \in 1..n /\ s[i] = q[i + 1] /\ i + 1 # k
        BY <1>1, <1>2, <3>2
      <4> QED
        BY <1>1, <2>1, <4>1 DEF In
    <3> QED
      BY <3>1, <3>2
  <2>2. ASSUME NEW i \in 1..Len(q), q[i] = x, x # q[k] PROVE In(x, s)
    <3>0. i # k
      BY <2>2
    <3>1. CASE i < k
      <4>1. i \in 1..Len(s) /\ s[i] = q[i]
        BY <1>1, <1>2, <3>1
      <4> QED
        BY <2>2, <4>1 DEF In
    <3>2. CASE ~(i < k)
      <4>1. i - 1 \in 1..Len(s) /\ ~(i - 1 < k) /\ (i - 1) + 1 = i
        BY <1>1, <1>2, <3>0, <3>2
      <4>2. s[i - 1] = q[i]
        BY <1>2, <4>1
      <4> QED
        BY <2>2, <4>1, <4>2 DEF In
    <3> QED
      BY <3>1, <3>2
  <2> QED
    BY <2>1, <2>2 DEF In
<1> QED
  BY <1>3

\* J is Q after p has joined queue t at place k ...
HasJoined(Q, J, t, k, p) ==
  /\ J \in [queue_tag -> Seq(PCB)]
  /\ \A u \in queue_tag : J[u] = IF u = t THEN InsertAt(Q[t], k, p) ELSE Q[u]
  /\ \A u \in queue_tag : \A x : In(x, J[u]) <=> In(x, Q[u]) \/ (u = t /\ x = p)

\* ... or after the k-th PCB of queue t has left it.
HasLeft(Q, J, t, k) ==
  /\ J \in [queue_tag -> Seq(PCB)]
  /\ \A u \in queue_tag : J[u] = IF u = t THEN RemoveAt(Q[t], k) ELSE Q[u]
  /\ \A u \in queue_tag : \A x : In(x, J[u]) <=> In(x, Q[u]) /\ x # Q[t][k]

\* When a PCB joins a queue, that queue has it as a new member and the others
\* keep theirs.
LEMMA JoinedMembers ==
  ASSUME NEW Q \in [queue_tag -> Seq(PCB)], NEW t \in queue_tag,
         NEW k \in 1..(Len(Q[t]) + 1), NEW p \in PCB
  PROVE  HasJoined(Q, Joined(Q, t, k, p), t, k, p)
PROOF
<1>1. Q[t] \in Seq(PCB)
  OBVIOUS
<1>2. InsertAt(Q[t], k, p) \in Seq(PCB)
  BY <1>1, InsertAtIndex
<1>3. \A x : In(x, InsertAt(Q[t], k, p)) <=> In(x, Q[t]) \/ x = p
  BY <1>1, InsertMembers
<1> QED
  BY <1>2, <1>3 DEF Joined, HasJoined

\* A PCB is once in its queue: when it has left, it is in none, and the other
\* members stay.
LEMMA LeftMembers ==
  ASSUME NEW mm, NEW Q, Queues(mm, Q), NEW t \in queue_tag, NEW k \in 1..Len(Q[t])
  PROVE  HasLeft(Q, Left(Q, t, k), t, k)
PROOF
<1>1. Q \in [queue_tag -> Seq(PCB)] /\ Q[t] \in Seq(PCB)
  BY DEF Queues
<1>2. RemoveAt(Q[t], k) \in Seq(PCB)
  BY <1>1, RemoveAtIndex
<1>3. \A i, j \in 1..Len(Q[t]) : Q[t][i] = Q[t][j] => i = j
  BY DEF Queues, Linked
<1>4. \A x : In(x, RemoveAt(Q[t], k)) <=> In(x, Q[t]) /\ x # Q[t][k]
  BY <1>1, <1>3, RemoveMembers
<1>5. In(Q[t][k], Q[t])
  BY DEF In
<1>6. \A u \in queue_tag : \A x : u # t /\ In(x, Q[u]) => x # Q[t][k]
  BY <1>5 DEF Queues
<1> QED
  BY <1>1, <1>2, <1>4, <1>6 DEF Left, HasLeft

\* The four queues after p has joined one ...
LEMMA InsertQueues ==
  ASSUME NEW mm, NEW m2, NEW Q, Queues(mm, Q), NEW t \in queue_tag, NEW p \in PCB,
         Unqueued(p, Q), NEW k \in 1..(Len(Q[t]) + 1), InsertedAt(mm, m2, t, Q[t], p, k)
  PROVE  Queues(m2, Joined(Q, t, k, p))
PROOF
<1> PICK J : J = Joined(Q, t, k, p)
  OBVIOUS
<1>1. Q \in [queue_tag -> Seq(PCB)] /\ \A u \in queue_tag : Linked(mm, u, Q[u])
  BY DEF Queues
<1>2. /\ J \in [queue_tag -> Seq(PCB)]
      /\ \A u \in queue_tag : J[u] = IF u = t THEN InsertAt(Q[t], k, p) ELSE Q[u]
      /\ \A u \in queue_tag : \A x : In(x, J[u]) <=> In(x, Q[u]) \/ (u = t /\ x = p)
  <2>1. HasJoined(Q, Joined(Q, t, k, p), t, k, p)
    BY <1>1, JoinedMembers
  <2> QED
    BY <2>1 DEF HasJoined
<1>3. \A u, v \in queue_tag : \A x : In(x, J[u]) /\ In(x, J[v]) => u = v
  <2>1. \A u, v \in queue_tag : \A x : In(x, Q[u]) /\ In(x, Q[v]) => u = v
    BY DEF Queues
  <2>2. \A u \in queue_tag : ~In(p, Q[u])
    BY DEF Unqueued
  <2>3. \A u \in queue_tag : \A x : In(x, J[u]) <=> In(x, Q[u]) \/ (u = t /\ x = p)
    BY <1>2
  <2> QED
    BY ONLY <2>1, <2>2, <2>3
<1>4. /\ Len(Q[t]) \in Nat
      /\ k > 1 => In(Q[t][k - 1], Q[t])
      /\ k <= Len(Q[t]) => In(Q[t][k], Q[t])
  <2>1. Len(Q[t]) \in Nat
    BY <1>1, LenProperties
  <2>2. k > 1 => k - 1 \in 1..Len(Q[t])
    BY <2>1
  <2>3. k <= Len(Q[t]) => k \in 1..Len(Q[t])
    BY <2>1
  <2> QED
    BY <2>1, <2>2, <2>3 DEF In
<1>5. ASSUME NEW x \in PCB, ~In(x, Q[t]), x # p
      PROVE  /\ m2.pcb[x].next_pcbPtr = mm.pcb[x].next_pcbPtr
             /\ m2.pcb[x].prev_pcbPtr = mm.pcb[x].prev_pcbPtr
  BY <1>4, <1>5 DEF InsertedAt
<1>6. ASSUME NEW u \in queue_tag PROVE Linked(m2, u, J[u])
  <2>1. CASE u = t
    <3>1. \A i \in 1..Len(Q[t]) : Q[t][i] # p
      BY DEF Unqueued, In
    <3>2. Linked(m2, t, InsertAt(Q[t], k, p))
      BY <1>1, <3>1, InsertLinked
    <3> QED
      BY <1>2, <2>1, <3>2
  <2>2. CASE u # t
    <3>1. ASSUME NEW i \in 1..Len(Q[u])
          PROVE  /\ m2.pcb[Q[u][i]].next_pcbPtr = mm.pcb[Q[u][i]].next_pcbPtr
                 /\ m2.pcb[Q[u][i]].prev_pcbPtr = mm.pcb[Q[u][i]].prev_pcbPtr
      <4>1. In(Q[u][i], Q[u]) /\ Q[u][i] \in PCB
        BY <1>1, QueueFacts DEF In
      <4>2. ~In(Q[u][i], Q[t]) /\ Q[u][i] # p
        BY <2>2, <4>1 DEF Queues, Unqueued
      <4> QED
        BY <1>5, <4>1, <4>2
    <3>2. /\ m2.queue[u].queue_head = mm.queue[u].queue_head
          /\ m2.queue[u].queue_tail = mm.queue[u].queue_tail
      BY <2>2 DEF InsertedAt
    <3>3. Linked(m2, u, Q[u])
      BY <1>1, <3>1, <3>2, LinkedStill
    <3> QED
      BY <1>2, <2>2, <3>3
  <2> QED
    BY <2>1, <2>2
<1>7. ASSUME NEW x \in PCB, Unqueued(x, J)
      PROVE  m2.pcb[x].next_pcbPtr = NULL /\ m2.pcb[x].prev_pcbPtr = NULL
  <2>1. Unqueued(x, Q) /\ x # p /\ ~In(x, Q[t])
    BY <1>2, <1>7 DEF Unqueued
  <2> QED
    BY <1>5, <2>1 DEF Queues
<1> QED
  BY <1>2, <1>3, <1>6, <1>7 DEF Queues

\* ... and after its k-th PCB has left one.
LEMMA RemoveQueues ==
  ASSUME NEW mm, NEW m2, NEW Q, Queues(mm, Q), NEW t \in queue_tag,
         NEW k \in 1..Len(Q[t]), RemovedAt(mm, m2, t, Q[t], k)
  PROVE  Queues(m2, Left(Q, t, k)) /\ Unqueued(Q[t][k], Left(Q, t, k))
PROOF
<1> PICK J, p : J = Left(Q, t, k) /\ p = Q[t][k]
  OBVIOUS
<1>1. Q \in [queue_tag -> Seq(PCB)] /\ \A u \in queue_tag : Linked(mm, u, Q[u])
  BY DEF Queues
<1>2. In(p, Q[t])
  BY DEF In
<1>4. /\ J \in [queue_tag -> Seq(PCB)]
      /\ \A u \in queue_tag : J[u] = IF u = t THEN RemoveAt(Q[t], k) ELSE Q[u]
      /\ \A u \in queue_tag : \A x : In(x, J[u]) <=> In(x, Q[u]) /\ x # p
  <2>1. HasLeft(Q, Left(Q, t, k), t, k)
    BY LeftMembers
  <2> QED
    BY <2>1 DEF HasLeft
<1>5. \A u, v \in queue_tag : \A x : In(x, J[u]) /\ In(x, J[v]) => u = v
  BY <1>4 DEF Queues
<1>6. /\ Len(Q[t]) \in Nat
      /\ k > 1 => In(Q[t][k - 1], Q[t])
      /\ k < Len(Q[t]) => In(Q[t][k + 1], Q[t])
  <2>1. Len(Q[t]) \in Nat
    BY <1>1, LenProperties
  <2>2. k > 1 => k - 1 \in 1..Len(Q[t])
    BY <2>1
  <2>3. k < Len(Q[t]) => k + 1 \in 1..Len(Q[t])
    BY <2>1
  <2> QED
    BY <2>1, <2>2, <2>3 DEF In
<1>7. ASSUME NEW x \in PCB, ~In(x, Q[t])
      PROVE  /\ m2.pcb[x].next_pcbPtr = mm.pcb[x].next_pcbPtr
             /\ m2.pcb[x].prev_pcbPtr = mm.pcb[x].prev_pcbPtr
  BY <1>2, <1>6, <1>7 DEF RemovedAt
<1>8. ASSUME NEW u \in queue_tag PROVE Linked(m2, u, J[u])
  <2>1. CASE u = t
    BY <1>1, <1>4, <2>1, RemoveLinked
  <2>2. CASE u # t
    <3>1. ASSUME NEW i \in 1..Len(Q[u])
          PROVE  /\ m2.pcb[Q[u][i]].next_pcbPtr = mm.pcb[Q[u][i]].next_pcbPtr
                 /\ m2.pcb[Q[u][i]].prev_pcbPtr = mm.pcb[Q[u][i]].prev_pcbPtr
      <4>1. In(Q[u][i], Q[u]) /\ Q[u][i] \in PCB
        BY <1>1, QueueFacts DEF In
      <4>2. ~In(Q[u][i], Q[t])
        BY <2>2, <4>1 DEF Queues
      <4> QED
        BY <1>7, <4>1, <4>2
    <3>2. /\ m2.queue[u].queue_head = mm.queue[u].queue_head
          /\ m2.queue[u].queue_tail = mm.queue[u].queue_tail
      BY <2>2 DEF RemovedAt
    <3>3. Linked(m2, u, Q[u])
      BY <1>1, <3>1, <3>2, LinkedStill
    <3> QED
      BY <1>4, <2>2, <3>3
  <2> QED
    BY <2>1, <2>2
<1>9. ASSUME NEW x \in PCB, Unqueued(x, J)
      PROVE  m2.pcb[x].next_pcbPtr = NULL /\ m2.pcb[x].prev_pcbPtr = NULL
  <2>1. CASE x = p
    BY <2>1 DEF RemovedAt
  <2>2. CASE x # p
    <3>1. Unqueued(x, Q) /\ ~In(x, Q[t])
      BY <1>4, <1>9, <2>2 DEF Unqueued
    <3> QED
      BY <1>7, <3>1 DEF Queues
  <2> QED
    BY <2>1, <2>2
<1>10. Unqueued(p, J)
  BY <1>4 DEF Unqueued
<1> QED
  BY <1>4, <1>5, <1>8, <1>9, <1>10 DEF Queues

-----------------------------------------------------------------------------

(***************************************************************************)
(* pcb_insert and pcb_remove.                                              *)
(***************************************************************************)
OrderedTag == {SUS_READY_QUEUE_TAG, READY_QUEUE_TAG}

\* The queues enqueue keeps in order are in order, ...
Ordered(mm, Q) == \A t \in OrderedTag : InOrder(mm, Q[t])

\* ... at least without p, whose priority has changed in place.
OrderedBut(mm, Q, p) ==
  \A t \in OrderedTag : \A i, j \in 1..Len(Q[t]) :
    i <= j /\ Q[t][i] # p /\ Q[t][j] # p =>
      process_priority(mm, Q[t][i]) <= process_priority(mm, Q[t][j])

\* Putting p into its slot keeps the order, ...
LEMMA InsertOrder ==
  ASSUME NEW mm \in Memory, NEW m2, SameData(mm, m2), NEW t \in OrderedTag,
         NEW q \in Seq(PCB), NEW p \in PCB, NEW k \in 1..(Len(q) + 1),
         InOrder(mm, q), Slot(mm, t, q, p, k)
  PROVE  InOrder(m2, InsertAt(q, k, p))
PROOF
<1> DEFINE prio(x) == process_priority(mm, x)
<1> PICK n, s : n = Len(q) /\ s = InsertAt(q, k, p)
  OBVIOUS
<1>1. n \in Nat /\ n = Len(q) /\ k \in 1..(n + 1) /\ \A i \in 1..n : q[i] \in PCB
  BY QueueFacts
<1>2. /\ s \in Seq(PCB) /\ Len(s) = n + 1
      /\ \A i \in 1..(n + 1) : s[i] = IF i < k THEN q[i] ELSE IF i = k THEN p ELSE q[i - 1]
  BY <1>1, InsertAtIndex
<1>3. \A x \in PCB : prio(x) \in Int /\ prio(x) = process_priority(m2, x)
  BY DEF process_priority, Memory, PcbType, SameData
<1>4. /\ \A i, j \in 1..n : i <= j => prio(q[i]) <= prio(q[j])
      /\ \A i \in 1..(k - 1) : prio(q[i]) <= prio(p)
      /\ \A i \in k..n : prio(p) < prio(q[i])
  BY DEF InOrder, Slot, OrderedTag
<1> HIDE DEF prio
<1>5. ASSUME NEW i \in 1..(n + 1), NEW j \in 1..(n + 1), i <= j
      PROVE  prio(s[i]) <= prio(s[j])
  <2>1. CASE i < k /\ j < k
    <3>1. i \in 1..n /\ j \in 1..n /\ s[i] = q[i] /\ s[j] = q[j]
      BY <1>1, <1>2, <2>1
    <3> QED
      BY <1>4, <1>5, <3>1
  <2>2. CASE i < k /\ j = k
    <3>1. i \in 1..(k - 1) /\ s[i] = q[i] /\ s[j] = p
      BY <1>1, <1>2, <2>2
    <3> QED
      BY <1>4, <3>1
  <2>3. CASE i < k /\ j > k
    <3>1. /\ i \in 1..(k - 1) /\ i \in 1..n /\ s[i] = q[i]
          /\ j - 1 \in k..n /\ j - 1 \in 1..n /\ s[j] = q[j - 1] /\ i <= j - 1
      BY <1>1, <1>2, <2>3
    <3> QED
      BY <1>4, <3>1
  <2>4. CASE i = k /\ j = k
    <3>1. s[i] = p /\ s[j] = p /\ prio(p) \in Int
      BY <1>2, <1>3, <2>4
    <3> QED
      BY <3>1
  <2>5. CASE i = k /\ j > k
    <3>1. s[i] = p /\ j - 1 \in k..n /\ s[j] = q[j - 1] /\ q[j - 1] \in PCB
      BY <1>1, <1>2, <2>5
    <3>2. prio(p) < prio(q[j - 1]) /\ prio(p) \in Int /\ prio(q[j - 1]) \in Int
      BY <1>3, <1>4, <3>1
    <3> QED
      BY <3>1, <3>2
  <2>6. CASE i > k
    <3>1. i - 1 \in 1..n /\ j - 1 \in 1..n /\ s[i] = q[i - 1] /\ s[j] = q[j - 1] /\ i - 1 <= j - 1
      BY <1>1, <1>2, <1>5, <2>6
    <3> QED
      BY <1>4, <3>1
  <2>7. \/ i < k /\ (j < k \/ j = k \/ j > k)
        \/ i = k /\ (j = k \/ j > k)
        \/ i > k
    BY <1>1, <1>5
  <2> QED
    BY <2>1, <2>2, <2>3, <2>4, <2>5, <2>6, <2>7
<1>6. \A i \in 1..(n + 1) : s[i] \in PCB
  BY <1>2, ElementOfSeq
<1> QED
  BY <1>2, <1>3, <1>5, <1>6 DEF InOrder

\* ... and so does taking p out; only the others need have been in order.
LEMMA RemoveOrder ==
  ASSUME NEW mm, NEW m2, SameData(mm, m2), NEW q \in Seq(PCB), NEW k \in 1..Len(q),
         \A i, j \in 1..Len(q) : q[i] = q[j] => i = j,
         \A i, j \in 1..Len(q) : i <= j /\ q[i] # q[k] /\ q[j] # q[k] =>
           process_priority(mm, q[i]) <= process_priority(mm, q[j])
  PROVE  InOrder(m2, RemoveAt(q, k))
PROOF
<1> DEFINE prio(x) == process_priority(mm, x)
           w(i) == IF i < k THEN i ELSE i + 1
<1> PICK n, s : n = Len(q) /\ s = RemoveAt(q, k)
  OBVIOUS
<1>1. n \in Nat /\ n = Len(q) /\ k \in 1..n /\ \A i, j \in 1..n : q[i] = q[j] => i = j
  BY LenProperties
<1>2. /\ s \in Seq(PCB) /\ Len(s) = n - 1
      /\ \A i \in 1..(n - 1) : s[i] = IF i < k THEN q[i] ELSE q[i + 1]
  BY <1>1, RemoveAtIndex
<1>3. \A x \in PCB : prio(x) = process_priority(m2, x)
  BY DEF process_priority, SameData
<1>4. \A i, j \in 1..n : i <= j /\ q[i] # q[k] /\ q[j] # q[k] => prio(q[i]) <= prio(q[j])
  OBVIOUS
<1> HIDE DEF prio
<1>5. \A i \in 1..(n - 1) : w(i) \in 1..n /\ s[i] = q[w(i)] /\ w(i) # k
  BY <1>1, <1>2
<1>6. ASSUME NEW i \in 1..(n - 1), NEW j \in 1..(n - 1), i <= j
      PROVE  prio(s[i]) <= prio(s[j])
  <2>1. w(i) <= w(j)
    BY <1>1, <1>6
  <2> HIDE DEF w
  <2>2. q[w(i)] # q[k] /\ q[w(j)] # q[k]
    BY <1>1, <1>5
  <2> QED
    BY <1>4, <1>5, <2>1, <2>2
<1>7. \A i \in 1..(n - 1) : s[i] \in PCB
  BY <1>2, ElementOfSeq
<1> QED
  BY <1>2, <1>3, <1>6, <1>7 DEF InOrder

\* m2 is mm with p put at place k of queue t, J its queues; ...
Inserted(mm, m2, Q, J, t, k, p) ==
  /\ m2 \in Memory /\ SameData(mm, m2)
  /\ Queues(m2, J) /\ Ordered(m2, J)
  /\ HasJoined(Q, J, t, k, p) /\ Slot(mm, t, Q[t], p, k)

\* ... m2 is mm with the k-th PCB of queue t taken out.
Removed(mm, m2, Q, J, t, k) ==
  /\ m2 \in Memory /\ SameData(mm, m2)
  /\ Queues(m2, J) /\ Ordered(m2, J)
  /\ HasLeft(Q, J, t, k) /\ Unqueued(Q[t][k], J)

\* pcb_insert puts a PCB that is in no queue into the slot its states and its
\* priority name.
LEMMA PcbInsert ==
  ASSUME NEW mm \in Memory, NEW Q, Queues(mm, Q), Ordered(mm, Q),
         NEW p \in PCB, Unqueued(p, Q), NEW t \in queue_tag, queue_sel(mm, p) = t
  PROVE  \E k \in 1..(Len(Q[t]) + 1) :
           Inserted(mm, pcb_insert(mm, p), Q, Joined(Q, t, k, p), t, k, p)
PROOF
<1>1. Q \in [queue_tag -> Seq(PCB)] /\ Q[t] \in Seq(PCB) /\ Linked(mm, t, Q[t])
  BY DEF Queues
<1>2. t \in {SUS_READY_QUEUE_TAG, READY_QUEUE_TAG} => InOrder(mm, Q[t])
  BY DEF Ordered, OrderedTag
<1>3. Loose(mm, p) /\ \A i \in 1..Len(Q[t]) : Q[t][i] # p
  BY DEF Queues, Loose, Unqueued, In
<1>4. PICK k \in 1..(Len(Q[t]) + 1) :
        InsertedAt(mm, enqueue(mm, p, t), t, Q[t], p, k) /\ Slot(mm, t, Q[t], p, k)
  <2> PICK q : q = Q[t]
    OBVIOUS
  <2>1. \E k \in 1..(Len(q) + 1) :
          InsertedAt(mm, enqueue(mm, p, t), t, q, p, k) /\ Slot(mm, t, q, p, k)
    BY <1>1, <1>2, <1>3, EnqueueInserts
  <2> QED
    BY <2>1
<1> PICK m2, J : m2 = enqueue(mm, p, t) /\ J = Joined(Q, t, k, p)
  OBVIOUS
<1>5. m2 = pcb_insert(mm, p)
  BY DEF pcb_insert
<1>6. HasJoined(Q, J, t, k, p)
  BY <1>1, JoinedMembers
<1>7. InsertedAt(mm, m2, t, Q[t], p, k)
  BY <1>4
<1>8. m2 \in Memory /\ SameData(mm, m2)
  BY <1>7 DEF InsertedAt
<1>9. Queues(m2, J)
  BY <1>7, InsertQueues
<1>10. ASSUME NEW u \in OrderedTag PROVE InOrder(m2, J[u])
  <2>0. u \in queue_tag /\ InOrder(mm, Q[u]) /\ Q[u] \in Seq(PCB)
    BY <1>1 DEF OrderedTag, queue_tag, SUS_READY_QUEUE_TAG, READY_QUEUE_TAG, Ordered
  <2>1. CASE u = t
    <3>1. InOrder(m2, InsertAt(Q[t], k, p))
      BY <1>1, <1>4, <1>8, <2>0, <2>1, InsertOrder
    <3> QED
      BY <1>6, <2>0, <2>1, <3>1 DEF HasJoined
  <2>2. CASE u # t
    <3>1. J[u] = Q[u] /\ \A i \in 1..Len(Q[u]) : Q[u][i] \in PCB
      BY <1>6, <2>0, <2>2, QueueFacts DEF HasJoined
    <3>2. \A x \in PCB : process_priority(m2, x) = process_priority(mm, x)
      BY <1>8 DEF SameData, process_priority
    <3>3. InOrder(mm, Q[u])
      BY <2>0
    <3> QED
      BY ONLY <3>1, <3>2, <3>3 DEF InOrder
  <2> QED
    BY <2>1, <2>2
<1> QED
  BY <1>4, <1>5, <1>6, <1>8, <1>9, <1>10 DEF Inserted, Ordered

\* pcb_remove finds a PCB in the queue its states name and takes it out.
LEMMA PcbRemove ==
  ASSUME NEW mm \in Memory, NEW Q, Queues(mm, Q), NEW t \in queue_tag,
         NEW k \in 1..Len(Q[t]), queue_sel(mm, Q[t][k]) = t, OrderedBut(mm, Q, Q[t][k])
  PROVE  /\ pcb_remove_ok(mm, Q[t][k])
         /\ Removed(mm, pcb_remove(mm, Q[t][k]), Q, Left(Q, t, k), t, k)
PROOF
<1>1. Q \in [queue_tag -> Seq(PCB)] /\ Q[t] \in Seq(PCB) /\ Linked(mm, t, Q[t])
  BY DEF Queues
<1>2. dequeue_finds(mm, Q[t][k], t)
  BY <1>1, DequeueFinds
<1>3. pcb_remove_ok(mm, Q[t][k]) /\ pcb_remove(mm, Q[t][k]) = dequeue(mm, Q[t][k], t)
  BY <1>2 DEF pcb_remove_ok, pcb_remove
<1>4. RemovedAt(mm, dequeue(mm, Q[t][k], t), t, Q[t], k)
  BY <1>1, DequeueRemoves
<1> PICK m2, J : m2 = dequeue(mm, Q[t][k], t) /\ J = Left(Q, t, k)
  OBVIOUS
<1>5. RemovedAt(mm, m2, t, Q[t], k)
  BY <1>4
<1>6. m2 \in Memory /\ SameData(mm, m2)
  BY <1>5 DEF RemovedAt
<1>7. HasLeft(Q, J, t, k)
  BY LeftMembers
<1>8. Queues(m2, J) /\ Unqueued(Q[t][k], J)
  BY <1>5, RemoveQueues
<1>9. ASSUME NEW u \in OrderedTag PROVE InOrder(m2, J[u])
  <2>0. u \in queue_tag /\ Q[u] \in Seq(PCB) /\ Linked(mm, u, Q[u])
    BY <1>1 DEF OrderedTag, queue_tag, SUS_READY_QUEUE_TAG, READY_QUEUE_TAG, Queues
  <2>1. CASE u = t
    <3>1. \A i, j \in 1..Len(Q[t]) : Q[t][i] = Q[t][j] => i = j
      BY <1>1 DEF Linked
    <3>2. \A i, j \in 1..Len(Q[t]) : i <= j /\ Q[t][i] # Q[t][k] /\ Q[t][j] # Q[t][k] =>
            process_priority(mm, Q[t][i]) <= process_priority(mm, Q[t][j])
      BY <2>1 DEF OrderedBut
    <3>3. InOrder(m2, RemoveAt(Q[t], k))
      <4> PICK q : q = Q[t]
        OBVIOUS
      <4> QED
        BY <1>1, <1>6, <3>1, <3>2, RemoveOrder
    <3> QED
      BY <1>7, <2>0, <2>1, <3>3 DEF HasLeft
  <2>2. CASE u # t
    <3>1. J[u] = Q[u] /\ \A i \in 1..Len(Q[u]) : Q[u][i] \in PCB
      BY <1>7, <2>0, <2>2, QueueFacts DEF HasLeft
    <3>2. \A i \in 1..Len(Q[u]) : Q[u][i] # Q[t][k]
      BY <2>0, <2>2 DEF Queues, In
    <3> QED
      BY <1>6, <3>1, <3>2 DEF InOrder, OrderedBut, SameData, process_priority
  <2> QED
    BY <2>1, <2>2
<1> QED
  BY <1>3, <1>6, <1>7, <1>8, <1>9 DEF Removed, Ordered

\* The queues do not change with the other fields of the PCBs.
LEMMA QueuesKept ==
  ASSUME NEW mm, NEW m2, NEW Q, Queues(mm, Q), m2.queue = mm.queue,
         \A x \in PCB : /\ m2.pcb[x].next_pcbPtr = mm.pcb[x].next_pcbPtr
                        /\ m2.pcb[x].prev_pcbPtr = mm.pcb[x].prev_pcbPtr
  PROVE  Queues(m2, Q)
PROOF
<1>1. ASSUME NEW t \in queue_tag PROVE Linked(m2, t, Q[t])
  <2>1. Linked(mm, t, Q[t]) /\ \A i \in 1..Len(Q[t]) : Q[t][i] \in PCB
    BY QueueFacts DEF Queues
  <2> QED
    BY <2>1, LinkedStill
<1> QED
  BY <1>1 DEF Queues

-----------------------------------------------------------------------------

(***************************************************************************)
(* The inductive invariant.                                                *)
(***************************************************************************)

\* c is a context process p may be in, when comhand knows the commands K.
Own(p, c, K) ==
  /\ c.stack = p
  /\ c.fn \in {"comhand", "idle", "r3", "none"}
  /\ c.fn = "comhand" => p = Comhand
  /\ c.fn = "idle" => p = Idle
  /\ c.fn = "r3" => p # Idle
  /\ c.fn = "none" => "create pcb" \in K
  /\ c.fn = "comhand" /\ c.pc = "load" => c.left \in 1..Len(R3)

\* Every PCB in a queue is live, waits where its states say, and will go on
\* where it left off.
Waiting(mm, Q, lv, K) ==
  \A t \in queue_tag : \A x : In(x, Q[t]) =>
    x \in lv /\ queue_sel(mm, x) = t /\ Own(x, mm.pcb[x].context, K)

Sound(mm, Q, lv, K) ==
  /\ mm \in Memory /\ lv \subseteq PCB
  /\ Queues(mm, Q)
  /\ Ordered(mm, Q)
  /\ Waiting(mm, Q, lv, K)

\* Every live system process but cur is in the ready queue.
SystemWaits(mm, Q, lv, cur) ==
  \A x \in lv : mm.pcb[x].process_class = SYSTEM => x = cur \/ In(x, Q[READY_QUEUE_TAG])

\* The four queues, as sequences.
QueuesOf(mm) == [t \in queue_tag |-> QueueOf(mm, t)]

\* kmain runs, before its IDLE request or after it.
KmainControl ==
  /\ current_process = NULL /\ initial_context = NULL
  /\ cpu.stack = NULL /\ cpu.fn = "kmain" /\ cpu.left = 0
  /\ cpu.pc \in {"create comhand", "create idle", "idle", "halt"}
  /\ cpu.pc = "create comhand" => live = {}
  /\ cpu.pc = "create idle" => live = {Comhand}
  /\ cpu.pc = "idle" => Idle \in live /\ m.pcb[Idle].process_class = SYSTEM

\* A process runs.
ProcessControl ==
  /\ current_process \in live
  /\ Unqueued(current_process, QueuesOf(m))
  /\ queue_sel(m, current_process) = READY_QUEUE_TAG
  /\ Own(current_process, cpu, commands)
  /\ initial_context = Context(NULL, "kmain", "halt", 0)
  /\ Idle \in live /\ m.pcb[Idle].process_class = SYSTEM

KernelInv ==
  /\ TypeOK
  /\ Sound(m, QueuesOf(m), live, commands)
  /\ ~At("kmain", "halt") => SystemWaits(m, QueuesOf(m), live, current_process)
  /\ KmainControl \/ ProcessControl

\* The queues of a memory are read off it.
LEMMA QueuesRead ==
  ASSUME NEW mm, NEW Q, Queues(mm, Q)
  PROVE  QueuesOf(mm) = Q
PROOF
<1>1. \A t \in queue_tag : QueueOf(mm, t) = Q[t]
  BY QueueRead DEF Queues
<1> QED
  BY <1>1 DEF QueuesOf, Queues

\* The tag of a PCB's queue is one of the four.
LEMMA SelTag ==
  ASSUME NEW mm \in Memory, NEW p \in PCB
  PROVE  queue_sel(mm, p) \in queue_tag
PROOF
<1>1. mm.pcb[p].disp_state \in {0, 1} /\ mm.pcb[p].exe_state \in {0, 2}
  BY DEF Memory, PcbType, SUSPENDED, NOT_SUSPENDED, READY, BLOCKED
<1> QED
  BY <1>1 DEF queue_sel, queue_tag

\* pcb_insert keeps the queues sound, ...
LEMMA SoundInsert ==
  ASSUME NEW mm, NEW Q, NEW lv, NEW K, Sound(mm, Q, lv, K),
         NEW p \in lv, Unqueued(p, Q), Own(p, mm.pcb[p].context, K),
         NEW t, queue_sel(mm, p) = t
  PROVE  /\ t \in queue_tag
         /\ \E k \in 1..(Len(Q[t]) + 1) :
              /\ Inserted(mm, pcb_insert(mm, p), Q, Joined(Q, t, k, p), t, k, p)
              /\ Sound(pcb_insert(mm, p), Joined(Q, t, k, p), lv, K)
PROOF
<1>1. mm \in Memory /\ p \in PCB /\ Queues(mm, Q) /\ Ordered(mm, Q) /\ lv \subseteq PCB
  BY DEF Sound
<1>2. t \in queue_tag
  BY <1>1, SelTag
<1>3. PICK k \in 1..(Len(Q[t]) + 1) :
        Inserted(mm, pcb_insert(mm, p), Q, Joined(Q, t, k, p), t, k, p)
  BY <1>1, <1>2, PcbInsert
<1> PICK m2, J : m2 = pcb_insert(mm, p) /\ J = Joined(Q, t, k, p)
  OBVIOUS
<1>4. Inserted(mm, m2, Q, J, t, k, p)
  BY <1>3
<1>5. /\ m2 \in Memory /\ SameData(mm, m2) /\ Queues(m2, J) /\ Ordered(m2, J)
      /\ \A u \in queue_tag : \A x : In(x, J[u]) <=> In(x, Q[u]) \/ (u = t /\ x = p)
  BY <1>4 DEF Inserted, HasJoined
<1>6. Waiting(m2, J, lv, K)
  <2> SUFFICES ASSUME NEW u \in queue_tag, NEW x, In(x, J[u])
               PROVE  x \in lv /\ queue_sel(m2, x) = u /\ Own(x, m2.pcb[x].context, K)
    BY DEF Waiting
  <2>1. x \in lv /\ queue_sel(mm, x) = u /\ Own(x, mm.pcb[x].context, K)
    BY <1>5 DEF Sound, Waiting
  <2>2. x \in PCB
    BY <1>1, <2>1
  <2> QED
    BY <1>5, <2>1, <2>2 DEF SameData, queue_sel
<1>7. Sound(m2, J, lv, K)
  BY <1>1, <1>5, <1>6 DEF Sound
<1> QED
  BY <1>2, <1>3, <1>7

\* ... and so does pcb_remove, also if only the priority of the PCB it takes
\* out does not fit its place.
LEMMA SoundRemove ==
  ASSUME NEW mm \in Memory, NEW Q, NEW lv \in SUBSET PCB, NEW K, Queues(mm, Q),
         Waiting(mm, Q, lv, K),
         NEW t \in queue_tag, NEW k \in 1..Len(Q[t]), OrderedBut(mm, Q, Q[t][k])
  PROVE  /\ pcb_remove_ok(mm, Q[t][k])
         /\ Removed(mm, pcb_remove(mm, Q[t][k]), Q, Left(Q, t, k), t, k)
         /\ Sound(pcb_remove(mm, Q[t][k]), Left(Q, t, k), lv, K)
PROOF
<1>1. In(Q[t][k], Q[t])
  BY DEF In
<1>2. queue_sel(mm, Q[t][k]) = t
  BY <1>1 DEF Waiting
<1>3. /\ pcb_remove_ok(mm, Q[t][k])
      /\ Removed(mm, pcb_remove(mm, Q[t][k]), Q, Left(Q, t, k), t, k)
  BY <1>2, PcbRemove
<1> PICK m2, J : m2 = pcb_remove(mm, Q[t][k]) /\ J = Left(Q, t, k)
  OBVIOUS
<1>4. Removed(mm, m2, Q, J, t, k)
  BY <1>3
<1>5. /\ m2 \in Memory /\ SameData(mm, m2) /\ Queues(m2, J) /\ Ordered(m2, J)
      /\ \A u \in queue_tag : \A x : In(x, J[u]) => In(x, Q[u])
  BY <1>4 DEF Removed, HasLeft
<1>6. Waiting(m2, J, lv, K)
  <2> SUFFICES ASSUME NEW u \in queue_tag, NEW x, In(x, J[u])
               PROVE  x \in lv /\ queue_sel(m2, x) = u /\ Own(x, m2.pcb[x].context, K)
    BY DEF Waiting
  <2>1. x \in lv /\ queue_sel(mm, x) = u /\ Own(x, mm.pcb[x].context, K)
    BY <1>5 DEF Waiting
  <2> QED
    BY <1>5, <2>1 DEF SameData, queue_sel
<1>7. Sound(m2, J, lv, K)
  BY <1>5, <1>6 DEF Sound
<1> QED
  BY <1>3, <1>7

\* Sound queues are ordered also when one PCB is left out of consideration,
\* which is what remains while the priority of that PCB changes.
LEMMA SoundOrderedBut ==
  ASSUME NEW mm, NEW Q, NEW lv, NEW K, Sound(mm, Q, lv, K), NEW p
  PROVE  /\ mm \in Memory /\ lv \in SUBSET PCB /\ Queues(mm, Q) /\ Waiting(mm, Q, lv, K)
         /\ OrderedBut(mm, Q, p)
  BY DEF Sound, Ordered, OrderedBut, InOrder

\* A PCB that is in no queue may change, be set up or be freed.
LEMMA SoundChange ==
  ASSUME NEW mm, NEW Q, NEW lv, NEW K, Sound(mm, Q, lv, K), NEW p \in PCB, Unqueued(p, Q),
         NEW m2 \in Memory, m2.queue = mm.queue,
         \A x \in PCB : x # p => m2.pcb[x] = mm.pcb[x],
         m2.pcb[p].next_pcbPtr = NULL, m2.pcb[p].prev_pcbPtr = NULL,
         NEW lw \in SUBSET PCB, lv \ {p} \subseteq lw
  PROVE  Sound(m2, Q, lw, K)
PROOF
<1>1. /\ mm \in Memory /\ Queues(mm, Q) /\ Ordered(mm, Q) /\ Waiting(mm, Q, lv, K)
      /\ lv \subseteq PCB
  BY DEF Sound
<1>2. /\ mm.pcb[p].next_pcbPtr = NULL /\ mm.pcb[p].prev_pcbPtr = NULL
  BY <1>1 DEF Queues
<1>3. Queues(m2, Q)
  BY <1>1, <1>2, QueuesKept
<1>4. \A t \in queue_tag : \A x : In(x, Q[t]) => x \in lv /\ x \in PCB /\ x # p /\ m2.pcb[x] = mm.pcb[x]
  BY <1>1 DEF Waiting, Unqueued
<1>5. Waiting(m2, Q, lw, K)
  BY <1>1, <1>4 DEF Waiting, queue_sel
<1>6. ASSUME NEW t \in OrderedTag PROVE InOrder(m2, Q[t])
  <2>1. t \in queue_tag /\ InOrder(mm, Q[t])
    BY <1>1 DEF OrderedTag, queue_tag, SUS_READY_QUEUE_TAG, READY_QUEUE_TAG, Ordered
  <2>2. \A i \in 1..Len(Q[t]) : m2.pcb[Q[t][i]] = mm.pcb[Q[t][i]]
    BY <1>4, <2>1 DEF In
  <2> QED
    BY <2>1, <2>2 DEF InOrder, process_priority
<1> QED
  BY <1>3, <1>5, <1>6 DEF Sound, Ordered

-----------------------------------------------------------------------------

(***************************************************************************)
(* What sys_call, pcb_setup and the commands do to the queues.             *)
(***************************************************************************)

\* Everything about a process but its links and its name.
SameProcess(mm, m2, x) ==
  /\ m2.pcb[x].exe_state = mm.pcb[x].exe_state
  /\ m2.pcb[x].disp_state = mm.pcb[x].disp_state
  /\ m2.pcb[x].process_class = mm.pcb[x].process_class
  /\ m2.pcb[x].process_priority = mm.pcb[x].process_priority
  /\ m2.pcb[x].context = mm.pcb[x].context

\* A queue without a head is empty.
LEMMA HeadOf ==
  ASSUME NEW mm, NEW Q, Queues(mm, Q), NEW t \in queue_tag
  PROVE  /\ mm.queue[t].queue_head = NULL <=> Len(Q[t]) = 0
         /\ Q[t] = << >> <=> Len(Q[t]) = 0
         /\ Len(Q[t]) \in Nat
         /\ mm.queue[t].queue_head # NULL =>
              1 \in 1..Len(Q[t]) /\ mm.queue[t].queue_head = Q[t][1]
PROOF
<1> PICK q : q = Q[t]
  OBVIOUS
<1>1. Linked(mm, t, q) /\ q \in Seq(PCB)
  BY DEF Queues
<1>2. Len(q) \in Nat /\ \A i \in 1..Len(q) : q[i] # NULL
  BY <1>1, QueueFacts
<1>3. q = << >> <=> Len(q) = 0
  BY <1>1, EmptySeq
<1>4. mm.queue[t].queue_head = IF Len(q) = 0 THEN NULL ELSE q[1]
  BY <1>1 DEF Linked
<1> QED
  BY <1>2, <1>3, <1>4

\* m2 is mm with p set up and waiting in the ready queue.
SetupOutcome(mm, m2, Q, lv, K, p, class, prio) ==
  /\ \E k \in 1..(Len(Q[READY_QUEUE_TAG]) + 1) :
       /\ Sound(m2, Joined(Q, READY_QUEUE_TAG, k, p), lv \cup {p}, K)
       /\ HasJoined(Q, Joined(Q, READY_QUEUE_TAG, k, p), READY_QUEUE_TAG, k, p)
       /\ Slot(m2, READY_QUEUE_TAG, Q[READY_QUEUE_TAG], p, k)
  /\ \A x \in PCB : x # p => SameProcess(mm, m2, x)
  /\ m2.pcb[p].process_class = class /\ m2.pcb[p].process_priority = prio

\* A PCB is set up, on free memory, and queued.
LEMMA SetupSound ==
  ASSUME NEW mm, NEW Q, NEW lv, NEW K, Sound(mm, Q, lv, K), NEW p \in PCB, p \notin lv,
         NEW name \in ProcessName, NEW class \in {SYSTEM, USER}, NEW prio \in 0..9,
         NEW c \in ContextType, Own(p, c, K),
         NEW m2, m2 = pcb_insert(pcb_setup(mm, p, name, class, prio, c), p)
  PROVE  SetupOutcome(mm, m2, Q, lv, K, p, class, prio)
PROOF
<1> PICK s, t : s = pcb_setup(mm, p, name, class, prio, c) /\ t = READY_QUEUE_TAG
  OBVIOUS
<1>1. mm \in Memory /\ Queues(mm, Q) /\ Waiting(mm, Q, lv, K) /\ lv \subseteq PCB
  BY DEF Sound
<1>2. Unqueued(p, Q)
  BY <1>1 DEF Waiting, Unqueued
<1>3. /\ s \in Memory /\ s.queue = mm.queue
      /\ \A x \in PCB : x # p => s.pcb[x] = mm.pcb[x]
      /\ s.pcb[p].next_pcbPtr = NULL /\ s.pcb[p].prev_pcbPtr = NULL
      /\ s.pcb[p].process_class = class /\ s.pcb[p].process_priority = prio
      /\ s.pcb[p].exe_state = READY /\ s.pcb[p].disp_state = NOT_SUSPENDED
      /\ s.pcb[p].context = c
  <2> DEFINE r == [process_name |-> name, process_class |-> class,
                   process_priority |-> prio, exe_state |-> READY,
                   disp_state |-> NOT_SUSPENDED, context |-> c,
                   next_pcbPtr |-> NULL, prev_pcbPtr |-> NULL]
             g == [mm.pcb EXCEPT ![p] = r]
  <2>1. r \in PcbType
    BY DEF PcbType
  <2>2. /\ r.next_pcbPtr = NULL /\ r.prev_pcbPtr = NULL
        /\ r.process_class = class /\ r.process_priority = prio
        /\ r.exe_state = READY /\ r.disp_state = NOT_SUSPENDED /\ r.context = c
    OBVIOUS
  <2>3. s = [mm EXCEPT !.pcb = g]
    BY DEF pcb_setup
  <2> HIDE DEF r
  <2>4. g \in [PCB -> PcbType] /\ \A x \in PCB : g[x] = IF x = p THEN r ELSE mm.pcb[x]
    BY <1>1, <2>1 DEF Memory
  <2> HIDE DEF g
  <2>5. s \in Memory /\ s.queue = mm.queue /\ s.pcb = g
    BY <1>1, <2>3, <2>4 DEF Memory
  <2> QED
    BY <2>2, <2>4, <2>5
<1>4. Sound(s, Q, lv \cup {p}, K)
  <2>1. lv \cup {p} \in SUBSET PCB /\ lv \ {p} \subseteq lv \cup {p}
    BY <1>1
  <2> QED
    BY <1>2, <1>3, <2>1, SoundChange
<1>5. queue_sel(s, p) = t
  BY <1>3 DEF queue_sel, READY, NOT_SUSPENDED, READY_QUEUE_TAG
<1>6. PICK k \in 1..(Len(Q[t]) + 1) :
        /\ Inserted(s, m2, Q, Joined(Q, t, k, p), t, k, p)
        /\ Sound(m2, Joined(Q, t, k, p), lv \cup {p}, K)
  <2>1. p \in lv \cup {p} /\ Own(p, s.pcb[p].context, K)
    BY <1>3
  <2>2. \E k \in 1..(Len(Q[t]) + 1) :
          /\ Inserted(s, pcb_insert(s, p), Q, Joined(Q, t, k, p), t, k, p)
          /\ Sound(pcb_insert(s, p), Joined(Q, t, k, p), lv \cup {p}, K)
    BY <1>2, <1>4, <1>5, <2>1, SoundInsert
  <2> QED
    BY <2>2
<1>7. SameData(s, m2) /\ HasJoined(Q, Joined(Q, t, k, p), t, k, p) /\ Slot(s, t, Q[t], p, k)
  BY <1>6 DEF Inserted
<1>8. Slot(m2, t, Q[t], p, k)
  <2>1. Q[t] \in Seq(PCB) /\ Len(Q[t]) \in Nat /\ \A i \in 1..Len(Q[t]) : Q[t][i] \in PCB
    BY <1>1, QueueFacts DEF Queues, queue_tag, READY_QUEUE_TAG
  <2>2. \A x \in PCB : process_priority(m2, x) = process_priority(s, x)
    BY <1>7 DEF SameData, process_priority
  <2>3. (\A i \in 1..(k - 1) : Q[t][i] \in PCB) /\ (\A i \in k..Len(Q[t]) : Q[t][i] \in PCB)
    BY <2>1
  <2> QED
    BY <1>7, <2>2, <2>3 DEF Slot
<1>9. \A x \in PCB : x # p => SameProcess(mm, m2, x)
  BY <1>3, <1>7 DEF SameData, SameProcess
<1> QED
  BY <1>3, <1>6, <1>7, <1>8, <1>9 DEF SameData, SetupOutcome

\* The head of the ready queue is taken out of it to be dispatched.
LEMMA DispatchSound ==
  ASSUME NEW mm, NEW Q, NEW lv, NEW K, Sound(mm, Q, lv, K),
         NEW d, d = mm.queue[READY_QUEUE_TAG].queue_head, d # NULL,
         NEW m2, m2 = pcb_remove(mm, d)
  PROVE  /\ d \in lv /\ In(d, Q[READY_QUEUE_TAG])
         /\ 1 \in 1..Len(Q[READY_QUEUE_TAG]) /\ d = Q[READY_QUEUE_TAG][1]
         /\ Sound(m2, Left(Q, READY_QUEUE_TAG, 1), lv, K)
         /\ HasLeft(Q, Left(Q, READY_QUEUE_TAG, 1), READY_QUEUE_TAG, 1)
         /\ Unqueued(d, Left(Q, READY_QUEUE_TAG, 1))
         /\ SameData(mm, m2)
         /\ queue_sel(m2, d) = READY_QUEUE_TAG /\ Own(d, m2.pcb[d].context, K)
PROOF
<1> PICK t : t = READY_QUEUE_TAG
  OBVIOUS
<1>1. t \in queue_tag
  BY DEF queue_tag, READY_QUEUE_TAG
<1>2. mm \in Memory /\ lv \in SUBSET PCB /\ Queues(mm, Q) /\ Waiting(mm, Q, lv, K) /\ OrderedBut(mm, Q, d)
  BY SoundOrderedBut
<1>3. 1 \in 1..Len(Q[t]) /\ d = Q[t][1]
  BY <1>1, <1>2, HeadOf
<1>4. In(d, Q[t])
  BY <1>3 DEF In
<1>5. d \in lv /\ queue_sel(mm, d) = t /\ Own(d, mm.pcb[d].context, K)
  BY <1>1, <1>2, <1>4 DEF Waiting
<1>6. /\ Removed(mm, pcb_remove(mm, Q[t][1]), Q, Left(Q, t, 1), t, 1)
      /\ Sound(pcb_remove(mm, Q[t][1]), Left(Q, t, 1), lv, K)
  BY <1>1, <1>2, <1>3, SoundRemove
<1>7. Removed(mm, m2, Q, Left(Q, t, 1), t, 1) /\ Sound(m2, Left(Q, t, 1), lv, K)
  BY <1>3, <1>6
<1>8. HasLeft(Q, Left(Q, t, 1), t, 1) /\ Unqueued(d, Left(Q, t, 1)) /\ SameData(mm, m2)
  BY <1>3, <1>7 DEF Removed
<1>9. queue_sel(m2, d) = t /\ Own(d, m2.pcb[d].context, K)
  BY <1>2, <1>5, <1>8 DEF SameData, queue_sel
<1> QED
  BY <1>3, <1>4, <1>5, <1>7, <1>8, <1>9

SetContext(mm, p, v) == [mm EXCEPT !.pcb[p].context = v]
SetPriority(mm, p, v) == [mm EXCEPT !.pcb[p].process_priority = v]

\* s is mm with other values in the fields of p, the links apart.
Changed(mm, s, p) ==
  /\ s \in Memory /\ s.queue = mm.queue
  /\ \A x \in PCB : x # p => s.pcb[x] = mm.pcb[x]
  /\ s.pcb[p].next_pcbPtr = mm.pcb[p].next_pcbPtr
  /\ s.pcb[p].prev_pcbPtr = mm.pcb[p].prev_pcbPtr

\* The assignments to one field: exe_state, ...
LEMMA ExeChanged ==
  ASSUME NEW mm \in Memory, NEW p \in PCB, NEW v \in {READY, BLOCKED}, NEW s, s = SetExe(mm, p, v)
  PROVE  /\ Changed(mm, s, p)
         /\ s.pcb[p].exe_state = v
         /\ s.pcb[p].process_class = mm.pcb[p].process_class
         /\ s.pcb[p].process_priority = mm.pcb[p].process_priority
         /\ s.pcb[p].disp_state = mm.pcb[p].disp_state
         /\ s.pcb[p].context = mm.pcb[p].context
PROOF
<1> DEFINE f == [mm.pcb[p] EXCEPT !.exe_state = v]
           g == [mm.pcb EXCEPT ![p] = f]
<1>1. mm.pcb \in [PCB -> PcbType] /\ mm.pcb[p] \in PcbType
  BY DEF Memory
<1>2. /\ f \in PcbType /\ f.exe_state = v
      /\ f.next_pcbPtr = mm.pcb[p].next_pcbPtr /\ f.prev_pcbPtr = mm.pcb[p].prev_pcbPtr
      /\ f.process_class = mm.pcb[p].process_class /\ f.process_priority = mm.pcb[p].process_priority
      /\ f.disp_state = mm.pcb[p].disp_state /\ f.context = mm.pcb[p].context
  BY <1>1 DEF PcbType
<1>3. s = [mm EXCEPT !.pcb = g]
  BY DEF SetExe
<1> HIDE DEF f
<1>4. g \in [PCB -> PcbType] /\ \A x \in PCB : g[x] = IF x = p THEN f ELSE mm.pcb[x]
  BY <1>1, <1>2
<1> HIDE DEF g
<1>5. s \in Memory /\ s.pcb = g /\ s.queue = mm.queue
  BY <1>3, <1>4 DEF Memory
<1> QED
  BY <1>2, <1>4, <1>5 DEF Changed

\* ... disp_state, ...
LEMMA DispChanged ==
  ASSUME NEW mm \in Memory, NEW p \in PCB, NEW v \in {SUSPENDED, NOT_SUSPENDED}, NEW s, s = SetDisp(mm, p, v)
  PROVE  /\ Changed(mm, s, p)
         /\ s.pcb[p].disp_state = v
         /\ s.pcb[p].process_class = mm.pcb[p].process_class
         /\ s.pcb[p].process_priority = mm.pcb[p].process_priority
         /\ s.pcb[p].exe_state = mm.pcb[p].exe_state
         /\ s.pcb[p].context = mm.pcb[p].context
PROOF
<1> DEFINE f == [mm.pcb[p] EXCEPT !.disp_state = v]
           g == [mm.pcb EXCEPT ![p] = f]
<1>1. mm.pcb \in [PCB -> PcbType] /\ mm.pcb[p] \in PcbType
  BY DEF Memory
<1>2. /\ f \in PcbType /\ f.disp_state = v
      /\ f.next_pcbPtr = mm.pcb[p].next_pcbPtr /\ f.prev_pcbPtr = mm.pcb[p].prev_pcbPtr
      /\ f.process_class = mm.pcb[p].process_class /\ f.process_priority = mm.pcb[p].process_priority
      /\ f.exe_state = mm.pcb[p].exe_state /\ f.context = mm.pcb[p].context
  BY <1>1 DEF PcbType
<1>3. s = [mm EXCEPT !.pcb = g]
  BY DEF SetDisp
<1> HIDE DEF f
<1>4. g \in [PCB -> PcbType] /\ \A x \in PCB : g[x] = IF x = p THEN f ELSE mm.pcb[x]
  BY <1>1, <1>2
<1> HIDE DEF g
<1>5. s \in Memory /\ s.pcb = g /\ s.queue = mm.queue
  BY <1>3, <1>4 DEF Memory
<1> QED
  BY <1>2, <1>4, <1>5 DEF Changed

\* ... the context sys_call saves, ...
LEMMA ContextChanged ==
  ASSUME NEW mm \in Memory, NEW p \in PCB, NEW v \in ContextType, NEW s, s = SetContext(mm, p, v)
  PROVE  /\ Changed(mm, s, p)
         /\ s.pcb[p].context = v
         /\ s.pcb[p].process_class = mm.pcb[p].process_class
         /\ s.pcb[p].process_priority = mm.pcb[p].process_priority
         /\ s.pcb[p].exe_state = mm.pcb[p].exe_state
         /\ s.pcb[p].disp_state = mm.pcb[p].disp_state
PROOF
<1> DEFINE f == [mm.pcb[p] EXCEPT !.context = v]
           g == [mm.pcb EXCEPT ![p] = f]
<1>1. mm.pcb \in [PCB -> PcbType] /\ mm.pcb[p] \in PcbType
  BY DEF Memory
<1>2. /\ f \in PcbType /\ f.context = v
      /\ f.next_pcbPtr = mm.pcb[p].next_pcbPtr /\ f.prev_pcbPtr = mm.pcb[p].prev_pcbPtr
      /\ f.process_class = mm.pcb[p].process_class /\ f.process_priority = mm.pcb[p].process_priority
      /\ f.exe_state = mm.pcb[p].exe_state /\ f.disp_state = mm.pcb[p].disp_state
  BY <1>1 DEF PcbType
<1>3. s = [mm EXCEPT !.pcb = g]
  BY DEF SetContext
<1> HIDE DEF f
<1>4. g \in [PCB -> PcbType] /\ \A x \in PCB : g[x] = IF x = p THEN f ELSE mm.pcb[x]
  BY <1>1, <1>2
<1> HIDE DEF g
<1>5. s \in Memory /\ s.pcb = g /\ s.queue = mm.queue
  BY <1>3, <1>4 DEF Memory
<1> QED
  BY <1>2, <1>4, <1>5 DEF Changed

\* ... and the priority.
LEMMA PriorityChanged ==
  ASSUME NEW mm \in Memory, NEW p \in PCB, NEW v \in 0..9, NEW s, s = SetPriority(mm, p, v)
  PROVE  /\ Changed(mm, s, p)
         /\ s.pcb[p].process_priority = v
         /\ s.pcb[p].process_class = mm.pcb[p].process_class
         /\ s.pcb[p].exe_state = mm.pcb[p].exe_state
         /\ s.pcb[p].disp_state = mm.pcb[p].disp_state
         /\ s.pcb[p].context = mm.pcb[p].context
PROOF
<1> DEFINE f == [mm.pcb[p] EXCEPT !.process_priority = v]
           g == [mm.pcb EXCEPT ![p] = f]
<1>1. mm.pcb \in [PCB -> PcbType] /\ mm.pcb[p] \in PcbType
  BY DEF Memory
<1>2. /\ f \in PcbType /\ f.process_priority = v
      /\ f.next_pcbPtr = mm.pcb[p].next_pcbPtr /\ f.prev_pcbPtr = mm.pcb[p].prev_pcbPtr
      /\ f.process_class = mm.pcb[p].process_class /\ f.exe_state = mm.pcb[p].exe_state
      /\ f.disp_state = mm.pcb[p].disp_state /\ f.context = mm.pcb[p].context
  BY <1>1 DEF PcbType
<1>3. s = [mm EXCEPT !.pcb = g]
  BY DEF SetPriority
<1> HIDE DEF f
<1>4. g \in [PCB -> PcbType] /\ \A x \in PCB : g[x] = IF x = p THEN f ELSE mm.pcb[x]
  BY <1>1, <1>2
<1> HIDE DEF g
<1>5. s \in Memory /\ s.pcb = g /\ s.queue = mm.queue
  BY <1>3, <1>4 DEF Memory
<1> QED
  BY <1>2, <1>4, <1>5 DEF Changed

\* p has joined queue u of Q, at its slot, in memory m2, which has the data of s.
JoinOutcome(mm, s, m2, Q, lv, K, u, p) ==
  /\ \E j \in 1..(Len(Q[u]) + 1) :
       /\ Sound(m2, Joined(Q, u, j, p), lv, K)
       /\ HasJoined(Q, Joined(Q, u, j, p), u, j, p)
       /\ Slot(m2, u, Q[u], p, j)
  /\ SameData(s, m2)
  /\ \A x \in PCB : x # p => SameProcess(mm, m2, x)

\* A PCB that is in no queue changes, and is queued where it now belongs.
LEMMA JoinSound ==
  ASSUME NEW mm, NEW Q, NEW lv, NEW K, Sound(mm, Q, lv, K), NEW p \in lv, Unqueued(p, Q),
         NEW s, Changed(mm, s, p), Own(p, s.pcb[p].context, K),
         NEW u, u = queue_sel(s, p), NEW m2, m2 = pcb_insert(s, p)
  PROVE  u \in queue_tag /\ JoinOutcome(mm, s, m2, Q, lv, K, u, p)
PROOF
<1>1. mm \in Memory /\ Queues(mm, Q) /\ lv \subseteq PCB /\ p \in PCB
  BY DEF Sound
<1>2. mm.pcb[p].next_pcbPtr = NULL /\ mm.pcb[p].prev_pcbPtr = NULL
  BY <1>1 DEF Queues
<1>3. /\ s \in Memory /\ s.queue = mm.queue
      /\ \A x \in PCB : x # p => s.pcb[x] = mm.pcb[x]
      /\ s.pcb[p].next_pcbPtr = NULL /\ s.pcb[p].prev_pcbPtr = NULL
  BY <1>2 DEF Changed
<1>4. Sound(s, Q, lv, K)
  <2>1. lv \in SUBSET PCB /\ lv \ {p} \subseteq lv
    BY <1>1
  <2> QED
    BY <1>1, <1>3, <2>1, SoundChange
<1>5. u \in queue_tag
  BY <1>1, <1>3, SelTag
<1>6. PICK j \in 1..(Len(Q[u]) + 1) :
        /\ Inserted(s, pcb_insert(s, p), Q, Joined(Q, u, j, p), u, j, p)
        /\ Sound(pcb_insert(s, p), Joined(Q, u, j, p), lv, K)
  BY <1>4, SoundInsert
<1>7. /\ Inserted(s, m2, Q, Joined(Q, u, j, p), u, j, p)
      /\ Sound(m2, Joined(Q, u, j, p), lv, K)
  BY <1>6
<1>8. SameData(s, m2) /\ HasJoined(Q, Joined(Q, u, j, p), u, j, p) /\ Slot(s, u, Q[u], p, j)
  BY <1>7 DEF Inserted
<1>9. Slot(m2, u, Q[u], p, j)
  <2>1. Q[u] \in Seq(PCB) /\ Len(Q[u]) \in Nat /\ \A i \in 1..Len(Q[u]) : Q[u][i] \in PCB
    BY <1>1, <1>5, QueueFacts DEF Queues
  <2>2. \A x \in PCB : process_priority(m2, x) = process_priority(s, x)
    BY <1>8 DEF SameData, process_priority
  <2>3. (\A i \in 1..(j - 1) : Q[u][i] \in PCB) /\ (\A i \in j..Len(Q[u]) : Q[u][i] \in PCB)
    BY <2>1
  <2> QED
    BY <1>1, <1>8, <2>2, <2>3 DEF Slot
<1>10. \A x \in PCB : x # p => SameProcess(mm, m2, x)
  BY <1>3, <1>8 DEF SameData, SameProcess
<1> QED
  BY <1>5, <1>7, <1>8, <1>9, <1>10 DEF JoinOutcome

-----------------------------------------------------------------------------

(***************************************************************************)
(* The steps.                                                              *)
(***************************************************************************)

KmainContext == Context(NULL, "kmain", "halt", 0)

\* The invariant holds after a step that leaves the queues J sound and either
\* kmain or a process in control.
LEMMA InvAfter ==
  ASSUME NEW J, Sound(m', J, live', commands'),
         initial_context' \in ContextType \cup {NULL}, cpu' \in ContextType,
         ~At("kmain", "halt")' => SystemWaits(m', J, live', current_process'),
         \/ KmainControl'
         \/ /\ current_process' \in live' /\ Unqueued(current_process', J)
            /\ queue_sel(m', current_process') = READY_QUEUE_TAG
            /\ Own(current_process', cpu', commands')
            /\ initial_context' = KmainContext
            /\ Idle \in live' /\ m'.pcb[Idle].process_class = SYSTEM
  PROVE  KernelInv' /\ QueuesOf(m') = J
PROOF
<1>1. Queues(m', J) /\ m' \in Memory /\ live' \subseteq PCB
  BY DEF Sound
<1>2. QueuesOf(m') = J
  BY <1>1, QueuesRead
<1>3. KmainControl' \/ ProcessControl'
  BY <1>2 DEF ProcessControl, KmainContext
<1>4. TypeOK'
  BY <1>1 DEF TypeOK, KmainControl
<1> QED
  BY <1>2, <1>3, <1>4 DEF KernelInv

\* What the invariant says while a process runs.
LEMMA InvFacts ==
  ASSUME KernelInv, current_process # NULL
  PROVE  /\ Sound(m, QueuesOf(m), live, commands) /\ TypeOK
         /\ SystemWaits(m, QueuesOf(m), live, current_process)
         /\ ProcessControl /\ cpu.fn # "kmain"
PROOF
<1>1. ProcessControl
  BY DEF KernelInv, KmainControl
<1>2. cpu.fn # "kmain"
  BY <1>1 DEF ProcessControl, Own
<1> QED
  BY <1>1, <1>2 DEF KernelInv, At

\* kmain's context is one, and is not NULL.
LEMMA KmainContextFacts ==
  /\ KmainContext \in ContextType /\ KmainContext # NULL
  /\ KmainContext.stack = NULL /\ KmainContext.fn = "kmain"
  /\ KmainContext.pc = "halt" /\ KmainContext.left = 0
PROOF
<1>1. KmainContext \in ContextType
  BY DEF KmainContext, Context, ContextType, Fn, Pc
<1>2. KmainContext # NULL
  BY <1>1, ContextAssumption
<1> QED
  BY <1>1, <1>2 DEF KmainContext, Context

\* sys_req(IDLE) of a process: it is queued again behind its equals and the
\* head of the ready queue runs; or nothing is ready, and kmain resumes.
YieldOutcome(c) ==
  LET Q == QueuesOf(m)
      rest == RemoveAt(Q[READY_QUEUE_TAG], 1)
  IN  \/ /\ 1 \in 1..Len(Q[READY_QUEUE_TAG])
         /\ current_process' = Q[READY_QUEUE_TAG][1] /\ current_process' # current_process
         /\ cpu' = m.pcb[current_process'].context /\ cpu'.fn # "kmain"
         /\ \E k \in 1..(Len(rest) + 1) :
              /\ QueuesOf(m') = [Q EXCEPT ![READY_QUEUE_TAG] = InsertAt(rest, k, current_process)]
              /\ Slot(m', READY_QUEUE_TAG, rest, current_process, k)
         /\ \A x \in PCB : x # current_process => SameProcess(m, m', x)
         /\ m'.pcb[current_process].process_class = m.pcb[current_process].process_class
         /\ m'.pcb[current_process].process_priority = m.pcb[current_process].process_priority
         /\ m'.pcb[current_process].context = c
      \/ /\ Q[READY_QUEUE_TAG] = << >> /\ current_process = Idle
         /\ m' = m /\ current_process' = NULL /\ cpu' = KmainContext

\* sys_call with IDLE keeps the invariant and has one of the two outcomes above;
\* only the idle process can find the ready queue empty.
LEMMA YieldStep ==
  ASSUME KernelInv, current_process # NULL, NEW c \in ContextType,
         Own(current_process, c, commands), sys_call_IDLE(c), commands' = commands
  PROVE  KernelInv' /\ YieldOutcome(c) /\ live' = live
PROOF
<1> PICK Q, t, p, d, K, lv : /\ Q = QueuesOf(m) /\ t = READY_QUEUE_TAG /\ p = current_process
                             /\ d = m.queue[t].queue_head /\ K = commands /\ lv = live
  OBVIOUS
<1>1. /\ Sound(m, Q, lv, K) /\ TypeOK /\ SystemWaits(m, Q, lv, p)
      /\ p \in lv /\ Unqueued(p, Q) /\ queue_sel(m, p) = t
      /\ initial_context = KmainContext
      /\ Idle \in lv /\ m.pcb[Idle].process_class = SYSTEM
  BY InvFacts DEF ProcessControl, KmainContext
<1>2. m \in Memory /\ lv \subseteq PCB /\ Queues(m, Q) /\ p \in PCB /\ t \in queue_tag
  BY <1>1 DEF Sound, queue_tag, READY_QUEUE_TAG
<1>3. live' = lv /\ commands' = K
  BY DEF sys_call_IDLE
<1>4. CASE d = NULL
  <2>1. /\ m' = m /\ cpu' = KmainContext /\ initial_context' = NULL /\ current_process' = NULL
    BY <1>1, <1>4, KmainContextFacts DEF sys_call_IDLE, ReturnToInitial
  <2>2. Q[t] = << >> /\ Len(Q[t]) = 0
    BY <1>2, <1>4, HeadOf
  <2>3. ~In(Idle, Q[t])
    BY <2>2 DEF In
  <2>4. p = Idle
    BY <1>1, <2>3 DEF SystemWaits
  <2>5. KmainControl'
    BY <2>1, KmainContextFacts DEF KmainControl
  <2>6. At("kmain", "halt")'
    BY <2>1, KmainContextFacts DEF At
  <2>7. Sound(m', Q, live', commands')
    BY <1>1, <1>3, <2>1
  <2>8. KernelInv'
    BY <2>1, <2>5, <2>6, <2>7, InvAfter, KmainContextFacts
  <2> QED
    BY <1>3, <2>1, <2>2, <2>4, <2>8 DEF YieldOutcome
<1>5. CASE d # NULL
  <2> PICK r, s, L : /\ r = pcb_remove(m, d) /\ s = SetContext(r, p, c)
                     /\ L = Left(Q, t, 1)
    OBVIOUS
  <2>1. /\ m' = pcb_insert(s, p) /\ current_process' = d /\ cpu' = m'.pcb[d].context
        /\ initial_context' = KmainContext
    BY <1>1, <1>5, KmainContextFacts DEF sys_call_IDLE, Switch, SetContext
  <2>2. /\ d \in lv /\ In(d, Q[t]) /\ 1 \in 1..Len(Q[t]) /\ d = Q[t][1]
        /\ Sound(r, L, lv, K) /\ HasLeft(Q, L, t, 1) /\ Unqueued(d, L) /\ SameData(m, r)
        /\ queue_sel(r, d) = t /\ Own(d, r.pcb[d].context, K)
    BY <1>1, <1>5, DispatchSound
  <2>3. d # p /\ d \in PCB
    BY <1>1, <1>2, <2>2 DEF Unqueued
  <2>4. Unqueued(p, L)
    BY <1>1, <2>2 DEF Unqueued, HasLeft
  <2>5. r \in Memory
    BY <2>2 DEF Sound
  <2>6. /\ Changed(r, s, p) /\ s.pcb[p].context = c
        /\ s.pcb[p].process_class = r.pcb[p].process_class
        /\ s.pcb[p].process_priority = r.pcb[p].process_priority
        /\ s.pcb[p].exe_state = r.pcb[p].exe_state
        /\ s.pcb[p].disp_state = r.pcb[p].disp_state
    BY <1>2, <2>5, ContextChanged
  <2>7. queue_sel(s, p) = t
    BY <1>1, <1>2, <2>2, <2>6 DEF queue_sel, SameData
  <2>8. /\ \E j \in 1..(Len(L[t]) + 1) :
             /\ Sound(m', Joined(L, t, j, p), lv, K)
             /\ HasJoined(L, Joined(L, t, j, p), t, j, p)
             /\ Slot(m', t, L[t], p, j)
        /\ SameData(s, m')
        /\ \A x \in PCB : x # p => SameProcess(r, m', x)
    <3>1. Own(p, s.pcb[p].context, K) /\ t = queue_sel(s, p)
      BY <2>6, <2>7
    <3>2. JoinOutcome(r, s, m', L, lv, K, t, p)
      BY <1>1, <2>1, <2>2, <2>4, <2>6, <3>1, JoinSound
    <3> QED
      BY <3>2 DEF JoinOutcome
  <2>9. PICK k \in 1..(Len(L[t]) + 1) :
          /\ Sound(m', Joined(L, t, k, p), lv, K)
          /\ HasJoined(L, Joined(L, t, k, p), t, k, p)
          /\ Slot(m', t, L[t], p, k)
    BY <2>8
  <2> PICK J : J = Joined(L, t, k, p)
    OBVIOUS
  <2>10. Sound(m', J, lv, K) /\ HasJoined(L, J, t, k, p) /\ Slot(m', t, L[t], p, k)
    BY <2>9
  <2>11. /\ \A x \in PCB : x # p => SameProcess(m, m', x)
         /\ m'.pcb[p].process_class = m.pcb[p].process_class
         /\ m'.pcb[p].process_priority = m.pcb[p].process_priority
         /\ m'.pcb[p].context = c
    <3>1. ASSUME NEW x \in PCB, x # p PROVE SameProcess(m, m', x)
      <4>1. SameProcess(r, m', x)
        BY <2>8, <3>1
      <4>2. SameData(m, r)
        BY <2>2
      <4>3. SameProcess(m, r, x)
        BY ONLY <4>2, x \in PCB DEF SameData, SameProcess
      <4> QED
        BY ONLY <4>1, <4>3 DEF SameProcess
    <3>2. /\ m'.pcb[p].process_class = s.pcb[p].process_class
          /\ m'.pcb[p].process_priority = s.pcb[p].process_priority
          /\ m'.pcb[p].context = s.pcb[p].context
      BY <1>2, <2>8 DEF SameData
    <3>3. /\ r.pcb[p].process_class = m.pcb[p].process_class
          /\ r.pcb[p].process_priority = m.pcb[p].process_priority
      BY <1>2, <2>2 DEF SameData
    <3> QED
      BY <2>6, <3>1, <3>2, <3>3
  <2>12. Unqueued(d, J)
    <3> SUFFICES ASSUME NEW u \in queue_tag PROVE ~In(d, J[u])
      BY DEF Unqueued
    <3>1. In(d, J[u]) => In(d, L[u]) \/ d = p
      BY <2>10 DEF HasJoined
    <3> QED
      BY <2>2, <2>3, <3>1 DEF Unqueued
  <2>13. queue_sel(m', d) = t /\ Own(d, m'.pcb[d].context, K) /\ m'.pcb[d].context = m.pcb[d].context
    <3>1. /\ m'.pcb[d].exe_state = s.pcb[d].exe_state
          /\ m'.pcb[d].disp_state = s.pcb[d].disp_state
          /\ m'.pcb[d].context = s.pcb[d].context
      BY <2>3, <2>8 DEF SameData
    <3>2. s.pcb[d] = r.pcb[d]
      BY <2>3, <2>6 DEF Changed
    <3>3. r.pcb[d].context = m.pcb[d].context
      BY <2>2, <2>3 DEF SameData
    <3> QED
      BY <2>2, <3>1, <3>2, <3>3 DEF queue_sel
  <2>14. SystemWaits(m', J, lv, d)
    <3> SUFFICES ASSUME NEW x \in lv, m'.pcb[x].process_class = SYSTEM, x # d
                 PROVE  In(x, J[t])
      BY DEF SystemWaits
    <3>1. m.pcb[x].process_class = SYSTEM
      BY <1>2, <2>11 DEF SameProcess
    <3>2. x = p \/ In(x, Q[t])
      BY <1>1, <3>1 DEF SystemWaits
    <3> QED
      BY <1>2, <2>2, <2>10, <3>2 DEF HasLeft, HasJoined
  <2>15. m'.pcb[Idle].process_class = SYSTEM
    BY <1>1, <1>2, <2>11 DEF SameProcess
  <2>16. cpu' \in ContextType /\ initial_context' \in ContextType \cup {NULL}
    <3>1. m' \in Memory
      BY <2>10 DEF Sound
    <3> QED
      BY <2>1, <2>3, <3>1, KmainContextFacts DEF Memory, PcbType
  <2>17. Sound(m', J, live', commands') /\ SystemWaits(m', J, live', current_process')
    BY <1>3, <2>1, <2>10, <2>14
  <2>18. /\ current_process' \in live' /\ Unqueued(current_process', J)
         /\ queue_sel(m', current_process') = READY_QUEUE_TAG
         /\ Own(current_process', cpu', commands')
         /\ initial_context' = KmainContext
         /\ Idle \in live' /\ m'.pcb[Idle].process_class = SYSTEM
    BY <1>1, <1>3, <2>1, <2>2, <2>12, <2>13, <2>15
  <2>19. KernelInv' /\ QueuesOf(m') = J
    BY <2>16, <2>17, <2>18, InvAfter
  <2>20. L[t] = RemoveAt(Q[t], 1) /\ J = [Q EXCEPT ![t] = InsertAt(L[t], k, p)]
    <3>1. L[t] = RemoveAt(Q[t], 1)
      BY <1>2, <2>2 DEF HasLeft
    <3>2. \A u \in queue_tag : J[u] = IF u = t THEN InsertAt(L[t], k, p) ELSE Q[u]
      BY <2>2, <2>10 DEF HasLeft, HasJoined
    <3>3. J \in [queue_tag -> Seq(PCB)] /\ Q \in [queue_tag -> Seq(PCB)]
      BY <1>2, <2>10 DEF HasJoined, Queues
    <3> QED
      BY <3>1, <3>2, <3>3
  <2>21. cpu'.fn # "kmain"
    BY <2>1, <2>13 DEF Own
  <2> QED
    <3>1. \E j \in 1..(Len(RemoveAt(Q[t], 1)) + 1) :
              /\ QueuesOf(m') = [Q EXCEPT ![t] = InsertAt(RemoveAt(Q[t], 1), j, p)]
              /\ Slot(m', t, RemoveAt(Q[t], 1), p, j)
      BY <2>10, <2>19, <2>20
    <3>2. current_process' = Q[t][1] /\ current_process' # p /\ cpu' = m.pcb[current_process'].context
      BY <2>1, <2>2, <2>3, <2>13
    <3>3. YieldOutcome(c)
      BY <2>2, <2>11, <2>21, <3>1, <3>2 DEF YieldOutcome
    <3> QED
      BY <1>3, <2>19, <3>3
<1> QED
  BY <1>4, <1>5

\* The head of the ready queue runs, in place of kmain or of a process that
\* is gone.
DispatchOutcome ==
  LET Q == QueuesOf(m) IN
  /\ 1 \in 1..Len(Q[READY_QUEUE_TAG])
  /\ current_process' = Q[READY_QUEUE_TAG][1] /\ current_process' # current_process
  /\ cpu' = m.pcb[current_process'].context /\ cpu'.fn # "kmain"
  /\ QueuesOf(m') = [Q EXCEPT ![READY_QUEUE_TAG] = RemoveAt(Q[READY_QUEUE_TAG], 1)]
  /\ \A x \in live' : SameProcess(m, m', x)

\* What both have in common: the dispatch, from a memory mm with the same
\* queues in which cur is not waiting, and the idle process is.
LEMMA DispatchStep ==
  ASSUME NEW mm, NEW Q, NEW lv, NEW K, NEW cur, Q = QueuesOf(m), Sound(mm, Q, lv, K),
         SystemWaits(mm, Q, lv, cur), cur \notin lv, cur = current_process,
         \A x \in lv : SameProcess(m, mm, x),
         Idle \in lv, mm.pcb[Idle].process_class = SYSTEM,
         mm.queue[READY_QUEUE_TAG].queue_head # NULL =>
           /\ Switch(mm.queue[READY_QUEUE_TAG].queue_head,
                     pcb_remove(mm, mm.queue[READY_QUEUE_TAG].queue_head))
           /\ initial_context' = KmainContext,
         live' = lv, commands' = K
  PROVE  KernelInv' /\ DispatchOutcome
PROOF
<1> PICK t, d, r, L : /\ t = READY_QUEUE_TAG /\ d = mm.queue[t].queue_head
                      /\ r = pcb_remove(mm, d) /\ L = Left(Q, t, 1)
  OBVIOUS
<1>1. mm \in Memory /\ lv \subseteq PCB /\ Queues(mm, Q) /\ t \in queue_tag
  BY DEF Sound, queue_tag, READY_QUEUE_TAG
<1>2. d # NULL
  <2>1. Idle # cur
    OBVIOUS
  <2>2. In(Idle, Q[t])
    BY <2>1 DEF SystemWaits
  <2>3. Len(Q[t]) # 0
    BY <2>2 DEF In
  <2> QED
    BY <1>1, <2>3, HeadOf
<1>3. m' = r /\ current_process' = d /\ cpu' = r.pcb[d].context /\ initial_context' = KmainContext
  BY <1>2 DEF Switch
<1>4. /\ d \in lv /\ In(d, Q[t]) /\ 1 \in 1..Len(Q[t]) /\ d = Q[t][1]
      /\ Sound(r, L, lv, K) /\ HasLeft(Q, L, t, 1) /\ Unqueued(d, L) /\ SameData(mm, r)
      /\ queue_sel(r, d) = t /\ Own(d, r.pcb[d].context, K)
  BY <1>2, DispatchSound
<1>5. r \in Memory
  BY <1>4 DEF Sound
<1>6. SystemWaits(r, L, lv, d)
  <2> SUFFICES ASSUME NEW x \in lv, r.pcb[x].process_class = SYSTEM, x # d PROVE In(x, L[t])
    BY DEF SystemWaits
  <2>1. mm.pcb[x].process_class = SYSTEM /\ x # cur
    BY <1>1, <1>4 DEF SameData
  <2>2. In(x, Q[t])
    BY <2>1 DEF SystemWaits
  <2> QED
    BY <1>1, <1>4, <2>2 DEF HasLeft
<1>7. \A x \in lv : SameProcess(m, r, x)
  BY <1>1, <1>4 DEF SameData, SameProcess
<1>8. cpu' \in ContextType /\ initial_context' \in ContextType \cup {NULL} /\ cpu' = m.pcb[d].context
  <2>1. d \in PCB
    BY <1>1, <1>4
  <2>2. r.pcb[d].context \in ContextType
    BY <1>5, <2>1 DEF Memory, PcbType
  <2> QED
    BY <1>3, <1>4, <1>7, <2>2, KmainContextFacts DEF SameProcess
<1>9. Sound(m', L, live', commands') /\ SystemWaits(m', L, live', current_process')
  BY <1>3, <1>4, <1>6
<1>10. r.pcb[Idle].process_class = SYSTEM
  BY <1>1, <1>4 DEF SameData
<1>11. /\ current_process' \in live' /\ Unqueued(current_process', L)
       /\ queue_sel(m', current_process') = READY_QUEUE_TAG
       /\ Own(current_process', cpu', commands')
       /\ initial_context' = KmainContext
       /\ Idle \in live' /\ m'.pcb[Idle].process_class = SYSTEM
  BY <1>3, <1>4, <1>10
<1>12. KernelInv' /\ QueuesOf(m') = L
  BY <1>8, <1>9, <1>11, InvAfter
<1>13. L = [Q EXCEPT ![t] = RemoveAt(Q[t], 1)]
  BY <1>4 DEF Left
<1>14. cpu'.fn # "kmain"
  BY <1>11 DEF Own
<1>15. \A x \in live' : SameProcess(m, m', x)
  BY <1>3, <1>7
<1> QED
  BY <1>3, <1>4, <1>8, <1>12, <1>13, <1>14, <1>15 DEF DispatchOutcome

\* Freed memory.
LEMMA GarbageFacts ==
  ASSUME NEW p \in PCB
  PROVE  /\ ZeroContext(p) \in ContextType /\ Garbage(p) \in PcbType
         /\ Garbage(p).next_pcbPtr = NULL /\ Garbage(p).prev_pcbPtr = NULL
PROOF
<1>1. ZeroContext(p) \in ContextType
  BY DEF ZeroContext, Context, ContextType, Fn, Pc
<1>2. 9 \in 0..9
  OBVIOUS
<1>3. "none" \in ProcessName
  BY DEF ProcessName
<1> QED
  BY <1>1, <1>2, <1>3 DEF Garbage, PcbType

\* sys_req(EXIT) of a process other than the idle process: its PCB goes back
\* to the heap and another runs.
LEMMA ExitStep ==
  ASSUME KernelInv, current_process # NULL, current_process # Idle,
         sys_call_EXIT, commands' = commands
  PROVE  KernelInv' /\ DispatchOutcome /\ live' = live \ {current_process}
PROOF
<1> PICK Q, p, mm, K, lv : /\ Q = QueuesOf(m) /\ p = current_process
                           /\ mm = pcb_free(m, p) /\ K = commands /\ lv = live \ {p}
  OBVIOUS
<1>1. /\ Sound(m, Q, live, K) /\ SystemWaits(m, Q, live, p)
      /\ p \in live /\ Unqueued(p, Q) /\ initial_context = KmainContext
      /\ Idle \in live /\ m.pcb[Idle].process_class = SYSTEM
  BY InvFacts DEF ProcessControl, KmainContext
<1>2. m \in Memory /\ live \subseteq PCB /\ p \in PCB
  BY <1>1 DEF Sound
<1>3. /\ mm \in Memory /\ mm.queue = m.queue
      /\ \A x \in PCB : x # p => mm.pcb[x] = m.pcb[x]
      /\ mm.pcb[p].next_pcbPtr = NULL /\ mm.pcb[p].prev_pcbPtr = NULL
  <2> DEFINE g == [m.pcb EXCEPT ![p] = Garbage(p)]
  <2>1. /\ Garbage(p) \in PcbType
        /\ Garbage(p).next_pcbPtr = NULL /\ Garbage(p).prev_pcbPtr = NULL
    BY <1>2, GarbageFacts
  <2>2. mm = [m EXCEPT !.pcb = g]
    BY DEF pcb_free
  <2>3. g \in [PCB -> PcbType] /\ \A x \in PCB : g[x] = IF x = p THEN Garbage(p) ELSE m.pcb[x]
    BY <1>2, <2>1 DEF Memory
  <2> HIDE DEF g
  <2>4. mm \in Memory /\ mm.queue = m.queue /\ mm.pcb = g
    BY <1>2, <2>2, <2>3 DEF Memory
  <2> QED
    BY <1>2, <2>1, <2>3, <2>4
<1>4. Sound(mm, Q, lv, K)
  <2>1. lv \in SUBSET PCB /\ live \ {p} \subseteq lv
    BY <1>2
  <2> QED
    BY <1>1, <1>2, <1>3, <2>1, SoundChange
<1>5. /\ SystemWaits(mm, Q, lv, p) /\ p \notin lv
      /\ \A x \in lv : SameProcess(m, mm, x)
      /\ Idle \in lv /\ mm.pcb[Idle].process_class = SYSTEM
  <2>1. \A x \in lv : x \in PCB /\ x # p /\ mm.pcb[x] = m.pcb[x]
    BY <1>2, <1>3
  <2> QED
    BY <1>1, <2>1 DEF SystemWaits, SameProcess
<1>6. /\ live' = lv
      /\ mm.queue[READY_QUEUE_TAG].queue_head # NULL =>
           /\ Switch(mm.queue[READY_QUEUE_TAG].queue_head,
                     pcb_remove(mm, mm.queue[READY_QUEUE_TAG].queue_head))
           /\ initial_context' = KmainContext
  BY <1>1 DEF sys_call_EXIT
<1>7. KernelInv' /\ DispatchOutcome
  BY <1>4, <1>5, <1>6, DispatchStep
<1> QED
  BY <1>6, <1>7

\* kmain's one IDLE request.
LEMMA StartStep ==
  ASSUME KernelInv, kmain_idle, commands' = commands
  PROVE  KernelInv' /\ DispatchOutcome /\ live' = live
PROOF
<1> PICK Q, mm, K, lv : Q = QueuesOf(m) /\ mm = m /\ K = commands /\ lv = live
  OBVIOUS
<1>1. At("kmain", "idle")
  BY DEF kmain_idle
<1>2. KmainControl
  BY <1>1 DEF KernelInv, ProcessControl, Own, At
<1>3. ~At("kmain", "halt")
  BY <1>1 DEF At
<1>4. /\ Sound(mm, Q, lv, K) /\ SystemWaits(mm, Q, lv, NULL) /\ cpu \in ContextType
      /\ current_process = NULL /\ initial_context = NULL
      /\ Idle \in lv /\ mm.pcb[Idle].process_class = SYSTEM
  BY <1>1, <1>2, <1>3 DEF KernelInv, KmainControl, At, TypeOK
<1>5. NULL \notin lv /\ \A x \in lv : SameProcess(m, mm, x)
  BY <1>4, KernelAssumption DEF Sound, SameProcess
<1>6. [cpu EXCEPT !.pc = "halt"] = KmainContext
  <2>1. cpu = [stack |-> cpu.stack, fn |-> cpu.fn, pc |-> cpu.pc, left |-> cpu.left]
    BY <1>4 DEF ContextType
  <2>2. cpu.stack = NULL /\ cpu.fn = "kmain" /\ cpu.left = 0
    BY <1>2 DEF KmainControl
  <2>3. cpu = [stack |-> NULL, fn |-> "kmain", pc |-> cpu.pc, left |-> 0]
    BY <2>1, <2>2
  <2> QED
    BY <2>3 DEF KmainContext, Context
<1>7. /\ live' = lv
      /\ mm.queue[READY_QUEUE_TAG].queue_head # NULL =>
           /\ Switch(mm.queue[READY_QUEUE_TAG].queue_head,
                     pcb_remove(mm, mm.queue[READY_QUEUE_TAG].queue_head))
           /\ initial_context' = KmainContext
  BY <1>4, <1>6 DEF kmain_idle, sys_call_IDLE
<1>8. KernelInv' /\ DispatchOutcome
  BY <1>4, <1>5, <1>7, DispatchStep
<1> QED
  BY <1>7, <1>8

\* A new PCB p waits in the ready queue.
CreateOutcome(p, class, prio) ==
  LET Q == QueuesOf(m) IN
  /\ p \notin live /\ live' = live \cup {p}
  /\ \E k \in 1..(Len(Q[READY_QUEUE_TAG]) + 1) :
       /\ QueuesOf(m') = [Q EXCEPT ![READY_QUEUE_TAG] = InsertAt(Q[READY_QUEUE_TAG], k, p)]
       /\ Slot(m', READY_QUEUE_TAG, Q[READY_QUEUE_TAG], p, k)
  /\ \A x \in PCB : x # p => SameProcess(m, m', x)
  /\ m'.pcb[p].process_class = class /\ m'.pcb[p].process_priority = prio

\* create_process keeps the invariant as soon as control is where it should be
\* afterwards: the new PCB is in the ready queue with a context of its own.
LEMMA CreateStep ==
  ASSUME KernelInv, ~At("kmain", "halt"), NEW p \in PCB, NEW name \in ProcessName,
         NEW class \in {SYSTEM, USER}, NEW prio \in 0..9,
         NEW c \in ContextType, Own(p, c, commands),
         Create(p, name, class, prio, c), cpu' \in ContextType,
         UNCHANGED <<current_process, initial_context, commands>>
  PROVE  /\ CreateOutcome(p, class, prio)
         /\ KmainControl' \/ (current_process # NULL /\ Own(current_process, cpu', commands))
              => KernelInv'
PROOF
<1> PICK Q, t, K, lv : /\ Q = QueuesOf(m) /\ t = READY_QUEUE_TAG /\ K = commands
                       /\ lv = live \cup {p}
  OBVIOUS
<1>1. /\ p \notin live /\ live' = lv /\ commands' = K
      /\ m' = pcb_insert(pcb_setup(m, p, name, class, prio, c), p)
  BY DEF Create
<1>2. Sound(m, Q, live, K) /\ SystemWaits(m, Q, live, current_process) /\ TypeOK
  BY DEF KernelInv
<1>3. Queues(m, Q) /\ live \subseteq PCB /\ t \in queue_tag /\ Q \in [queue_tag -> Seq(PCB)]
  BY <1>2 DEF Sound, Queues, queue_tag, READY_QUEUE_TAG
<1>4. /\ \E k \in 1..(Len(Q[t]) + 1) :
           /\ Sound(m', Joined(Q, t, k, p), lv, K)
           /\ HasJoined(Q, Joined(Q, t, k, p), t, k, p)
           /\ Slot(m', t, Q[t], p, k)
      /\ \A x \in PCB : x # p => SameProcess(m, m', x)
      /\ m'.pcb[p].process_class = class /\ m'.pcb[p].process_priority = prio
  <2>1. SetupOutcome(m, m', Q, live, K, p, class, prio)
    BY <1>1, <1>2, SetupSound
  <2> QED
    BY <2>1 DEF SetupOutcome
<1>5. PICK k \in 1..(Len(Q[t]) + 1) :
        /\ Sound(m', Joined(Q, t, k, p), lv, K)
        /\ HasJoined(Q, Joined(Q, t, k, p), t, k, p)
        /\ Slot(m', t, Q[t], p, k)
  BY <1>4
<1> PICK J : J = Joined(Q, t, k, p)
  OBVIOUS
<1>6. Sound(m', J, live', commands') /\ HasJoined(Q, J, t, k, p)
  BY <1>1, <1>5
<1>7. QueuesOf(m') = J
  BY <1>6, QueuesRead DEF Sound
<1>8. J = [Q EXCEPT ![t] = InsertAt(Q[t], k, p)]
  BY DEF Joined
<1>9. CreateOutcome(p, class, prio)
  BY <1>1, <1>4, <1>5, <1>7, <1>8 DEF CreateOutcome
<1>10. SystemWaits(m', J, live', current_process')
  <2> SUFFICES ASSUME NEW x \in live', m'.pcb[x].process_class = SYSTEM, x # current_process
               PROVE  In(x, J[t])
    BY DEF SystemWaits
  <2>1. CASE x = p
    BY <1>3, <1>6, <2>1 DEF HasJoined
  <2>2. CASE x # p
    <3>1. x \in live /\ x \in PCB
      BY <1>1, <1>3, <2>2
    <3>2. m.pcb[x].process_class = SYSTEM
      BY <1>4, <2>2, <3>1 DEF SameProcess
    <3>3. In(x, Q[t])
      BY <1>2, <3>1, <3>2 DEF SystemWaits
    <3> QED
      BY <1>3, <1>6, <3>3 DEF HasJoined
  <2> QED
    BY <2>1, <2>2
<1>11. initial_context' \in ContextType \cup {NULL}
  BY <1>2 DEF TypeOK
<1>12. ASSUME KmainControl' PROVE KernelInv'
  BY <1>6, <1>10, <1>11, <1>12, InvAfter
<1>13. ASSUME current_process # NULL, Own(current_process, cpu', commands) PROVE KernelInv'
  <2> PICK q : q = current_process
    OBVIOUS
  <2>1. /\ q \in live /\ Unqueued(q, Q) /\ queue_sel(m, q) = t
        /\ initial_context = KmainContext
        /\ Idle \in live /\ m.pcb[Idle].process_class = SYSTEM
    BY <1>13, InvFacts DEF ProcessControl, KmainContext
  <2>2. q # p /\ Idle # p /\ q \in PCB /\ Idle \in PCB
    BY <1>1, <1>3, <2>1
  <2>3. Unqueued(q, J)
    <3> SUFFICES ASSUME NEW u \in queue_tag PROVE ~In(q, J[u])
      BY DEF Unqueued
    <3>1. In(q, J[u]) => In(q, Q[u]) \/ q = p
      BY <1>6 DEF HasJoined
    <3> QED
      BY <2>1, <2>2, <3>1 DEF Unqueued
  <2>4. queue_sel(m', q) = t
    BY <1>4, <2>1, <2>2 DEF SameProcess, queue_sel
  <2>5. m'.pcb[Idle].process_class = SYSTEM
    BY <1>4, <2>1, <2>2 DEF SameProcess
  <2>6. /\ current_process' \in live' /\ Unqueued(current_process', J)
        /\ queue_sel(m', current_process') = READY_QUEUE_TAG
        /\ Own(current_process', cpu', commands')
        /\ initial_context' = KmainContext
        /\ Idle \in live' /\ m'.pcb[Idle].process_class = SYSTEM
    BY <1>1, <1>13, <2>1, <2>3, <2>4, <2>5
  <2> QED
    BY <1>6, <1>10, <1>11, <2>6, InvAfter
<1> QED
  BY <1>9, <1>12, <1>13

\* After a command the command handler is still in control.
LEMMA CommandInv ==
  ASSUME KernelInv, current_process # NULL, NEW J, Sound(m', J, live', commands),
         SystemWaits(m', J, live', current_process), Unqueued(current_process, J),
         {current_process, Idle} \subseteq live',
         SameProcess(m, m', current_process),
         m'.pcb[Idle].process_class = m.pcb[Idle].process_class,
         cpu' \in ContextType, Own(current_process, cpu', commands),
         UNCHANGED <<current_process, initial_context, commands>>
  PROVE  KernelInv' /\ QueuesOf(m') = J
PROOF
<1>1. /\ queue_sel(m, current_process) = READY_QUEUE_TAG /\ initial_context = KmainContext
      /\ m.pcb[Idle].process_class = SYSTEM /\ TypeOK
  BY InvFacts DEF ProcessControl, KmainContext
<1>2. queue_sel(m', current_process) = READY_QUEUE_TAG /\ m'.pcb[Idle].process_class = SYSTEM
  BY <1>1 DEF SameProcess, queue_sel
<1>3. /\ current_process' \in live' /\ Unqueued(current_process', J)
      /\ queue_sel(m', current_process') = READY_QUEUE_TAG
      /\ Own(current_process', cpu', commands')
      /\ initial_context' = KmainContext
      /\ Idle \in live' /\ m'.pcb[Idle].process_class = SYSTEM
  BY <1>1, <1>2
<1>4. initial_context' \in ContextType \cup {NULL}
  BY <1>1, KmainContextFacts
<1>5. Sound(m', J, live', commands') /\ SystemWaits(m', J, live', current_process')
  OBVIOUS
<1> QED
  BY <1>3, <1>4, <1>5, InvAfter

\* The command handler is the only process that takes commands, and it goes
\* on behind the one it has served.
LEMMA CommandFacts ==
  ASSUME KernelInv, cpu.fn = "comhand"
  PROVE  /\ current_process = Comhand /\ current_process # NULL
         /\ cpu \in ContextType /\ Own(current_process, cpu, commands)
         /\ \A pc \in Pc \ {"load"} :
              /\ [cpu EXCEPT !.pc = pc] \in ContextType
              /\ Own(current_process, [cpu EXCEPT !.pc = pc], commands)
              /\ [cpu EXCEPT !.pc = pc].fn = "comhand" /\ [cpu EXCEPT !.pc = pc].pc = pc
PROOF
<1>1. ProcessControl
  BY DEF KernelInv, KmainControl
<1>2. current_process \in live /\ Own(current_process, cpu, commands) /\ live \subseteq PCB
  BY <1>1 DEF ProcessControl, KernelInv, TypeOK
<1>3. current_process = Comhand /\ current_process # NULL
  BY <1>2, KernelAssumption DEF Own
<1>4. cpu \in ContextType
  BY DEF KernelInv, TypeOK
<1>5. ASSUME NEW pc \in Pc \ {"load"}
      PROVE  /\ [cpu EXCEPT !.pc = pc] \in ContextType
             /\ Own(current_process, [cpu EXCEPT !.pc = pc], commands)
             /\ [cpu EXCEPT !.pc = pc].fn = "comhand" /\ [cpu EXCEPT !.pc = pc].pc = pc
  <2>1. /\ [cpu EXCEPT !.pc = pc] \in ContextType
        /\ [cpu EXCEPT !.pc = pc].fn = cpu.fn /\ [cpu EXCEPT !.pc = pc].pc = pc
        /\ [cpu EXCEPT !.pc = pc].stack = cpu.stack /\ [cpu EXCEPT !.pc = pc].left = cpu.left
    BY <1>4 DEF ContextType
  <2> QED
    BY <1>2, <2>1 DEF Own
<1> QED
  BY <1>2, <1>3, <1>4, <1>5

\* A PCB that a command finds is live, waits, and is not running; if its
\* class is SYSTEM it is in the ready queue.
LEMMA FoundFacts ==
  ASSUME KernelInv, current_process # NULL, NEW t \in queue_tag,
         NEW k \in 1..Len(QueuesOf(m)[t]), NEW p, p = QueuesOf(m)[t][k]
  PROVE  /\ p \in live /\ p \in PCB /\ p # current_process
         /\ queue_sel(m, p) = t /\ In(p, QueuesOf(m)[t])
         /\ Own(p, m.pcb[p].context, commands)
         /\ m.pcb[p].process_class \in {SYSTEM, USER}
         /\ t # READY_QUEUE_TAG => m.pcb[p].process_class = USER
PROOF
<1> PICK Q : Q = QueuesOf(m)
  OBVIOUS
<1>1. /\ Sound(m, Q, live, commands) /\ SystemWaits(m, Q, live, current_process)
      /\ Unqueued(current_process, Q)
  BY InvFacts DEF ProcessControl
<1>2. m \in Memory /\ live \subseteq PCB /\ Queues(m, Q) /\ Waiting(m, Q, live, commands)
  BY <1>1 DEF Sound
<1>3. In(p, Q[t])
  BY DEF In
<1>4. p \in live /\ queue_sel(m, p) = t /\ Own(p, m.pcb[p].context, commands)
  BY <1>2, <1>3 DEF Waiting
<1>5. p # current_process
  BY <1>1, <1>3 DEF Unqueued
<1>6. m.pcb[p].process_class \in {SYSTEM, USER}
  BY <1>2, <1>4 DEF Memory, PcbType
<1>7. m.pcb[p].process_class = SYSTEM => t = READY_QUEUE_TAG
  <2> SUFFICES ASSUME m.pcb[p].process_class = SYSTEM PROVE t = READY_QUEUE_TAG
    OBVIOUS
  <2>1. In(p, Q[READY_QUEUE_TAG]) /\ READY_QUEUE_TAG \in queue_tag
    BY <1>1, <1>4, <1>5 DEF SystemWaits, READY_QUEUE_TAG, queue_tag
  <2> QED
    BY <1>2, <1>3, <2>1 DEF Queues
<1> QED
  BY <1>2, <1>3, <1>4, <1>5, <1>6, <1>7

\* A user process moves from one queue to another.
MoveOutcome ==
  LET Q == QueuesOf(m) IN
  /\ \E t, u \in queue_tag : \E k \in 1..Len(Q[t]), j \in 1..(Len(Q[u]) + 1) :
       /\ u # t /\ m.pcb[Q[t][k]].process_class = USER /\ Q[t][k] \in live
       /\ QueuesOf(m') = [Q EXCEPT ![t] = RemoveAt(@, k), ![u] = InsertAt(Q[u], j, Q[t][k])]
       /\ Slot(m', u, Q[u], Q[t][k], j)
  /\ \A x \in PCB : /\ m'.pcb[x].process_class = m.pcb[x].process_class
                   /\ m'.pcb[x].process_priority = m.pcb[x].process_priority
                   /\ m'.pcb[x].context = m.pcb[x].context

\* block_pcb, unblock_pcb, suspend_pcb, resume_pcb: remove, change a state,
\* insert.
LEMMA MoveStep ==
  ASSUME KernelInv, At("comhand", "prompt"), NEW t \in queue_tag,
         NEW k \in 1..Len(QueuesOf(m)[t]), NEW p, p = QueuesOf(m)[t][k],
         m.pcb[p].process_class = USER,
         NEW r, r = pcb_remove(m, p), NEW s, r \in Memory => Changed(r, s, p),
         r \in Memory =>
           /\ s.pcb[p].process_class = r.pcb[p].process_class
           /\ s.pcb[p].process_priority = r.pcb[p].process_priority
           /\ s.pcb[p].context = r.pcb[p].context,
         (r \in Memory /\ SameData(m, r)) => queue_sel(s, p) # t,
         Requeued(pcb_insert(s, p)), commands' = commands
  PROVE  KernelInv' /\ MoveOutcome
PROOF
<1> PICK Q, K, lv, q, L, u : /\ Q = QueuesOf(m) /\ K = commands /\ lv = live
                             /\ q = current_process /\ L = Left(Q, t, k)
                             /\ u = queue_sel(s, p)
  OBVIOUS
<1>1. /\ q # NULL /\ Own(q, cpu', commands) /\ cpu' \in ContextType
      /\ m' = pcb_insert(s, p) /\ live' = lv
      /\ UNCHANGED <<current_process, initial_context, commands>>
  BY CommandFacts DEF At, Requeued, Goto, Pc
<1>2. /\ Sound(m, Q, lv, K) /\ SystemWaits(m, Q, lv, q) /\ q \in lv /\ Unqueued(q, Q)
      /\ Idle \in lv /\ m.pcb[Idle].process_class = SYSTEM
  BY <1>1, InvFacts DEF ProcessControl
<1>3. m \in Memory /\ lv \in SUBSET PCB /\ Queues(m, Q) /\ Waiting(m, Q, lv, K) /\ OrderedBut(m, Q, p)
  BY <1>2, SoundOrderedBut
<1>4. p \in lv /\ p \in PCB /\ p # q /\ In(p, Q[t]) /\ Own(p, m.pcb[p].context, K)
  BY <1>1, FoundFacts
<1>5. Removed(m, r, Q, L, t, k) /\ Sound(r, L, lv, K)
  BY <1>3, SoundRemove
<1>6. r \in Memory /\ SameData(m, r) /\ HasLeft(Q, L, t, k) /\ Unqueued(p, L)
  BY <1>5 DEF Removed
<1>7. /\ Changed(r, s, p) /\ u # t
      /\ s.pcb[p].process_class = r.pcb[p].process_class
      /\ s.pcb[p].process_priority = r.pcb[p].process_priority
      /\ s.pcb[p].context = r.pcb[p].context
  BY <1>6
<1>8. Own(p, s.pcb[p].context, K)
  BY <1>4, <1>6, <1>7 DEF SameData
<1>9. u \in queue_tag /\ JoinOutcome(r, s, m', L, lv, K, u, p)
  BY <1>1, <1>4, <1>5, <1>6, <1>7, <1>8, JoinSound
<1>10. PICK j \in 1..(Len(L[u]) + 1) :
         /\ Sound(m', Joined(L, u, j, p), lv, K)
         /\ HasJoined(L, Joined(L, u, j, p), u, j, p)
         /\ Slot(m', u, L[u], p, j)
  BY <1>9 DEF JoinOutcome
<1> PICK J : J = Joined(L, u, j, p)
  OBVIOUS
<1>11. Sound(m', J, lv, K) /\ HasJoined(L, J, u, j, p) /\ Slot(m', u, L[u], p, j)
  BY <1>10
<1>12. /\ SameData(s, m')
       /\ \A x \in PCB : x # p => SameProcess(r, m', x)
  BY <1>9 DEF JoinOutcome
<1>13. \A x \in PCB : x # p => SameProcess(m, m', x)
  <2> SUFFICES ASSUME NEW x \in PCB, x # p PROVE SameProcess(m, m', x)
    OBVIOUS
  <2>1. SameProcess(r, m', x)
    BY <1>12
  <2>2. SameProcess(m, r, x)
    BY <1>6 DEF SameProcess, SameData
  <2> QED
    BY <2>1, <2>2 DEF SameProcess
<1>14. /\ m'.pcb[p].process_class = m.pcb[p].process_class
       /\ m'.pcb[p].process_priority = m.pcb[p].process_priority
       /\ m'.pcb[p].context = m.pcb[p].context
  <2>1. /\ m'.pcb[p].process_class = s.pcb[p].process_class
        /\ m'.pcb[p].process_priority = s.pcb[p].process_priority
        /\ m'.pcb[p].context = s.pcb[p].context
    BY <1>4, <1>12 DEF SameData
  <2>2. /\ r.pcb[p].process_class = m.pcb[p].process_class
        /\ r.pcb[p].process_priority = m.pcb[p].process_priority
        /\ r.pcb[p].context = m.pcb[p].context
    BY <1>4, <1>6 DEF SameData
  <2> QED
    BY <1>7, <2>1, <2>2
<1>15. Unqueued(q, J)
  <2> SUFFICES ASSUME NEW v \in queue_tag PROVE ~In(q, J[v])
    BY DEF Unqueued
  <2>1. In(q, J[v]) => In(q, L[v]) \/ q = p
    BY <1>11 DEF HasJoined
  <2>2. In(q, L[v]) => In(q, Q[v])
    BY <1>6 DEF HasLeft
  <2> QED
    BY <1>2, <1>4, <2>1, <2>2 DEF Unqueued
<1>16. SystemWaits(m', J, lv, q)
  <2> SUFFICES ASSUME NEW x \in lv, m'.pcb[x].process_class = SYSTEM, x # q
               PROVE  In(x, J[READY_QUEUE_TAG])
    BY DEF SystemWaits
  <2>1. m.pcb[x].process_class = SYSTEM
    BY <1>3, <1>13, <1>14 DEF SameProcess
  <2>2. x # p
    BY <2>1 DEF SYSTEM, USER
  <2>3. In(x, Q[READY_QUEUE_TAG]) /\ READY_QUEUE_TAG \in queue_tag
    BY <1>2, <2>1 DEF SystemWaits, READY_QUEUE_TAG, queue_tag
  <2>4. In(x, L[READY_QUEUE_TAG])
    BY <1>6, <2>2, <2>3 DEF HasLeft
  <2> QED
    BY <1>11, <2>3, <2>4 DEF HasJoined
<1>17. SameProcess(m, m', q) /\ m'.pcb[Idle].process_class = m.pcb[Idle].process_class
  <2>1. Idle # p
    BY <1>2 DEF SYSTEM, USER
  <2> QED
    BY <1>2, <1>3, <1>4, <1>13, <2>1 DEF SameProcess
<1>18. KernelInv' /\ QueuesOf(m') = J
  BY <1>1, <1>2, <1>11, <1>15, <1>16, <1>17, CommandInv
<1>19. L[u] = Q[u] /\ J = [Q EXCEPT ![t] = RemoveAt(@, k), ![u] = InsertAt(Q[u], j, p)]
  <2>1. L[u] = Q[u]
    BY <1>6, <1>7, <1>9 DEF HasLeft
  <2>2. L = [Q EXCEPT ![t] = RemoveAt(@, k)]
    BY DEF Left
  <2>3. J = [L EXCEPT ![u] = InsertAt(L[u], j, p)]
    BY DEF Joined
  <2> QED
    BY <2>1, <2>2, <2>3
<1>20. \A x \in PCB : /\ m'.pcb[x].process_class = m.pcb[x].process_class
                     /\ m'.pcb[x].process_priority = m.pcb[x].process_priority
                     /\ m'.pcb[x].context = m.pcb[x].context
  BY <1>13, <1>14 DEF SameProcess
<1>21. /\ u # t /\ m.pcb[Q[t][k]].process_class = USER /\ Q[t][k] \in live
       /\ QueuesOf(m') = [Q EXCEPT ![t] = RemoveAt(@, k), ![u] = InsertAt(Q[u], j, Q[t][k])]
       /\ Slot(m', u, Q[u], Q[t][k], j) /\ j \in 1..(Len(Q[u]) + 1)
  BY <1>4, <1>7, <1>11, <1>18, <1>19
<1>22. MoveOutcome
  BY <1>9, <1>20, <1>21 DEF MoveOutcome
<1> QED
  BY <1>18, <1>22

\* The priority of a waiting process changes.  If it is ready, suspended or
\* not, it is queued anew; else it keeps its place.
PriorityOutcome(n) ==
  LET Q == QueuesOf(m) IN
  \E t \in queue_tag : \E k \in 1..Len(Q[t]) :
    LET p == Q[t][k]
        rest == RemoveAt(Q[t], k)
    IN  /\ p \in live
        /\ IF t \in OrderedTag
           THEN \E j \in 1..(Len(rest) + 1) :
                  /\ QueuesOf(m') = [Q EXCEPT ![t] = InsertAt(rest, j, p)]
                  /\ Slot(m', t, rest, p, j)
           ELSE QueuesOf(m') = Q
        /\ \A x \in PCB : x # p => SameProcess(m, m', x)
        /\ m'.pcb[p].process_class = m.pcb[p].process_class
        /\ m'.pcb[p].process_priority = n
        /\ m'.pcb[p].context = m.pcb[p].context

\* A PCB in place of which another field has changed still waits where it did.
LEMMA WaitingKept ==
  ASSUME NEW mm, NEW Q, NEW lv, NEW K, Sound(mm, Q, lv, K), NEW p \in PCB,
         NEW s, Changed(mm, s, p), s.pcb[p].context = mm.pcb[p].context,
         s.pcb[p].exe_state = mm.pcb[p].exe_state, s.pcb[p].disp_state = mm.pcb[p].disp_state
  PROVE  s \in Memory /\ Queues(s, Q) /\ Waiting(s, Q, lv, K) /\ OrderedBut(s, Q, p)
PROOF
<1>1. /\ mm \in Memory /\ Queues(mm, Q) /\ Ordered(mm, Q) /\ Waiting(mm, Q, lv, K)
      /\ lv \subseteq PCB
  BY DEF Sound
<1>2. /\ s \in Memory /\ s.queue = mm.queue
      /\ \A x \in PCB : x # p => s.pcb[x] = mm.pcb[x]
      /\ \A x \in PCB : /\ s.pcb[x].next_pcbPtr = mm.pcb[x].next_pcbPtr
                       /\ s.pcb[x].prev_pcbPtr = mm.pcb[x].prev_pcbPtr
                       /\ s.pcb[x].context = mm.pcb[x].context
                       /\ s.pcb[x].exe_state = mm.pcb[x].exe_state
                       /\ s.pcb[x].disp_state = mm.pcb[x].disp_state
  BY DEF Changed
<1>3. Queues(s, Q)
  BY <1>1, <1>2, QueuesKept
<1>4. Waiting(s, Q, lv, K)
  <2> SUFFICES ASSUME NEW t \in queue_tag, NEW x, In(x, Q[t])
               PROVE  x \in lv /\ queue_sel(s, x) = t /\ Own(x, s.pcb[x].context, K)
    BY DEF Waiting
  <2>1. x \in lv /\ queue_sel(mm, x) = t /\ Own(x, mm.pcb[x].context, K) /\ x \in PCB
    BY <1>1 DEF Waiting
  <2> QED
    BY <1>2, <2>1 DEF queue_sel
<1>5. ASSUME NEW t \in OrderedTag, NEW i \in 1..Len(Q[t]), NEW j \in 1..Len(Q[t]),
             i <= j, Q[t][i] # p, Q[t][j] # p
      PROVE  process_priority(s, Q[t][i]) <= process_priority(s, Q[t][j])
  <2>1. t \in queue_tag /\ InOrder(mm, Q[t])
    BY <1>1 DEF OrderedTag, queue_tag, SUS_READY_QUEUE_TAG, READY_QUEUE_TAG, Ordered
  <2>2. Q[t][i] \in PCB /\ Q[t][j] \in PCB
    <3>1. Q[t] \in Seq(PCB)
      BY <1>1, <2>1 DEF Queues
    <3> QED
      BY <3>1, QueueFacts
  <2>3. s.pcb[Q[t][i]] = mm.pcb[Q[t][i]] /\ s.pcb[Q[t][j]] = mm.pcb[Q[t][j]]
    BY <1>2, <1>5, <2>2
  <2>4. process_priority(mm, Q[t][i]) <= process_priority(mm, Q[t][j])
    BY <1>5, <2>1 DEF InOrder
  <2> QED
    BY <2>3, <2>4 DEF process_priority
<1> QED
  BY <1>2, <1>3, <1>4, <1>5 DEF OrderedBut

\* A blocked process is in no queue that is kept in order, a ready one is.
LEMMA ReadyTags ==
  ASSUME NEW mm \in Memory, NEW p \in PCB
  PROVE  mm.pcb[p].exe_state = READY <=> queue_sel(mm, p) \in OrderedTag
PROOF
<1>1. mm.pcb[p].exe_state \in {0, 2} /\ mm.pcb[p].disp_state \in {0, 1}
  BY DEF Memory, PcbType, READY, BLOCKED, SUSPENDED, NOT_SUSPENDED
<1> QED
  BY <1>1 DEF queue_sel, OrderedTag, READY, SUS_READY_QUEUE_TAG, READY_QUEUE_TAG

\* set_pcb_priority: the key is changed in place, then the PCB is removed and
\* inserted again.
LEMMA PriorityStep ==
  ASSUME KernelInv, At("comhand", "prompt"), NEW t \in queue_tag,
         NEW k \in 1..Len(QueuesOf(m)[t]), NEW p, p = QueuesOf(m)[t][k],
         NEW n \in 0..9, NEW s, s = SetPriority(m, p, n),
         Requeued(IF m.pcb[p].exe_state = READY THEN pcb_insert(pcb_remove(s, p), p) ELSE s),
         commands' = commands
  PROVE  KernelInv' /\ PriorityOutcome(n)
PROOF
<1> PICK Q, K, lv, q, L, r : /\ Q = QueuesOf(m) /\ K = commands /\ lv = live
                             /\ q = current_process /\ L = Left(Q, t, k)
                             /\ r = pcb_remove(s, p)
  OBVIOUS
<1>1. /\ q # NULL /\ Own(q, cpu', commands) /\ cpu' \in ContextType
      /\ live' = lv
      /\ UNCHANGED <<current_process, initial_context, commands>>
      /\ m' = IF m.pcb[p].exe_state = READY THEN pcb_insert(r, p) ELSE s
  BY CommandFacts DEF At, Requeued, Goto, Pc
<1>2. /\ Sound(m, Q, lv, K) /\ SystemWaits(m, Q, lv, q) /\ q \in lv /\ Unqueued(q, Q)
      /\ Idle \in lv /\ m.pcb[Idle].process_class = SYSTEM
  BY <1>1, InvFacts DEF ProcessControl
<1>3. m \in Memory /\ lv \in SUBSET PCB /\ Queues(m, Q)
  BY <1>2 DEF Sound
<1>4. /\ p \in lv /\ p \in PCB /\ p # q /\ In(p, Q[t]) /\ Own(p, m.pcb[p].context, K)
      /\ queue_sel(m, p) = t
  BY <1>1, FoundFacts
<1>5. /\ Changed(m, s, p) /\ s.pcb[p].process_priority = n
      /\ s.pcb[p].process_class = m.pcb[p].process_class
      /\ s.pcb[p].exe_state = m.pcb[p].exe_state
      /\ s.pcb[p].disp_state = m.pcb[p].disp_state
      /\ s.pcb[p].context = m.pcb[p].context
  <2>1. m \in Memory /\ p \in PCB /\ n \in 0..9
    BY <1>3, <1>4
  <2> PICK x : x = p
    OBVIOUS
  <2>2. x \in PCB /\ s = SetPriority(m, x, n)
    BY <2>1
  <2>3. /\ Changed(m, s, x) /\ s.pcb[x].process_priority = n
        /\ s.pcb[x].process_class = m.pcb[x].process_class
        /\ s.pcb[x].exe_state = m.pcb[x].exe_state
        /\ s.pcb[x].disp_state = m.pcb[x].disp_state
        /\ s.pcb[x].context = m.pcb[x].context
    BY ONLY <2>1, <2>2, PriorityChanged
  <2> QED
    BY <2>3
<1>6. s \in Memory /\ Queues(s, Q) /\ Waiting(s, Q, lv, K) /\ OrderedBut(s, Q, p)
  BY <1>2, <1>4, <1>5, WaitingKept
<1>7. m.pcb[p].exe_state = READY <=> t \in OrderedTag
  BY <1>3, <1>4, ReadyTags
<1>8. \A x \in PCB : x # p => SameProcess(m, s, x)
  BY <1>5 DEF Changed, SameProcess
<1>9. CASE m.pcb[p].exe_state = READY
  <2>1. Removed(s, r, Q, L, t, k) /\ Sound(r, L, lv, K)
    BY <1>3, <1>6, SoundRemove
  <2>2. r \in Memory /\ SameData(s, r) /\ HasLeft(Q, L, t, k) /\ Unqueued(p, L)
    BY <2>1 DEF Removed
  <2>3. Changed(r, r, p)
    BY <2>2 DEF Changed
  <2>4. r.pcb[p].context = m.pcb[p].context /\ queue_sel(r, p) = t
    BY <1>4, <1>5, <2>2 DEF SameData, queue_sel
  <2>5. Own(p, r.pcb[p].context, K) /\ m' = pcb_insert(r, p)
    BY <1>1, <1>4, <1>9, <2>4
  <2>6. JoinOutcome(r, r, m', L, lv, K, t, p)
    BY <1>4, <2>1, <2>2, <2>3, <2>4, <2>5, JoinSound
  <2>7. PICK j \in 1..(Len(L[t]) + 1) :
         /\ Sound(m', Joined(L, t, j, p), lv, K)
         /\ HasJoined(L, Joined(L, t, j, p), t, j, p)
         /\ Slot(m', t, L[t], p, j)
    BY <2>6 DEF JoinOutcome
  <2> PICK J : J = Joined(L, t, j, p)
    OBVIOUS
  <2>8. Sound(m', J, lv, K) /\ HasJoined(L, J, t, j, p) /\ Slot(m', t, L[t], p, j)
    BY <2>7
  <2>9. SameData(r, m')
    BY <2>6 DEF JoinOutcome
  <2>10. \A x \in PCB : SameProcess(s, m', x)
    <3> SUFFICES ASSUME NEW x \in PCB PROVE SameProcess(s, m', x)
      OBVIOUS
    <3>1. SameProcess(s, r, x)
      BY <2>2 DEF SameData, SameProcess
    <3>2. SameProcess(r, m', x)
      BY <2>9 DEF SameData, SameProcess
    <3> QED
      BY <3>1, <3>2 DEF SameProcess
  <2>11. \A x \in PCB : x # p => SameProcess(m, m', x)
    BY <1>8, <2>10 DEF SameProcess
  <2>12. /\ m'.pcb[p].process_class = m.pcb[p].process_class
         /\ m'.pcb[p].process_priority = n
         /\ m'.pcb[p].context = m.pcb[p].context
    BY <1>4, <1>5, <2>10 DEF SameProcess
  <2>13. \A v \in queue_tag : \A x : In(x, J[v]) <=> In(x, Q[v])
    <3> SUFFICES ASSUME NEW v \in queue_tag, NEW x PROVE In(x, J[v]) <=> In(x, Q[v])
      OBVIOUS
    <3>1. In(x, J[v]) <=> In(x, L[v]) \/ (v = t /\ x = p)
      BY <2>8 DEF HasJoined
    <3>2. In(x, L[v]) <=> In(x, Q[v]) /\ x # p
      BY <2>2 DEF HasLeft
    <3>3. x = p => (In(x, Q[v]) <=> v = t)
      BY <1>3, <1>4 DEF Queues
    <3> QED
      BY <3>1, <3>2, <3>3
  <2>14. Unqueued(q, J)
    BY <1>2, <2>13 DEF Unqueued
  <2>15. m'.pcb[Idle].process_class = m.pcb[Idle].process_class /\ SameProcess(m, m', q)
    BY <1>2, <1>3, <1>4, <2>11, <2>12 DEF SameProcess
  <2>16. SystemWaits(m', J, lv, q)
    <3> SUFFICES ASSUME NEW x \in lv, m'.pcb[x].process_class = SYSTEM, x # q
                 PROVE  In(x, J[READY_QUEUE_TAG])
      BY DEF SystemWaits
    <3>1. m.pcb[x].process_class = SYSTEM
      BY <1>3, <2>11, <2>12 DEF SameProcess
    <3>2. In(x, Q[READY_QUEUE_TAG]) /\ READY_QUEUE_TAG \in queue_tag
      BY <1>2, <3>1 DEF SystemWaits, READY_QUEUE_TAG, queue_tag
    <3> QED
      BY <2>13, <3>2
  <2>17. KernelInv' /\ QueuesOf(m') = J
    BY <1>1, <1>2, <2>8, <2>14, <2>15, <2>16, CommandInv
  <2>18. L[t] = RemoveAt(Q[t], k) /\ J = [Q EXCEPT ![t] = InsertAt(RemoveAt(Q[t], k), j, p)]
    <3>1. L[t] = RemoveAt(Q[t], k)
      BY <2>2 DEF HasLeft
    <3>2. L = [Q EXCEPT ![t] = RemoveAt(@, k)] /\ J = [L EXCEPT ![t] = InsertAt(@, j, p)]
      BY DEF Left, Joined
    <3>3. Q \in [queue_tag -> Seq(PCB)]
      BY <1>3 DEF Queues
    <3> QED
      BY <3>1, <3>2, <3>3
  <2>19. /\ QueuesOf(m') = [Q EXCEPT ![t] = InsertAt(RemoveAt(Q[t], k), j, p)]
         /\ Slot(m', t, RemoveAt(Q[t], k), p, j) /\ j \in 1..(Len(RemoveAt(Q[t], k)) + 1)
         /\ t \in OrderedTag
    BY <1>7, <1>9, <2>8, <2>17, <2>18
  <2>20. PriorityOutcome(n)
    BY <1>4, <2>11, <2>12, <2>19 DEF PriorityOutcome
  <2> QED
    BY <2>17, <2>20
<1>10. CASE m.pcb[p].exe_state # READY
  <2>1. m' = s /\ t \notin OrderedTag
    BY <1>1, <1>7, <1>10
  <2>2. Ordered(s, Q)
    <3> SUFFICES ASSUME NEW v \in OrderedTag PROVE InOrder(s, Q[v])
      BY DEF Ordered
    <3>1. v \in queue_tag /\ v # t
      BY <2>1 DEF OrderedTag, queue_tag, SUS_READY_QUEUE_TAG, READY_QUEUE_TAG
    <3>2. ~In(p, Q[v])
      BY <1>3, <1>4, <3>1 DEF Queues
    <3>3. \A i \in 1..Len(Q[v]) : Q[v][i] # p
      BY <3>2 DEF In
    <3> QED
      BY <1>6, <3>3 DEF OrderedBut, InOrder
  <2>3. Sound(m', Q, lv, K)
    BY <1>3, <1>6, <2>1, <2>2 DEF Sound
  <2>4. \A x \in PCB : m'.pcb[x].process_class = m.pcb[x].process_class
    BY <1>5, <1>8, <2>1 DEF SameProcess
  <2>5. SystemWaits(m', Q, lv, q)
    BY <1>2, <1>3, <2>4 DEF SystemWaits
  <2>6. m'.pcb[Idle].process_class = m.pcb[Idle].process_class /\ SameProcess(m, m', q)
    BY <1>2, <1>3, <1>4, <1>8, <2>1, <2>4
  <2>7. KernelInv' /\ QueuesOf(m') = Q
    BY <1>1, <1>2, <2>3, <2>5, <2>6, CommandInv
  <2>8. PriorityOutcome(n)
    BY <1>4, <1>5, <1>8, <2>1, <2>7 DEF PriorityOutcome
  <2> QED
    BY <2>7, <2>8
<1> QED
  BY <1>9, <1>10

\* A waiting user process is gone.
DeleteOutcome ==
  LET Q == QueuesOf(m) IN
  \E t \in queue_tag : \E k \in 1..Len(Q[t]) :
    /\ m.pcb[Q[t][k]].process_class = USER
    /\ Q[t][k] \in live /\ live' = live \ {Q[t][k]}
    /\ QueuesOf(m') = [Q EXCEPT ![t] = RemoveAt(@, k)]
    /\ \A x \in PCB : x # Q[t][k] => SameProcess(m, m', x)

\* pcb_free leaves every other PCB, and the queues, alone.
LEMMA FreeEffect ==
  ASSUME NEW mm \in Memory, NEW p \in PCB, NEW s, s = pcb_free(mm, p)
  PROVE  /\ s \in Memory /\ s.queue = mm.queue
         /\ \A x \in PCB : x # p => s.pcb[x] = mm.pcb[x]
         /\ s.pcb[p].next_pcbPtr = NULL /\ s.pcb[p].prev_pcbPtr = NULL
PROOF
<1> DEFINE g == [mm.pcb EXCEPT ![p] = Garbage(p)]
<1>1. /\ Garbage(p) \in PcbType
      /\ Garbage(p).next_pcbPtr = NULL /\ Garbage(p).prev_pcbPtr = NULL
  BY GarbageFacts
<1>2. s = [mm EXCEPT !.pcb = g]
  BY DEF pcb_free
<1>3. g \in [PCB -> PcbType] /\ \A x \in PCB : g[x] = IF x = p THEN Garbage(p) ELSE mm.pcb[x]
  BY <1>1 DEF Memory
<1> HIDE DEF g
<1>4. s \in Memory /\ s.queue = mm.queue /\ s.pcb = g
  BY <1>2, <1>3 DEF Memory
<1> QED
  BY <1>1, <1>3, <1>4

\* delete_pcb: remove and free.
LEMMA DeleteStep ==
  ASSUME KernelInv, At("comhand", "prompt"), NEW t \in queue_tag,
         NEW k \in 1..Len(QueuesOf(m)[t]), NEW p, p = QueuesOf(m)[t][k],
         m.pcb[p].process_class = USER,
         m' = pcb_free(pcb_remove(m, p), p), live' = live \ {p}, Goto("bottom"),
         UNCHANGED <<current_process, initial_context, commands>>
  PROVE  KernelInv' /\ DeleteOutcome
PROOF
<1> PICK Q, K, lv, lw, q, L, r : /\ Q = QueuesOf(m) /\ K = commands /\ lv = live /\ lw = live \ {p}
                                 /\ q = current_process /\ L = Left(Q, t, k)
                                 /\ r = pcb_remove(m, p)
  OBVIOUS
<1>1. /\ q # NULL /\ Own(q, cpu', commands) /\ cpu' \in ContextType
      /\ live' = lw /\ m' = pcb_free(r, p)
  BY CommandFacts DEF At, Goto, Pc
<1>2. /\ Sound(m, Q, lv, K) /\ SystemWaits(m, Q, lv, q) /\ q \in lv /\ Unqueued(q, Q)
      /\ Idle \in lv /\ m.pcb[Idle].process_class = SYSTEM
  BY <1>1, InvFacts DEF ProcessControl
<1>3. m \in Memory /\ lv \in SUBSET PCB /\ Queues(m, Q) /\ Waiting(m, Q, lv, K) /\ OrderedBut(m, Q, p)
  BY <1>2, SoundOrderedBut
<1>4. p \in lv /\ p \in PCB /\ p # q /\ In(p, Q[t])
  BY <1>1, FoundFacts
<1>5. Removed(m, r, Q, L, t, k) /\ Sound(r, L, lv, K)
  BY <1>3, SoundRemove
<1>6. r \in Memory /\ SameData(m, r) /\ HasLeft(Q, L, t, k) /\ Unqueued(p, L)
  BY <1>5 DEF Removed
<1>7. /\ m' \in Memory /\ m'.queue = r.queue
      /\ \A x \in PCB : x # p => m'.pcb[x] = r.pcb[x]
      /\ m'.pcb[p].next_pcbPtr = NULL /\ m'.pcb[p].prev_pcbPtr = NULL
  BY <1>1, <1>4, <1>6, FreeEffect
<1>8. Sound(m', L, lw, K)
  <2>1. lw \in SUBSET PCB /\ lv \ {p} \subseteq lw
    BY <1>3
  <2> QED
    BY <1>4, <1>5, <1>6, <1>7, <2>1, SoundChange
<1>9. \A x \in PCB : x # p => SameProcess(m, m', x)
  <2> SUFFICES ASSUME NEW x \in PCB, x # p PROVE SameProcess(m, m', x)
    OBVIOUS
  <2>1. SameProcess(m, r, x) /\ m'.pcb[x] = r.pcb[x]
    BY <1>6, <1>7 DEF SameProcess, SameData
  <2> QED
    BY <2>1 DEF SameProcess
<1>10. Idle # p
  BY <1>2 DEF SYSTEM, USER
<1>11. Unqueued(q, L)
  BY <1>2, <1>6 DEF Unqueued, HasLeft
<1>12. SystemWaits(m', L, lw, q)
  <2> SUFFICES ASSUME NEW x \in lw, m'.pcb[x].process_class = SYSTEM, x # q
               PROVE  In(x, L[READY_QUEUE_TAG])
    BY DEF SystemWaits
  <2>1. x \in lv /\ x \in PCB /\ x # p
    BY <1>3
  <2>2. m.pcb[x].process_class = SYSTEM
    BY <1>9, <2>1 DEF SameProcess
  <2>3. In(x, Q[READY_QUEUE_TAG]) /\ READY_QUEUE_TAG \in queue_tag
    BY <1>2, <2>1, <2>2 DEF SystemWaits, READY_QUEUE_TAG, queue_tag
  <2> QED
    BY <1>6, <2>1, <2>3 DEF HasLeft
<1>13. /\ SameProcess(m, m', q) /\ m'.pcb[Idle].process_class = m.pcb[Idle].process_class
       /\ {q, Idle} \subseteq lw
  BY <1>2, <1>3, <1>4, <1>9, <1>10 DEF SameProcess
<1>14. KernelInv' /\ QueuesOf(m') = L
  BY <1>1, <1>8, <1>11, <1>12, <1>13, CommandInv
<1>15. L = [Q EXCEPT ![t] = RemoveAt(@, k)]
  BY DEF Left
<1>16. DeleteOutcome
  BY <1>1, <1>4, <1>9, <1>14, <1>15 DEF DeleteOutcome
<1> QED
  BY <1>14, <1>16

-----------------------------------------------------------------------------

(***************************************************************************)
(* The steps of the command handler.                                       *)
(***************************************************************************)

\* What a command does, to the processes and to the command handler.
CommandOutcome ==
  /\ cpu.fn = "comhand" /\ cpu'.fn = "comhand" /\ cpu' # cpu
  /\ current_process = Comhand /\ current_process' = Comhand
  /\ \/ live' = live /\ MoveOutcome
     \/ /\ "set pcb priority" \in commands /\ live' = live
        /\ \E n \in Priority : PriorityOutcome(n)
     \/ DeleteOutcome
     \/ \E p \in PCB, class \in {SYSTEM, USER}, n \in Priority :
          CreateOutcome(p, class, n) /\ (n = 3 \/ ("create pcb" \in commands /\ n \in Entered))
     \/ UNCHANGED <<m, live>>

\* A step behind which the command handler goes on elsewhere.
LEMMA AfterCommand ==
  ASSUME KernelInv, At("comhand", "prompt"), Goto("bottom")
  PROVE  /\ cpu.fn = "comhand" /\ cpu'.fn = "comhand" /\ cpu' # cpu
         /\ current_process = Comhand /\ current_process # NULL
         /\ cpu' \in ContextType /\ Own(current_process, cpu', commands)
PROOF
<1>1. cpu.fn = "comhand" /\ cpu.pc = "prompt" /\ "bottom" \in Pc \ {"load"}
  BY DEF At, Pc
<1>2. cpu' = [cpu EXCEPT !.pc = "bottom"]
  BY DEF Goto
<1>3. /\ current_process = Comhand /\ current_process # NULL
      /\ cpu' \in ContextType /\ Own(current_process, cpu', commands)
      /\ cpu'.fn = "comhand" /\ cpu'.pc = "bottom"
  BY <1>1, <1>2, CommandFacts
<1> QED
  BY <1>1, <1>3

\* A step that changes nothing but where the command handler is.
LEMMA QuietStep ==
  ASSUME KernelInv, cpu.fn = "comhand", cpu'.fn = "comhand", cpu' # cpu,
         cpu' \in ContextType, Own(current_process, cpu', commands),
         UNCHANGED <<m, live, current_process, initial_context, commands>>
  PROVE  KernelInv' /\ CommandOutcome
PROOF
<1> PICK Q : Q = QueuesOf(m)
  OBVIOUS
<1>1. current_process = Comhand /\ current_process # NULL
  BY CommandFacts
<1>2. /\ Sound(m, Q, live, commands) /\ SystemWaits(m, Q, live, current_process)
      /\ Unqueued(current_process, Q) /\ {current_process, Idle} \subseteq live
  BY <1>1, InvFacts DEF ProcessControl
<1>3. /\ Sound(m', Q, live', commands) /\ SystemWaits(m', Q, live', current_process)
      /\ {current_process, Idle} \subseteq live'
      /\ SameProcess(m, m', current_process)
      /\ m'.pcb[Idle].process_class = m.pcb[Idle].process_class
  BY <1>2 DEF SameProcess
<1>4. KernelInv'
  BY <1>1, <1>2, <1>3, CommandInv
<1> QED
  BY <1>1, <1>4 DEF CommandOutcome

\* A command that prints.
LEMMA PrintedStep ==
  ASSUME KernelInv, At("comhand", "prompt"), Printed, commands' = commands
  PROVE  KernelInv' /\ CommandOutcome
PROOF
<1>1. Goto("bottom") /\ UNCHANGED <<m, live, current_process, initial_context, commands>>
  BY DEF Printed, Requeued
<1>2. /\ cpu.fn = "comhand" /\ cpu'.fn = "comhand" /\ cpu' # cpu
      /\ cpu' \in ContextType /\ Own(current_process, cpu', commands)
  BY <1>1, AfterCommand
<1> QED
  BY <1>1, <1>2, QuietStep

\* A PCB a command has found by its name: where it waits, ...
LEMMA FoundPlace ==
  ASSUME KernelInv, At("comhand", "prompt"), NEW name, NEW p, p = pcb_find(m, name), p # NULL
  PROVE  \E t \in queue_tag : \E k \in 1..Len(QueuesOf(m)[t]) :
           /\ p = QueuesOf(m)[t][k] /\ p \in PCB /\ p \in live /\ m \in Memory
           /\ t = m.pcb[p].disp_state + m.pcb[p].exe_state
           /\ m.pcb[p].exe_state \in {READY, BLOCKED}
           /\ m.pcb[p].disp_state \in {SUSPENDED, NOT_SUSPENDED}
           /\ m.pcb[p].process_class \in {SYSTEM, USER}
           /\ t # READY_QUEUE_TAG => m.pcb[p].process_class = USER
PROOF
<1> PICK Q : Q = QueuesOf(m)
  OBVIOUS
<1>1. current_process # NULL
  BY CommandFacts DEF At
<1>2. m \in Memory /\ Queues(m, Q)
  BY DEF KernelInv, Sound
<1>3. PICK t \in queue_tag : \E k \in 1..Len(Q[t]) : p = Q[t][k]
  BY <1>2, PcbFindQueued
<1>4. PICK k \in 1..Len(Q[t]) : p = Q[t][k]
  BY <1>3
<1>5. /\ p \in live /\ p \in PCB /\ queue_sel(m, p) = t
      /\ m.pcb[p].process_class \in {SYSTEM, USER}
      /\ t # READY_QUEUE_TAG => m.pcb[p].process_class = USER
  BY <1>1, <1>4, FoundFacts
<1>6. /\ m.pcb[p].exe_state \in {READY, BLOCKED}
      /\ m.pcb[p].disp_state \in {SUSPENDED, NOT_SUSPENDED}
  BY <1>2, <1>5 DEF Memory, PcbType
<1>7. t = m.pcb[p].disp_state + m.pcb[p].exe_state
  BY <1>5 DEF queue_sel
<1> QED
  BY <1>2, <1>4, <1>5, <1>6, <1>7

\* ... and what becomes of it when it is blocked or unblocked, ...
LEMMA ExeStep ==
  ASSUME KernelInv, At("comhand", "prompt"), NEW name, NEW p, p = pcb_find(m, name), p # NULL,
         NEW v \in {READY, BLOCKED}, m.pcb[p].exe_state # v,
         v = BLOCKED => m.pcb[p].process_class # SYSTEM,
         Requeued(pcb_insert(SetExe(pcb_remove(m, p), p, v), p)), commands' = commands
  PROVE  KernelInv' /\ CommandOutcome
PROOF
<1>1. PICK t \in queue_tag : \E k \in 1..Len(QueuesOf(m)[t]) :
        /\ p = QueuesOf(m)[t][k] /\ p \in PCB /\ p \in live /\ m \in Memory
        /\ t = m.pcb[p].disp_state + m.pcb[p].exe_state
        /\ m.pcb[p].exe_state \in {READY, BLOCKED}
        /\ m.pcb[p].disp_state \in {SUSPENDED, NOT_SUSPENDED}
        /\ m.pcb[p].process_class \in {SYSTEM, USER}
        /\ t # READY_QUEUE_TAG => m.pcb[p].process_class = USER
  BY FoundPlace
<1>2. PICK k \in 1..Len(QueuesOf(m)[t]) : p = QueuesOf(m)[t][k]
  BY <1>1
<1>0. /\ p \in PCB /\ t = m.pcb[p].disp_state + m.pcb[p].exe_state
      /\ m.pcb[p].exe_state \in {0, 2} /\ m.pcb[p].disp_state \in {0, 1}
      /\ m.pcb[p].process_class \in {SYSTEM, USER}
      /\ t # 1 => m.pcb[p].process_class = USER
  BY <1>1 DEF READY, BLOCKED, SUSPENDED, NOT_SUSPENDED, READY_QUEUE_TAG
<1>3. m.pcb[p].process_class = USER
  <2>1. v = BLOCKED \/ t # 1
    BY <1>0 DEF READY, BLOCKED, SUSPENDED, NOT_SUSPENDED
  <2> QED
    BY <1>0, <2>1
<1> PICK r, s : r = pcb_remove(m, p) /\ s = SetExe(r, p, v)
  OBVIOUS
<1>4. ASSUME r \in Memory
      PROVE  /\ Changed(r, s, p) /\ s.pcb[p].exe_state = v
             /\ s.pcb[p].process_class = r.pcb[p].process_class
             /\ s.pcb[p].process_priority = r.pcb[p].process_priority
             /\ s.pcb[p].disp_state = r.pcb[p].disp_state
             /\ s.pcb[p].context = r.pcb[p].context
  <2>1. p \in PCB /\ s = SetExe(r, p, v) /\ v \in {READY, BLOCKED}
    BY <1>1
  <2> QED
    BY ONLY <1>4, <2>1, ExeChanged
<1>5. ASSUME r \in Memory, SameData(m, r) PROVE queue_sel(s, p) # t
  <2>1. s.pcb[p].exe_state = v /\ s.pcb[p].disp_state = m.pcb[p].disp_state
    BY <1>1, <1>4, <1>5 DEF SameData
  <2> QED
    BY <1>0, <2>1 DEF queue_sel, READY, BLOCKED, SUSPENDED, NOT_SUSPENDED
<1>6. Requeued(pcb_insert(s, p))
  OBVIOUS
<1>7. KernelInv' /\ MoveOutcome
  BY <1>2, <1>3, <1>4, <1>5, <1>6, MoveStep
<1>8. Goto("bottom") /\ live' = live /\ current_process' = current_process
  BY DEF Requeued
<1> QED
  BY <1>7, <1>8, AfterCommand DEF CommandOutcome

\* ... suspended or resumed, ...
LEMMA DispStep ==
  ASSUME KernelInv, At("comhand", "prompt"), NEW name, NEW p, p = pcb_find(m, name), p # NULL,
         NEW v \in {SUSPENDED, NOT_SUSPENDED}, m.pcb[p].disp_state # v,
         v = SUSPENDED => m.pcb[p].process_class # SYSTEM,
         Requeued(pcb_insert(SetDisp(pcb_remove(m, p), p, v), p)), commands' = commands
  PROVE  KernelInv' /\ CommandOutcome
PROOF
<1>1. PICK t \in queue_tag : \E k \in 1..Len(QueuesOf(m)[t]) :
        /\ p = QueuesOf(m)[t][k] /\ p \in PCB /\ p \in live /\ m \in Memory
        /\ t = m.pcb[p].disp_state + m.pcb[p].exe_state
        /\ m.pcb[p].exe_state \in {READY, BLOCKED}
        /\ m.pcb[p].disp_state \in {SUSPENDED, NOT_SUSPENDED}
        /\ m.pcb[p].process_class \in {SYSTEM, USER}
        /\ t # READY_QUEUE_TAG => m.pcb[p].process_class = USER
  BY FoundPlace
<1>2. PICK k \in 1..Len(QueuesOf(m)[t]) : p = QueuesOf(m)[t][k]
  BY <1>1
<1>0. /\ p \in PCB /\ t = m.pcb[p].disp_state + m.pcb[p].exe_state
      /\ m.pcb[p].exe_state \in {0, 2} /\ m.pcb[p].disp_state \in {0, 1}
      /\ m.pcb[p].process_class \in {SYSTEM, USER}
      /\ t # 1 => m.pcb[p].process_class = USER
  BY <1>1 DEF READY, BLOCKED, SUSPENDED, NOT_SUSPENDED, READY_QUEUE_TAG
<1>3. m.pcb[p].process_class = USER
  <2>1. v = SUSPENDED \/ t # 1
    BY <1>0 DEF READY, BLOCKED, SUSPENDED, NOT_SUSPENDED
  <2> QED
    BY <1>0, <2>1
<1> PICK r, s : r = pcb_remove(m, p) /\ s = SetDisp(r, p, v)
  OBVIOUS
<1>4. ASSUME r \in Memory
      PROVE  /\ Changed(r, s, p) /\ s.pcb[p].disp_state = v
             /\ s.pcb[p].process_class = r.pcb[p].process_class
             /\ s.pcb[p].process_priority = r.pcb[p].process_priority
             /\ s.pcb[p].exe_state = r.pcb[p].exe_state
             /\ s.pcb[p].context = r.pcb[p].context
  <2>1. p \in PCB /\ s = SetDisp(r, p, v) /\ v \in {SUSPENDED, NOT_SUSPENDED}
    BY <1>1
  <2> QED
    BY ONLY <1>4, <2>1, DispChanged
<1>5. ASSUME r \in Memory, SameData(m, r) PROVE queue_sel(s, p) # t
  <2>1. s.pcb[p].disp_state = v /\ s.pcb[p].exe_state = m.pcb[p].exe_state
    BY <1>1, <1>4, <1>5 DEF SameData
  <2> QED
    BY <1>0, <2>1 DEF queue_sel, READY, BLOCKED, SUSPENDED, NOT_SUSPENDED
<1>6. Requeued(pcb_insert(s, p))
  OBVIOUS
<1>7. KernelInv' /\ MoveOutcome
  BY <1>2, <1>3, <1>4, <1>5, <1>6, MoveStep
<1>8. Goto("bottom") /\ live' = live /\ current_process' = current_process
  BY DEF Requeued
<1> QED
  BY <1>7, <1>8, AfterCommand DEF CommandOutcome

\* The commands, one after the other.
LEMMA DeleteCommand ==
  ASSUME KernelInv, NEW name \in Name, delete_pcb(name), commands' = commands
  PROVE  KernelInv' /\ CommandOutcome
PROOF
<1> PICK p : p = pcb_find(m, name)
  OBVIOUS
<1>1. At("comhand", "prompt")
  BY DEF delete_pcb, Command
<1>2. CASE p # NULL /\ m.pcb[p].process_class # SYSTEM /\ pcb_remove_ok(m, p)
  <2>1. /\ m' = pcb_free(pcb_remove(m, p), p) /\ live' = live \ {p} /\ Goto("bottom")
        /\ UNCHANGED <<current_process, initial_context, commands>>
    BY <1>2 DEF delete_pcb
  <2>2. PICK t \in queue_tag : \E k \in 1..Len(QueuesOf(m)[t]) :
          p = QueuesOf(m)[t][k] /\ m.pcb[p].process_class \in {SYSTEM, USER}
    BY <1>1, <1>2, FoundPlace
  <2>3. PICK k \in 1..Len(QueuesOf(m)[t]) : p = QueuesOf(m)[t][k]
    BY <2>2
  <2>4. m.pcb[p].process_class = USER
    BY <1>2, <2>2
  <2>5. KernelInv' /\ DeleteOutcome
    BY <1>1, <2>1, <2>3, <2>4, DeleteStep
  <2> QED
    BY <1>1, <2>1, <2>5, AfterCommand DEF CommandOutcome
<1>3. CASE ~(p # NULL /\ m.pcb[p].process_class # SYSTEM /\ pcb_remove_ok(m, p))
  <2>1. Printed
    BY <1>3 DEF delete_pcb
  <2> QED
    BY <1>1, <2>1, PrintedStep
<1> QED
  BY <1>2, <1>3

\* The commands "block pcb" and "unblock pcb" keep the invariant, also on
\* their error paths.
LEMMA BlockCommand ==
  ASSUME KernelInv, NEW name \in Name, block_pcb(name) \/ unblock_pcb(name), commands' = commands
  PROVE  KernelInv' /\ CommandOutcome
PROOF
<1> PICK p : p = pcb_find(m, name)
  OBVIOUS
<1>1. At("comhand", "prompt")
  BY DEF block_pcb, unblock_pcb, Command
<1>2. CASE Printed
  BY <1>1, <1>2, PrintedStep
<1>3. CASE /\ p # NULL /\ m.pcb[p].exe_state # BLOCKED /\ m.pcb[p].process_class # SYSTEM
           /\ Requeued(pcb_insert(SetExe(pcb_remove(m, p), p, BLOCKED), p))
  BY <1>1, <1>3, ExeStep
<1>4. CASE /\ p # NULL /\ m.pcb[p].exe_state = BLOCKED
           /\ Requeued(pcb_insert(SetExe(pcb_remove(m, p), p, READY), p))
  <2>1. m.pcb[p].exe_state # READY /\ READY # BLOCKED
    BY <1>4 DEF READY, BLOCKED
  <2> QED
    BY <1>1, <1>4, <2>1, ExeStep
<1> QED
  BY <1>2, <1>3, <1>4 DEF block_pcb, unblock_pcb

\* The commands "suspend pcb" and "resume pcb" keep the invariant, also on
\* their error paths.
LEMMA SuspendCommand ==
  ASSUME KernelInv, NEW name \in Name, suspend_pcb(name) \/ resume_pcb(name), commands' = commands
  PROVE  KernelInv' /\ CommandOutcome
PROOF
<1> PICK p : p = pcb_find(m, name)
  OBVIOUS
<1>1. At("comhand", "prompt")
  BY DEF suspend_pcb, resume_pcb, Command
<1>2. CASE Printed
  BY <1>1, <1>2, PrintedStep
<1>3. CASE /\ p # NULL /\ m.pcb[p].disp_state # SUSPENDED /\ m.pcb[p].process_class # SYSTEM
           /\ Requeued(pcb_insert(SetDisp(pcb_remove(m, p), p, SUSPENDED), p))
  BY <1>1, <1>3, DispStep
<1>4. CASE /\ p # NULL /\ m.pcb[p].disp_state = SUSPENDED
           /\ Requeued(pcb_insert(SetDisp(pcb_remove(m, p), p, NOT_SUSPENDED), p))
  <2>1. m.pcb[p].disp_state # NOT_SUSPENDED /\ NOT_SUSPENDED # SUSPENDED
    BY <1>4 DEF SUSPENDED, NOT_SUSPENDED
  <2> QED
    BY <1>1, <1>4, <2>1, DispStep
<1> QED
  BY <1>2, <1>3, <1>4 DEF suspend_pcb, resume_pcb

\* The command "set pcb priority" keeps the invariant: the PCB is taken out
\* before its priority changes.
LEMMA PriorityCommand ==
  ASSUME KernelInv, NEW name \in Name, NEW n \in Entered, set_pcb_priority(name, n),
         commands' = commands
  PROVE  KernelInv' /\ CommandOutcome
PROOF
<1> PICK p, s : p = pcb_find(m, name) /\ s = SetPriority(m, p, n)
  OBVIOUS
<1>0. "set pcb priority" \in commands
  BY DEF set_pcb_priority, Command
<1>1. At("comhand", "prompt")
  BY DEF set_pcb_priority, Command
<1>2. CASE Printed
  BY <1>1, <1>2, PrintedStep
<1>3. CASE /\ p # NULL /\ n \in 0..9
           /\ Requeued(IF m.pcb[p].exe_state = READY THEN pcb_insert(pcb_remove(s, p), p) ELSE s)
  <2>1. n \in Priority
    BY <1>3, KernelAssumption
  <2>2. PICK t \in queue_tag : \E k \in 1..Len(QueuesOf(m)[t]) : p = QueuesOf(m)[t][k]
    BY <1>1, <1>3, FoundPlace
  <2>3. PICK k \in 1..Len(QueuesOf(m)[t]) : p = QueuesOf(m)[t][k]
    BY <2>2
  <2>4. KernelInv' /\ PriorityOutcome(n)
    BY <1>1, <1>3, <2>3, PriorityStep
  <2>5. Goto("bottom") /\ live' = live /\ current_process' = current_process
    BY <1>3 DEF Requeued
  <2> QED
    BY <1>0, <1>1, <2>1, <2>4, <2>5, AfterCommand DEF CommandOutcome
<1>4. (p # NULL /\ (n \in 1..9 \/ (n = 0 /\ m.pcb[p].process_class = SYSTEM))) => n \in 0..9
  OBVIOUS
<1>5. IF p # NULL /\ (n \in 1..9 \/ (n = 0 /\ m.pcb[p].process_class = SYSTEM))
      THEN Requeued(IF m.pcb[p].exe_state = READY THEN pcb_insert(pcb_remove(s, p), p) ELSE s)
      ELSE Printed
  BY DEF set_pcb_priority, SetPriority
<1> QED
  BY <1>2, <1>3, <1>4, <1>5

\* The command "create pcb" keeps the invariant.
LEMMA CreateCommand ==
  ASSUME KernelInv, NEW name \in Name, NEW n \in Entered, NEW class \in {SYSTEM, USER},
         create_pcb(name, class, n), commands' = commands
  PROVE  KernelInv' /\ CommandOutcome
PROOF
<1>1. At("comhand", "prompt") /\ "create pcb" \in commands
  BY DEF create_pcb, Command
<1>2. CASE Printed
  BY <1>1, <1>2, PrintedStep
<1>3. ASSUME NEW p \in PCB, name \in LongName, n \in 0..9,
             Create(p, name, class, n, ZeroContext(p)), Goto("bottom"),
             UNCHANGED <<current_process, initial_context>>
      PROVE  KernelInv' /\ CommandOutcome
  <2>1. name \in ProcessName /\ n \in Priority
    BY <1>3, KernelAssumption DEF ProcessName
  <2>2. ZeroContext(p) \in ContextType
    BY GarbageFacts
  <2>3. Own(p, ZeroContext(p), commands)
    BY <1>1 DEF Own, ZeroContext, Context
  <2>4. /\ cpu.fn = "comhand" /\ cpu'.fn = "comhand" /\ cpu' # cpu
        /\ current_process = Comhand /\ current_process # NULL
        /\ cpu' \in ContextType /\ Own(current_process, cpu', commands)
    BY <1>1, <1>3, AfterCommand
  <2>5. ~At("kmain", "halt")
    BY <2>4 DEF At
  <2> PICK c : c = ZeroContext(p)
    OBVIOUS
  <2>6. Create(p, name, class, n, c) /\ c \in ContextType /\ Own(p, c, commands)
    BY <1>3, <2>2, <2>3
  <2>7. CreateOutcome(p, class, n) /\ KernelInv'
    BY <1>3, <2>1, <2>4, <2>5, <2>6, CreateStep
  <2> QED
    BY <1>1, <1>3, <2>1, <2>4, <2>7 DEF CommandOutcome
<1> QED
  BY <1>2, <1>3 DEF create_pcb

\* The command "load r3" keeps the invariant.
LEMMA LoadCommand ==
  ASSUME KernelInv, load_r3, commands' = commands
  PROVE  KernelInv' /\ CommandOutcome
PROOF
<1>1. cpu.fn = "comhand" /\ cpu.pc = "prompt"
  BY DEF load_r3, Command, At
<1>2. cpu \in ContextType /\ Own(current_process, cpu, commands)
  BY <1>1, CommandFacts
<1>3. cpu' = [cpu EXCEPT !.pc = "load", !.left = 1]
  BY DEF load_r3
<1>4. /\ cpu' \in ContextType /\ cpu'.pc = "load" /\ cpu'.left = 1
      /\ cpu'.fn = cpu.fn /\ cpu'.stack = cpu.stack
  BY <1>2, <1>3 DEF ContextType, Pc
<1>5. 1 \in 1..Len(R3)
  <2>1. R3 \in Seq([name : STRING, rc : Nat]) /\ R3 # << >>
    BY KernelAssumption
  <2>2. Len(R3) \in Nat /\ Len(R3) # 0
    BY <2>1, LenProperties, EmptySeq
  <2> QED
    BY <2>2
<1>6. Own(current_process, cpu', commands)
  BY <1>2, <1>4, <1>5 DEF Own
<1> QED
  BY <1>1, <1>4, <1>6, QuietStep DEF load_r3

\* Each process that "load r3" makes keeps the invariant.
LEMMA LoadStep ==
  ASSUME KernelInv, r3_load_pcb, commands' = commands
  PROVE  KernelInv' /\ CommandOutcome
PROOF
<1> PICK i : i = cpu.left
  OBVIOUS
<1>1. cpu.fn = "comhand" /\ cpu.pc = "load"
  BY DEF r3_load_pcb, At
<1>2. /\ cpu \in ContextType /\ Own(current_process, cpu, commands)
      /\ current_process = Comhand /\ current_process # NULL
  BY <1>1, CommandFacts
<1>3. R3 \in Seq([name : STRING, rc : Nat]) /\ Len(R3) \in Nat /\ DOMAIN R3 = 1..Len(R3)
  BY KernelAssumption, LenProperties
<1>4. i \in 1..Len(R3) /\ i \in Nat
  BY <1>1, <1>2, <1>3 DEF Own
<1>5. /\ cpu' \in ContextType /\ cpu'.fn = cpu.fn /\ cpu'.stack = cpu.stack
      /\ (cpu'.pc = "load" /\ cpu'.left = i + 1 /\ i < Len(R3)) \/ cpu'.pc = "bottom"
  <2>1. CASE i < Len(R3)
    <3>1. cpu' = [cpu EXCEPT !.left = i + 1]
      BY <2>1 DEF r3_load_pcb
    <3> QED
      BY <1>1, <1>2, <1>4, <2>1, <3>1 DEF ContextType
  <2>2. CASE ~(i < Len(R3))
    <3>1. cpu' = [cpu EXCEPT !.pc = "bottom", !.left = 0]
      BY <2>2 DEF r3_load_pcb
    <3> QED
      BY <1>2, <3>1 DEF ContextType, Pc
  <2> QED
    BY <2>1, <2>2
<1>6. Own(current_process, cpu', commands) /\ cpu' # cpu
  <2>1. cpu'.pc = "load" => cpu'.left \in 1..Len(R3) /\ cpu'.left # i
    BY <1>3, <1>4, <1>5
  <2> QED
    BY <1>1, <1>2, <1>5, <2>1 DEF Own
<1>7. CASE UNCHANGED <<m, live>>
  BY <1>1, <1>5, <1>6, <1>7, QuietStep DEF r3_load_pcb
<1>8. ASSUME NEW p \in PCB,
             Create(p, R3[i].name, USER, 3, Context(p, "r3", "loop", R3[i].rc))
      PROVE  KernelInv' /\ CommandOutcome
  <2> PICK c, name : c = Context(p, "r3", "loop", R3[i].rc) /\ name = R3[i].name
    OBVIOUS
  <2>1. R3[i] \in [name : STRING, rc : Nat]
    BY <1>3, <1>4, ElementOfSeq
  <2>2. c \in ContextType /\ c.stack = p /\ c.fn = "r3" /\ c.pc = "loop"
    BY <2>1 DEF Context, ContextType, Fn, Pc
  <2>3. /\ Idle \in live /\ p \notin live
    BY <1>2, <1>8, InvFacts DEF ProcessControl, Create
  <2>4. Own(p, c, commands)
    BY <2>2, <2>3 DEF Own
  <2>5. name \in ProcessName
    BY <1>3, <1>4 DEF ProcessName
  <2>6. 3 \in 0..9 /\ 3 \in Priority /\ USER \in {SYSTEM, USER}
    BY KernelAssumption
  <2>7. ~At("kmain", "halt")
    BY <1>1 DEF At
  <2>8. Create(p, name, USER, 3, c) /\ UNCHANGED <<current_process, initial_context, commands>>
    BY <1>8 DEF r3_load_pcb
  <2>9. CreateOutcome(p, USER, 3) /\ KernelInv'
    BY <1>2, <1>5, <1>6, <2>2, <2>4, <2>5, <2>6, <2>7, <2>8, CreateStep
  <2> QED
    BY <1>1, <1>2, <1>5, <1>6, <2>6, <2>8, <2>9 DEF CommandOutcome
<1> QED
  BY <1>7, <1>8 DEF r3_load_pcb

-----------------------------------------------------------------------------

(***************************************************************************)
(* Every step, and the invariant.                                          *)
(***************************************************************************)

\* The context a process leaves behind when it asks for IDLE is a new one, but
\* for the idle process.
YieldStepOutcome ==
  /\ current_process # NULL /\ live' = live
  /\ cpu.fn \in {"comhand", "idle", "r3"}
  /\ \E c \in ContextType : (cpu.fn # "idle" => c # cpu) /\ YieldOutcome(c)

ExitStepOutcome ==
  /\ current_process # NULL /\ current_process # Idle /\ cpu.fn # "kmain"
  /\ live' = live \ {current_process} /\ DispatchOutcome

StartOutcome ==
  /\ At("kmain", "idle") /\ current_process = NULL /\ Idle \in live
  /\ live' = live /\ DispatchOutcome

BootOutcome(pc, p, n, next) ==
  /\ At("kmain", pc) /\ At("kmain", next)'
  /\ current_process = NULL /\ current_process' = NULL
  /\ CreateOutcome(p, SYSTEM, n)

\* A step of the kernel, by what it does to the processes.
StepOutcome ==
  \/ live = {} /\ BootOutcome("create comhand", Comhand, 0, "create idle")
  \/ live = {Comhand} /\ BootOutcome("create idle", Idle, 9, "idle")
  \/ StartOutcome
  \/ YieldStepOutcome
  \/ ExitStepOutcome
  \/ CommandOutcome
  \/ UNCHANGED vars

\* kmain creates the command handler, ...
LEMMA CreateComhand ==
  ASSUME KernelInv, create_comhand_proc, commands' = commands
  PROVE  KernelInv' /\ StepOutcome
PROOF
<1> PICK c : c = Context(Comhand, "comhand", "top", 0)
  OBVIOUS
<1>1. /\ cpu.fn = "kmain" /\ cpu.pc = "create comhand" /\ cpu \in ContextType
      /\ cpu' = [cpu EXCEPT !.pc = "create idle"]
      /\ UNCHANGED <<current_process, initial_context, commands>>
      /\ Create(Comhand, "comhand", SYSTEM, 0, c)
  BY DEF create_comhand_proc, At, Goto, KernelInv, TypeOK
<1>2. KmainControl
  BY <1>1 DEF KernelInv, ProcessControl, Own
<1>3. /\ cpu' \in ContextType /\ cpu'.fn = "kmain" /\ cpu'.pc = "create idle"
      /\ cpu'.stack = NULL /\ cpu'.left = 0
  BY <1>1, <1>2 DEF ContextType, Pc, KmainControl
<1>4. /\ current_process = NULL /\ initial_context = NULL /\ live = {}
  BY <1>1, <1>2 DEF KmainControl
<1>5. c \in ContextType /\ Own(Comhand, c, commands)
  BY KernelAssumption DEF Context, ContextType, Fn, Pc, Own
<1>6. /\ ~At("kmain", "halt") /\ "comhand" \in ProcessName /\ 0 \in 0..9 /\ Comhand \in PCB
      /\ SYSTEM \in {SYSTEM, USER}
  BY <1>1, KernelAssumption DEF At, ProcessName
<1>7. live' = {Comhand}
  BY <1>1, <1>4 DEF Create
<1>8. KmainControl'
  BY <1>1, <1>3, <1>4, <1>7 DEF KmainControl
<1>9. CreateOutcome(Comhand, SYSTEM, 0) /\ KernelInv'
  BY <1>1, <1>3, <1>5, <1>6, <1>8, CreateStep
<1>10. BootOutcome("create comhand", Comhand, 0, "create idle")
  BY <1>1, <1>3, <1>4, <1>9 DEF BootOutcome, At
<1> QED
  BY <1>4, <1>9, <1>10 DEF StepOutcome

\* ... then the idle process.
LEMMA CreateIdle ==
  ASSUME KernelInv, create_system_idle_proc, commands' = commands
  PROVE  KernelInv' /\ StepOutcome
PROOF
<1> PICK c : c = Context(Idle, "idle", "loop", 0)
  OBVIOUS
<1>1. /\ cpu.fn = "kmain" /\ cpu.pc = "create idle" /\ cpu \in ContextType
      /\ cpu' = [cpu EXCEPT !.pc = "idle"]
      /\ UNCHANGED <<current_process, initial_context, commands>>
      /\ Create(Idle, "idle", SYSTEM, 9, c)
  BY DEF create_system_idle_proc, At, Goto, KernelInv, TypeOK
<1>2. KmainControl
  BY <1>1 DEF KernelInv, ProcessControl, Own
<1>3. /\ cpu' \in ContextType /\ cpu'.fn = "kmain" /\ cpu'.pc = "idle"
      /\ cpu'.stack = NULL /\ cpu'.left = 0
  BY <1>1, <1>2 DEF ContextType, Pc, KmainControl
<1>4. /\ current_process = NULL /\ initial_context = NULL /\ live = {Comhand}
  BY <1>1, <1>2 DEF KmainControl
<1>5. c \in ContextType /\ Own(Idle, c, commands)
  BY KernelAssumption DEF Context, ContextType, Fn, Pc, Own
<1>6. /\ ~At("kmain", "halt") /\ "idle" \in ProcessName /\ 9 \in 0..9 /\ Idle \in PCB
      /\ SYSTEM \in {SYSTEM, USER}
  BY <1>1, KernelAssumption DEF At, ProcessName
<1>7. CreateOutcome(Idle, SYSTEM, 9) /\ (KmainControl' => KernelInv')
  BY <1>1, <1>3, <1>5, <1>6, CreateStep
<1>8. Idle \in live' /\ m'.pcb[Idle].process_class = SYSTEM
  BY <1>7 DEF CreateOutcome
<1>9. KmainControl'
  BY <1>1, <1>3, <1>4, <1>8 DEF KmainControl
<1>10. BootOutcome("create idle", Idle, 9, "idle")
  BY <1>1, <1>3, <1>4, <1>7 DEF BootOutcome, At
<1> QED
  BY <1>4, <1>7, <1>9, <1>10 DEF StepOutcome

\* A context that differs from cpu only in how far it has come is still the
\* running process's own.
LEMMA YieldContext ==
  ASSUME KernelInv, cpu.fn # "kmain", NEW c \in ContextType, c.stack = cpu.stack, c.fn = cpu.fn,
         c.fn \in {"comhand", "idle", "r3"}, ~(c.fn = "comhand" /\ c.pc = "load"),
         cpu.fn # "idle" => c # cpu, sys_call_IDLE(c), commands' = commands
  PROVE  KernelInv' /\ StepOutcome
PROOF
<1>1. ProcessControl /\ live \subseteq PCB
  BY DEF KernelInv, KmainControl, TypeOK
<1>2. current_process # NULL /\ Own(current_process, cpu, commands)
  BY <1>1, KernelAssumption DEF ProcessControl
<1>3. Own(current_process, c, commands)
  BY <1>2 DEF Own
<1>4. KernelInv' /\ YieldOutcome(c) /\ live' = live
  BY <1>2, <1>3, YieldStep
<1> QED
  BY <1>2, <1>4 DEF StepOutcome, YieldStepOutcome

\* The requests of the processes: IDLE ...
LEMMA IdleRequest ==
  ASSUME KernelInv, commands' = commands,
         \/ sys_idle_process
         \/ comhand_yield
         \/ cpu.fn = "r3" /\ cpu.left > 0 /\ sys_call_IDLE([cpu EXCEPT !.left = @ - 1])
  PROVE  KernelInv' /\ StepOutcome
PROOF
<1>1. cpu \in ContextType
  BY DEF KernelInv, TypeOK
<1>2. CASE sys_idle_process
  <2>1. cpu.fn = "idle" /\ sys_call_IDLE(cpu)
    BY <1>2 DEF sys_idle_process
  <2> QED
    BY <1>1, <2>1, YieldContext
<1>3. ASSUME cpu.fn = "comhand", NEW pc \in {"prompt", "top"}, cpu.pc # pc,
             sys_call_IDLE([cpu EXCEPT !.pc = pc])
      PROVE  KernelInv' /\ StepOutcome
  <2> PICK c : c = [cpu EXCEPT !.pc = pc]
    OBVIOUS
  <2>1. /\ c \in ContextType /\ c.stack = cpu.stack /\ c.fn = cpu.fn /\ c.pc = pc
        /\ sys_call_IDLE(c)
    BY <1>1, <1>3 DEF ContextType, Pc
  <2>2. c # cpu /\ ~(c.fn = "comhand" /\ c.pc = "load")
    BY <1>3, <2>1
  <2> QED
    BY <1>3, <2>1, <2>2, YieldContext
<1>4. CASE cpu.fn = "r3" /\ cpu.left > 0 /\ sys_call_IDLE([cpu EXCEPT !.left = @ - 1])
  <2> PICK c : c = [cpu EXCEPT !.left = @ - 1]
    OBVIOUS
  <2>1. cpu.left \in Nat
    BY <1>1 DEF ContextType
  <2>2. cpu.left - 1 \in Nat /\ cpu.left - 1 # cpu.left
    BY <1>4, <2>1
  <2>3. /\ c \in ContextType /\ c.stack = cpu.stack /\ c.fn = cpu.fn /\ c.left = cpu.left - 1
        /\ sys_call_IDLE(c)
    BY <1>1, <1>4, <2>2 DEF ContextType
  <2>4. c # cpu /\ ~(c.fn = "comhand" /\ c.pc = "load")
    BY <1>4, <2>2, <2>3
  <2> QED
    BY <1>4, <2>3, <2>4, YieldContext
<1>5. CASE comhand_yield
  BY <1>3, <1>5 DEF comhand_yield, At
<1> QED
  BY <1>2, <1>4, <1>5

\* ... and EXIT.
LEMMA ExitRequest ==
  ASSUME KernelInv, commands' = commands, shutdown \/ (cpu.fn = "r3" /\ sys_call_EXIT)
  PROVE  KernelInv' /\ StepOutcome
PROOF
<1>1. cpu.fn \in {"comhand", "r3"} /\ sys_call_EXIT
  BY DEF shutdown, Command, At
<1>2. ProcessControl /\ live \subseteq PCB
  BY <1>1 DEF KernelInv, KmainControl, TypeOK
<1>3. current_process # NULL /\ current_process # Idle
  <2>1. current_process \in PCB /\ Own(current_process, cpu, commands)
    BY <1>2 DEF ProcessControl
  <2>2. NULL \notin PCB /\ Comhand # Idle
    BY KernelAssumption
  <2> QED
    BY <1>1, <2>1, <2>2 DEF Own
<1>4. KernelInv' /\ DispatchOutcome /\ live' = live \ {current_process}
  BY <1>1, <1>3, ExitStep
<1> QED
  BY <1>1, <1>3, <1>4 DEF StepOutcome, ExitStepOutcome

\* The invariant holds at the start ...
LEMMA InitInv == Init => KernelInv
PROOF
<1> SUFFICES ASSUME Init PROVE KernelInv
  OBVIOUS
<1> DEFINE Q == [t \in queue_tag |-> << >>]
<1>1. m.pcb = [p \in PCB |-> Garbage(p)] /\
      m.queue = [t \in queue_tag |-> [queue_head |-> NULL, queue_tail |-> NULL]]
  BY DEF Init
<1>2. m \in Memory
  <2>1. m.pcb \in [PCB -> PcbType]
    BY <1>1, GarbageFacts
  <2>2. m.queue \in [queue_tag -> QueueType]
    BY <1>1 DEF QueueType
  <2> QED
    BY <2>1, <2>2 DEF Init, Memory
<1>3. Q \in [queue_tag -> Seq(PCB)] /\ \A t \in queue_tag : Q[t] = << >> /\ Len(Q[t]) = 0
  OBVIOUS
<1> HIDE DEF Q
<1>4. \A t \in queue_tag : \A x : ~In(x, Q[t])
  BY <1>3 DEF In
<1>5. \A t \in queue_tag : Linked(m, t, Q[t])
  BY <1>1, <1>3 DEF Linked
<1>6. Queues(m, Q)
  <2>1. \A p \in PCB : m.pcb[p].next_pcbPtr = NULL /\ m.pcb[p].prev_pcbPtr = NULL
    BY <1>1, GarbageFacts
  <2> QED
    BY <1>3, <1>4, <1>5, <2>1 DEF Queues
<1>7. QueuesOf(m) = Q
  BY <1>6, QueuesRead
<1>8. Ordered(m, Q)
  BY <1>3 DEF Ordered, InOrder, OrderedTag, queue_tag, SUS_READY_QUEUE_TAG, READY_QUEUE_TAG
<1>9. Waiting(m, Q, live, commands)
  BY <1>4 DEF Waiting
<1>10. live = {} /\ current_process = NULL /\ initial_context = NULL
  BY DEF Init
<1>11. cpu = Context(NULL, "kmain", "create comhand", 0)
  BY DEF Init
<1>12. /\ cpu \in ContextType /\ cpu.stack = NULL /\ cpu.fn = "kmain" /\ cpu.left = 0
       /\ cpu.pc = "create comhand"
  BY <1>11 DEF Context, ContextType, Fn, Pc
<1>13. Sound(m, Q, live, commands) /\ SystemWaits(m, Q, live, current_process)
  BY <1>2, <1>6, <1>8, <1>9, <1>10 DEF Sound, SystemWaits
<1>14. KmainControl
  BY <1>10, <1>12 DEF KmainControl
<1> QED
  BY <1>2, <1>7, <1>10, <1>12, <1>13, <1>14 DEF KernelInv, TypeOK

\* ... and every step keeps it, and does one of the things of StepOutcome.
LEMMA NextInv == KernelInv /\ [Next]_vars => KernelInv' /\ StepOutcome
PROOF
<1> SUFFICES ASSUME KernelInv, [Next]_vars PROVE KernelInv' /\ StepOutcome
  OBVIOUS
<1>1. CASE UNCHANGED vars
  <2>1. KernelInv'
    BY <1>1 DEF vars, KernelInv, TypeOK, QueuesOf, KmainControl, ProcessControl, At
  <2> QED
    BY <1>1, <2>1 DEF StepOutcome
<1>2. CASE Next
  <2>1. commands' = commands
    BY <1>2 DEF Next
  <2>2. CASE create_comhand_proc
    BY <2>1, <2>2, CreateComhand
  <2>3. CASE create_system_idle_proc
    BY <2>1, <2>3, CreateIdle
  <2>4. CASE kmain_idle
    <3>1. KernelInv' /\ DispatchOutcome /\ live' = live
      BY <2>1, <2>4, StartStep
    <3>2. At("kmain", "idle")
      BY <2>4 DEF kmain_idle
    <3>3. KmainControl
      BY <3>2 DEF KernelInv, ProcessControl, Own, At
    <3>4. current_process = NULL /\ Idle \in live
      BY <3>2, <3>3 DEF KmainControl, At
    <3> QED
      BY <3>1, <3>2, <3>4 DEF StepOutcome, StartOutcome
  <2>5. CASE sys_idle_process \/ comhand_yield
    BY <2>1, <2>5, IdleRequest
  <2>6. CASE r3_proc
    BY <2>1, <2>6, IdleRequest, ExitRequest DEF r3_proc
  <2>7. CASE shutdown
    BY <2>1, <2>7, ExitRequest
  <2>8. CASE Stopped
    BY <1>1, <2>8 DEF Stopped
  <2>9. ASSUME NEW name \in Name,
               \/ delete_pcb(name) \/ block_pcb(name) \/ unblock_pcb(name)
               \/ suspend_pcb(name) \/ resume_pcb(name)
        PROVE  KernelInv' /\ CommandOutcome
    BY <2>1, <2>9, DeleteCommand, BlockCommand, SuspendCommand
  <2>10. ASSUME NEW name \in Name, NEW n \in Entered,
                \/ set_pcb_priority(name, n)
                \/ \E class \in {SYSTEM, USER} : create_pcb(name, class, n)
         PROVE  KernelInv' /\ CommandOutcome
    BY <2>1, <2>10, PriorityCommand, CreateCommand
  <2>11. ASSUME load_r3 \/ r3_load_pcb PROVE KernelInv' /\ CommandOutcome
    BY <2>1, <2>11, LoadCommand, LoadStep
  <2>12. ASSUME other_command PROVE KernelInv' /\ CommandOutcome
    BY <2>1, <2>12, PrintedStep DEF other_command, Command
  <2> QED
    BY <1>2, <2>2, <2>3, <2>4, <2>5, <2>6, <2>7, <2>8, <2>9, <2>10, <2>11, <2>12
    DEF Next, comhand, StepOutcome
<1> QED
  BY <1>1, <1>2

\* The invariant holds of every behaviour of the kernel.
THEOREM Invariance == Spec => []KernelInv
PROOF
<1>1. KernelInv /\ [Next]_vars => KernelInv'
  BY NextInv
<1> QED
  BY <1>1, InitInv, PTL DEF Spec

\* Every pointer of a PCB or a queue is NULL or a PCB, every context the CPU can
\* be given is one.
THEOREM TypeCorrect == Spec => []TypeOK
PROOF
<1>1. KernelInv => TypeOK
  BY DEF KernelInv
<1> QED
  BY <1>1, Invariance, PTL

(***************************************************************************)
(* What the invariant says.                                                *)
(***************************************************************************)

\* Read in either direction the four queues are the same lists without cycles,
\* each PCB is where its states say, and the running process has no links.
THEOREM QueuesSound == Spec => []QueuesWellFormed
PROOF
<1>1. KernelInv => QueuesWellFormed
  <2> SUFFICES ASSUME KernelInv PROVE ListsSound /\ PlacedByState
    BY DEF QueuesWellFormed
  <2> PICK Q : Q = QueuesOf(m)
    OBVIOUS
  <2>1. Queues(m, Q) /\ Waiting(m, Q, live, commands) /\ m \in Memory /\ live \subseteq PCB
    BY DEF KernelInv, Sound
  <2>2. ASSUME NEW t \in queue_tag
        PROVE  /\ QueueOf(m, t) = Q[t] /\ Linked(m, t, Q[t]) /\ Q[t] \in Seq(PCB)
               /\ Chain(prev_pcbPtr(m), m.queue[t].queue_tail) = Reversed(Q[t])
    <3>1. Linked(m, t, Q[t]) /\ Q[t] \in Seq(PCB)
      BY <2>1 DEF Queues
    <3> QED
      BY <3>1, QueueRead
  <2>3. ListsSound
    <3> SUFFICES ASSUME NEW t \in queue_tag, NEW q, q = QueueOf(m, t),
                        NEW b, b = Chain(prev_pcbPtr(m), m.queue[t].queue_tail)
                 PROVE  /\ Len(q) = Len(b)
                        /\ \A i \in DOMAIN q : q[i] = b[Len(q) + 1 - i]
                        /\ \A i, j \in DOMAIN q : q[i] = q[j] => i = j
      BY Zenon DEF ListsSound
    <3>0. b = Reversed(q) /\ q = Q[t]
      BY <2>2
    <3>1. Len(q) \in Nat /\ DOMAIN q = 1..Len(q) /\ q \in Seq(PCB)
      BY <2>2, <3>0, QueueFacts
    <3>2. \A i, j \in 1..Len(q) : q[i] = q[j] => i = j
      BY <2>2, <3>0 DEF Linked
    <3> PICK n : n = Len(q)
      OBVIOUS
    <3>3. \A i \in 1..n : n + 1 - i \in 1..n /\ n + 1 - (n + 1 - i) = i
      BY <3>1
    <3>4. Reversed(q) \in Seq(PCB) /\ Len(Reversed(q)) = n
      <4>1. Reversed(q) = [i \in 1..n |-> q[n + 1 - i]] /\ \A i \in 1..n : q[n + 1 - i] \in PCB
        BY <3>1, <3>3, QueueFacts DEF Reversed
      <4> QED
        BY <3>1, <4>1
    <3>5. \A i \in 1..n : Reversed(q)[n + 1 - i] = q[i]
      BY <3>3 DEF Reversed
    <3> QED
      BY <3>0, <3>1, <3>2, <3>4, <3>5
  <2>4. ASSUME NEW t \in queue_tag, NEW i \in DOMAIN QueueOf(m, t)
        PROVE  QueueOf(m, t)[i] \in live /\ queue_sel(m, QueueOf(m, t)[i]) = t
    <3>1. i \in 1..Len(Q[t]) /\ QueueOf(m, t)[i] = Q[t][i]
      BY <2>2, QueueFacts
    <3>2. In(Q[t][i], Q[t])
      BY <3>1 DEF In
    <3> QED
      BY <2>1, <3>1, <3>2 DEF Waiting
  <2>5. current_process # NULL =>
          m.pcb[current_process].next_pcbPtr = NULL /\ m.pcb[current_process].prev_pcbPtr = NULL
    <3> SUFFICES ASSUME current_process # NULL
                 PROVE  m.pcb[current_process].next_pcbPtr = NULL
                        /\ m.pcb[current_process].prev_pcbPtr = NULL
      OBVIOUS
    <3>1. current_process \in PCB /\ Unqueued(current_process, Q)
      BY <2>1, InvFacts DEF ProcessControl
    <3> QED
      BY <2>1, <3>1 DEF Queues
  <2> QED
    BY <2>3, <2>4, <2>5 DEF PlacedByState
<1> QED
  BY <1>1, Invariance, PTL

\* No process ever runs on the stack of another, and kmain's context is there
\* to return to as long as processes run.
THEOREM ContextsSeparate == Spec => []ContextsApart
PROOF
<1>1. KernelInv => ContextsApart
  <2> SUFFICES ASSUME KernelInv PROVE ContextsApart
    OBVIOUS
  <2> PICK Q : Q = QueuesOf(m)
    OBVIOUS
  <2>1. Queues(m, Q) /\ Waiting(m, Q, live, commands) /\ live \subseteq PCB
    BY DEF KernelInv, Sound
  <2>2. ASSUME NEW t \in queue_tag, NEW i \in DOMAIN QueueOf(m, t)
        PROVE  m.pcb[QueueOf(m, t)[i]].context.stack = QueueOf(m, t)[i]
    <3>1. QueueOf(m, t) = Q[t] /\ Q[t] \in Seq(PCB)
      BY <2>1 DEF QueuesOf, Queues
    <3>2. i \in 1..Len(Q[t]) /\ QueueOf(m, t)[i] = Q[t][i]
      BY <3>1, QueueFacts
    <3>3. In(Q[t][i], Q[t])
      BY <3>2 DEF In
    <3> QED
      BY <2>1, <3>2, <3>3 DEF Waiting, Own
  <2>3. CASE KmainControl
    BY <2>2, <2>3 DEF ContextsApart, KmainControl
  <2>4. CASE ProcessControl
    <3>1. current_process \in PCB /\ Own(current_process, cpu, commands)
      BY <2>1, <2>4 DEF ProcessControl
    <3>2. initial_context = KmainContext
      BY <2>4 DEF ProcessControl, KmainContext
    <3>3. initial_context # NULL /\ initial_context.fn = "kmain"
      BY <3>2, KmainContextFacts
    <3>4. current_process # NULL
      BY <3>1, KernelAssumption
    <3>5. cpu.stack = current_process /\ ("create pcb" \notin commands => cpu.fn # "none")
      BY <3>1 DEF Own
    <3> QED
      BY <2>2, <3>3, <3>4, <3>5 DEF ContextsApart
  <2> QED
    BY <2>3, <2>4 DEF KernelInv
<1> QED
  BY <1>1, Invariance, PTL

\* A process goes on where it gave up the CPU, whatever the others did.
THEOREM ContextNeverLost == Spec => ContextKept
PROOF
<1>1. ASSUME KernelInv, StepOutcome, ~(UNCHANGED vars), NEW p \in live \cap live'
      PROVE  IF p = current_process THEN cpu.fn # "idle" => Progress(p)' # Progress(p)
                                    ELSE Progress(p)' = Progress(p)
  <2>1. p \in PCB /\ p # NULL /\ NULL \notin PCB
    BY <1>1, KernelAssumption DEF KernelInv, TypeOK
  <2>2. /\ Progress(p) = IF p = current_process THEN cpu ELSE m.pcb[p].context
        /\ Progress(p)' = IF p = current_process' THEN cpu' ELSE m'.pcb[p].context
    BY DEF Progress
  <2>3. CASE \E pc, q, n, next : BootOutcome(pc, q, n, next)
    <3>1. PICK q : /\ current_process = NULL /\ current_process' = NULL
                   /\ q \notin live /\ \A x \in PCB : x # q => SameProcess(m, m', x)
      BY <2>3 DEF BootOutcome, CreateOutcome
    <3>2. SameProcess(m, m', p)
      BY <2>1, <3>1
    <3> QED
      BY <2>1, <2>2, <3>1, <3>2 DEF SameProcess
  <2>4. CASE StartOutcome \/ ExitStepOutcome
    <3>1. DispatchOutcome /\ p # current_process
      BY <2>1, <2>4 DEF StartOutcome, ExitStepOutcome
    <3>2. SameProcess(m, m', p) /\ cpu' = m.pcb[current_process'].context
      BY <3>1 DEF DispatchOutcome
    <3> QED
      BY <2>2, <3>1, <3>2 DEF SameProcess
  <2>5. CASE YieldStepOutcome
    <3>1. /\ current_process # NULL /\ cpu.fn \in {"comhand", "idle", "r3"}
      BY <2>5 DEF YieldStepOutcome
    <3>2. PICK c : (cpu.fn # "idle" => c # cpu) /\ YieldOutcome(c)
      BY <2>5 DEF YieldStepOutcome
    <3>3. CASE /\ current_process' # current_process /\ cpu' = m.pcb[current_process'].context
               /\ \A x \in PCB : x # current_process => SameProcess(m, m', x)
               /\ m'.pcb[current_process].context = c
      <4>1. CASE p = current_process
        BY <2>2, <3>2, <3>3, <4>1
      <4>2. CASE p # current_process
        <5>1. SameProcess(m, m', p)
          BY <2>1, <3>3, <4>2
        <5> QED
          BY <2>2, <3>3, <4>2, <5>1 DEF SameProcess
      <4> QED
        BY <4>1, <4>2
    <3>4. CASE current_process = Idle /\ m' = m /\ current_process' = NULL
      <4>1. Own(current_process, cpu, commands)
        BY <1>1, <3>1, InvFacts DEF ProcessControl
      <4>2. cpu.fn = "idle"
        BY <3>1, <3>4, <4>1, KernelAssumption DEF Own
      <4> QED
        BY <2>1, <2>2, <3>4, <4>2
    <3> QED
      BY <3>2, <3>3, <3>4 DEF YieldOutcome
  <2>6. CASE CommandOutcome
    <3>1. cpu' # cpu /\ current_process' = current_process
      BY <2>6 DEF CommandOutcome
    <3>2. CASE p = current_process
      BY <2>2, <3>1, <3>2
    <3>3. CASE p # current_process
      <4>1. m'.pcb[p].context = m.pcb[p].context
        <5>1. CASE MoveOutcome
          BY <2>1, <5>1 DEF MoveOutcome
        <5>2. CASE \E n \in Priority : PriorityOutcome(n)
          <6>1. PICK q : /\ \A x \in PCB : x # q => SameProcess(m, m', x)
                         /\ m'.pcb[q].context = m.pcb[q].context
            BY <5>2 DEF PriorityOutcome
          <6> QED
            BY <2>1, <6>1 DEF SameProcess
        <5>3. CASE DeleteOutcome
          <6>1. PICK q : live' = live \ {q} /\ \A x \in PCB : x # q => SameProcess(m, m', x)
            BY <5>3 DEF DeleteOutcome
          <6> QED
            BY <2>1, <6>1 DEF SameProcess
        <5>4. CASE \E q \in PCB, class \in {SYSTEM, USER}, n \in Priority : CreateOutcome(q, class, n)
          <6>1. PICK q : q \notin live /\ \A x \in PCB : x # q => SameProcess(m, m', x)
            BY <5>4 DEF CreateOutcome
          <6> QED
            BY <2>1, <6>1 DEF SameProcess
        <5>5. CASE UNCHANGED <<m, live>>
          BY <5>5
        <5> QED
          BY <2>6, <5>1, <5>2, <5>3, <5>4, <5>5 DEF CommandOutcome
      <4> QED
        BY <2>2, <3>1, <3>3, <4>1
    <3> QED
      BY <3>2, <3>3
  <2> QED
    BY <1>1, <2>3, <2>4, <2>5, <2>6 DEF StepOutcome
<1>2. KernelInv /\ [Next]_vars =>
        [\A p \in live \cap live' :
           IF p = current_process THEN cpu.fn # "idle" => Progress(p)' # Progress(p)
                                  ELSE Progress(p)' = Progress(p)]_vars
  BY <1>1, NextInv
<1> QED
  BY <1>2, Invariance, PTL DEF Spec, ContextKept

-----------------------------------------------------------------------------

(***************************************************************************)
(* Kernel implements Scheduler.                                            *)
(***************************************************************************)

\* The tables of Scheduler, read off memory mm.
ClassOf(mm, lv) == [p \in lv |-> mm.pcb[p].process_class]
PriorityOf(mm, lv) == [p \in lv |-> mm.pcb[p].process_priority]
Phase == IF cpu.fn # "kmain" THEN "running"
         ELSE IF cpu.pc = "halt" THEN "halted" ELSE "boot"

\* Both modules have the same operators on sequences, ...
LEMMA SameOperators ==
  /\ \A s, k, e : Abstract!InsertAt(s, k, e) = InsertAt(s, k, e)
  /\ \A s, k : Abstract!RemoveAt(s, k) = RemoveAt(s, k)
  BY DEF Abstract!InsertAt, InsertAt, Abstract!RemoveAt, RemoveAt

\* ... and taking out the first of a sequence leaves its tail.
LEMMA FirstRemoved ==
  ASSUME NEW q \in Seq(PCB), 1 \in 1..Len(q)
  PROVE  q # << >> /\ Head(q) = q[1] /\ Tail(q) = RemoveAt(q, 1)
PROOF
<1>1. Len(q) \in Nat /\ Len(q) >= 1
  <2>1. Len(q) \in Nat
    BY QueueFacts
  <2> QED
    BY <2>1
<1>2. q # << >>
  BY <1>1, EmptySeq
<1>3. Head(q) = q[1] /\ Tail(q) \in Seq(PCB) /\ Len(Tail(q)) = Len(q) - 1
      /\ \A i \in 1..(Len(q) - 1) : Tail(q)[i] = q[i + 1]
  BY <1>1, <1>2
<1>4. RemoveAt(q, 1) \in Seq(PCB) /\ Len(RemoveAt(q, 1)) = Len(q) - 1
      /\ \A i \in 1..(Len(q) - 1) : RemoveAt(q, 1)[i] = q[i + 1]
  <2>1. RemoveAt(q, 1) \in Seq(PCB) /\ Len(RemoveAt(q, 1)) = Len(q) - 1
        /\ \A i \in 1..(Len(q) - 1) : RemoveAt(q, 1)[i] = IF i < 1 THEN q[i] ELSE q[i + 1]
    BY RemoveAtIndex
  <2> QED
    BY <1>1, <2>1
<1>5. Tail(q) = RemoveAt(q, 1)
  BY <1>3, <1>4, SeqEqual
<1> QED
  BY <1>2, <1>3, <1>5

\* The slot enqueue finds is one the abstract order allows.
LEMMA SlotRefines ==
  ASSUME NEW mm, NEW lv, NEW t \in queue_tag, NEW q \in Seq(PCB), NEW p \in lv,
         \A x : In(x, q) => x \in lv, NEW k \in 1..(Len(q) + 1), Slot(mm, t, q, p, k)
  PROVE  InsertAt(q, k, p) \in Abstract!Enqueued(q, t, p, PriorityOf(mm, lv))
PROOF
<1> PICK f : f = PriorityOf(mm, lv)
  OBVIOUS
<1>1. \A x \in lv : f[x] = process_priority(mm, x)
  BY DEF PriorityOf, process_priority
<1>2. Len(q) \in Nat
  BY QueueFacts
<1>3. \A i \in 1..Len(q) : q[i] \in lv
  BY DEF In
<1>4. (\A i \in 1..(k - 1) : i \in 1..Len(q)) /\ (\A i \in k..Len(q) : i \in 1..Len(q))
  BY <1>2
<1>5. Abstract!IsSlot(q, t, p, f, k)
  BY <1>1, <1>3, <1>4 DEF Slot, Abstract!IsSlot, Abstract!ReadyTag, Abstract!SusReady,
     Abstract!Ready, SUS_READY_QUEUE_TAG, READY_QUEUE_TAG
<1> QED
  BY <1>5, SameOperators DEF Abstract!Enqueued

\* A queue of live PCBs.
LEMMA QueueLive ==
  ASSUME KernelInv, NEW t \in queue_tag
  PROVE  /\ QueuesOf(m) \in [queue_tag -> Seq(PCB)] /\ QueuesOf(m)[t] \in Seq(PCB)
         /\ \A x : In(x, QueuesOf(m)[t]) => x \in live
         /\ DOMAIN QueuesOf(m)[t] = 1..Len(QueuesOf(m)[t])
         /\ \A k \in 1..Len(QueuesOf(m)[t]) :
              /\ RemoveAt(QueuesOf(m)[t], k) \in Seq(PCB)
              /\ \A x : In(x, RemoveAt(QueuesOf(m)[t], k)) =>
                          In(x, QueuesOf(m)[t]) /\ x # QueuesOf(m)[t][k]
PROOF
<1> PICK Q : Q = QueuesOf(m)
  OBVIOUS
<1>1. Queues(m, Q) /\ Waiting(m, Q, live, commands)
  BY DEF KernelInv, Sound
<1>2. Q \in [queue_tag -> Seq(PCB)] /\ Q[t] \in Seq(PCB)
  BY <1>1 DEF Queues
<1>3. ASSUME NEW k \in 1..Len(Q[t])
      PROVE  /\ RemoveAt(Q[t], k) \in Seq(PCB)
             /\ \A x : In(x, RemoveAt(Q[t], k)) => In(x, Q[t]) /\ x # Q[t][k]
  <2>1. HasLeft(Q, Left(Q, t, k), t, k)
    BY <1>1, LeftMembers
  <2> PICK L : L = Left(Q, t, k)
    OBVIOUS
  <2>2. HasLeft(Q, L, t, k)
    BY <2>1
  <2>3. L[t] = RemoveAt(Q[t], k) /\ L[t] \in Seq(PCB)
    BY <2>2 DEF HasLeft
  <2>4. \A x : In(x, L[t]) => In(x, Q[t]) /\ x # Q[t][k]
    BY <2>2 DEF HasLeft
  <2> QED
    BY <2>3, <2>4
<1>4. \A x : In(x, Q[t]) => x \in live
  BY <1>1 DEF Waiting
<1>5. DOMAIN Q[t] = 1..Len(Q[t])
  BY <1>2, QueueFacts
<1> QED
  BY <1>2, <1>3, <1>4, <1>5

\* Initially there is no process.
LEMMA InitRefines == Init => Abstract!Init
PROOF
<1> SUFFICES ASSUME Init PROVE Abstract!Init
  OBVIOUS
<1>1. live = {} /\ current_process = NULL /\ cpu.fn = "kmain" /\ cpu.pc = "create comhand"
  BY DEF Init, Context
<1>2. KernelInv
  BY InitInv
<1>3. \A t \in queue_tag : QueuesOf(m)[t] = << >>
  <2> SUFFICES ASSUME NEW t \in queue_tag PROVE QueuesOf(m)[t] = << >>
    OBVIOUS
  <2> PICK q : q = QueuesOf(m)[t]
    OBVIOUS
  <2>1. q \in Seq(PCB) /\ \A x : In(x, q) => x \in live
    BY <1>2, QueueLive
  <2>2. Len(q) \in Nat
    BY <2>1, QueueFacts
  <2>3. Len(q) = 0
    <3>1. Len(q) # 0 => 1 \in 1..Len(q)
      BY <2>2
    <3>2. 1 \in 1..Len(q) => In(q[1], q)
      BY DEF In
    <3> QED
      BY <1>1, <2>1, <3>1, <3>2
  <2> QED
    BY <2>1, <2>3, EmptySeq
<1>4. QueuesOf(m) = [t \in queue_tag |-> << >>]
  BY <1>3 DEF QueuesOf
<1>5. ASSUME NEW f, DOMAIN f = {}, f = [x \in {} |-> f[x]] PROVE f = << >>
  <2>1. f \in [1..0 -> Nat]
    BY <1>5
  <2>2. f \in Seq(Nat) /\ Len(f) = 0
    BY <2>1
  <2> QED
    BY <2>2, EmptySeq
<1>6. ClassOf(m, live) = << >> /\ PriorityOf(m, live) = << >>
  <2> PICK c, n : c = ClassOf(m, live) /\ n = PriorityOf(m, live)
    OBVIOUS
  <2>1. c = [x \in {} |-> m.pcb[x].process_class] /\ n = [x \in {} |-> m.pcb[x].process_priority]
    BY <1>1 DEF ClassOf, PriorityOf
  <2>2. DOMAIN c = {} /\ c = [x \in {} |-> c[x]] /\ DOMAIN n = {} /\ n = [x \in {} |-> n[x]]
    BY <2>1
  <2> QED
    BY <1>5, <2>2
<1> QED
  BY <1>1, <1>4, <1>6
  DEF Abstract!Init, Abstract!Tag, queue_tag, QueuesOf, ClassOf, PriorityOf

\* A new process is admitted.
LEMMA AdmitRefines ==
  ASSUME KernelInv, NEW p \in PCB, NEW c, NEW n, CreateOutcome(p, c, n),
         current_process' = current_process, Phase' = Phase
  PROVE  Abstract!Admit(p, c, n)
PROOF
<1> PICK Q, t : Q = QueuesOf(m) /\ t = READY_QUEUE_TAG
  OBVIOUS
<1>1. /\ p \notin live /\ live' = live \cup {p}
      /\ \A x \in PCB : x # p => SameProcess(m, m', x)
      /\ m'.pcb[p].process_class = c /\ m'.pcb[p].process_priority = n
  BY DEF CreateOutcome
<1>2. PICK k \in 1..(Len(Q[t]) + 1) : /\ QueuesOf(m') = [Q EXCEPT ![t] = InsertAt(Q[t], k, p)]
                                     /\ Slot(m', t, Q[t], p, k)
  BY DEF CreateOutcome
<1>3. live \subseteq PCB /\ t \in queue_tag /\ t = Abstract!Ready
  BY DEF KernelInv, TypeOK, queue_tag, READY_QUEUE_TAG, Abstract!Ready
<1>4. ClassOf(m', live') = Abstract!With(ClassOf(m, live), p, c)
  <2>1. \A x \in live : m'.pcb[x].process_class = m.pcb[x].process_class
    BY <1>1, <1>3 DEF SameProcess
  <2> QED
    BY <1>1, <2>1 DEF ClassOf, Abstract!With
<1>5. PriorityOf(m', live') = Abstract!With(PriorityOf(m, live), p, n)
  <2>1. \A x \in live : m'.pcb[x].process_priority = m.pcb[x].process_priority
    BY <1>1, <1>3 DEF SameProcess
  <2> QED
    BY <1>1, <2>1 DEF PriorityOf, Abstract!With
<1>6. InsertAt(Q[t], k, p) \in Abstract!Enqueued(Q[t], t, p, PriorityOf(m', live'))
  <2>1. Q[t] \in Seq(PCB) /\ \A x : In(x, Q[t]) => x \in live
    BY <1>3, QueueLive
  <2>2. p \in live' /\ \A x : In(x, Q[t]) => x \in live'
    BY <1>1, <2>1
  <2> QED
    BY <1>2, <1>3, <2>1, <2>2, SlotRefines
<1>7. \E q \in Abstract!Enqueued(QueuesOf(m)[Abstract!Ready], Abstract!Ready, p, PriorityOf(m', live')) :
        QueuesOf(m') = [QueuesOf(m) EXCEPT ![Abstract!Ready] = q]
  BY <1>2, <1>3, <1>6
<1> QED
  BY <1>1, <1>4, <1>5, <1>7 DEF Abstract!Admit, QueuesOf, ClassOf, PriorityOf, Phase

\* A process changes its queue, ...
LEMMA MoveRefines ==
  ASSUME KernelInv, MoveOutcome, live' = live,
         current_process' = current_process, Phase' = Phase
  PROVE  \E t, u \in Abstract!Tag : \E k \in DOMAIN QueuesOf(m)[t] : Abstract!Move(t, k, u)
PROOF
<1> PICK Q : Q = QueuesOf(m)
  OBVIOUS
<1>1. PICK t \in queue_tag, u \in queue_tag :
        \E k \in 1..Len(Q[t]), j \in 1..(Len(Q[u]) + 1) :
          /\ u # t /\ m.pcb[Q[t][k]].process_class = USER /\ Q[t][k] \in live
          /\ QueuesOf(m') = [Q EXCEPT ![t] = RemoveAt(@, k), ![u] = InsertAt(Q[u], j, Q[t][k])]
          /\ Slot(m', u, Q[u], Q[t][k], j)
  BY DEF MoveOutcome
<1>2. PICK k \in 1..Len(Q[t]), j \in 1..(Len(Q[u]) + 1) :
          /\ u # t /\ m.pcb[Q[t][k]].process_class = USER /\ Q[t][k] \in live
          /\ QueuesOf(m') = [Q EXCEPT ![t] = RemoveAt(@, k), ![u] = InsertAt(Q[u], j, Q[t][k])]
          /\ Slot(m', u, Q[u], Q[t][k], j)
  BY <1>1
<1> PICK p : p = Q[t][k]
  OBVIOUS
<1>3. live \subseteq PCB
  BY DEF KernelInv, TypeOK
<1>4. ClassOf(m', live') = ClassOf(m, live) /\ PriorityOf(m', live') = PriorityOf(m, live)
  <2>1. \A x \in live : /\ m'.pcb[x].process_class = m.pcb[x].process_class
                       /\ m'.pcb[x].process_priority = m.pcb[x].process_priority
    BY <1>3 DEF MoveOutcome
  <2> QED
    BY <2>1 DEF ClassOf, PriorityOf
<1>5. ClassOf(m, live)[p] = Abstract!USER
  BY <1>2 DEF ClassOf, USER, Abstract!USER
<1>6. InsertAt(Q[u], j, p) \in Abstract!Enqueued(Q[u], u, p, PriorityOf(m, live))
  <2>1. Q[u] \in Seq(PCB) /\ \A x : In(x, Q[u]) => x \in live
    BY QueueLive
  <2>2. p \in live' /\ \A x : In(x, Q[u]) => x \in live'
    BY <1>2, <2>1
  <2>3. InsertAt(Q[u], j, p) \in Abstract!Enqueued(Q[u], u, p, PriorityOf(m', live'))
    BY <1>2, <2>1, <2>2, SlotRefines
  <2> QED
    BY <1>4, <2>3
<1>7. \E q \in Abstract!Enqueued(QueuesOf(m)[u], u, QueuesOf(m)[t][k], PriorityOf(m, live)) :
        QueuesOf(m') = [QueuesOf(m) EXCEPT ![t] = Abstract!RemoveAt(@, k), ![u] = q]
  BY <1>2, <1>6, SameOperators
<1>8. Abstract!Move(t, k, u)
  BY <1>2, <1>4, <1>5, <1>7 DEF Abstract!Move, QueuesOf, ClassOf, PriorityOf, Phase
<1>9. t \in Abstract!Tag /\ u \in Abstract!Tag /\ k \in DOMAIN QueuesOf(m)[t]
  BY QueueLive DEF queue_tag, Abstract!Tag
<1> QED
  BY <1>8, <1>9

\* ... gets another priority, ...
LEMMA PriorityRefines ==
  ASSUME KernelInv, NEW n, PriorityOutcome(n), live' = live,
         current_process' = current_process, Phase' = Phase
  PROVE  \E t \in Abstract!Tag : \E k \in DOMAIN QueuesOf(m)[t] : Abstract!Reprioritise(t, k, n)
PROOF
<1> PICK Q : Q = QueuesOf(m)
  OBVIOUS
<1>1. PICK t \in queue_tag : \E k \in 1..Len(Q[t]) :
        /\ Q[t][k] \in live
        /\ IF t \in OrderedTag
           THEN \E j \in 1..(Len(RemoveAt(Q[t], k)) + 1) :
                  /\ QueuesOf(m') = [Q EXCEPT ![t] = InsertAt(RemoveAt(Q[t], k), j, Q[t][k])]
                  /\ Slot(m', t, RemoveAt(Q[t], k), Q[t][k], j)
           ELSE QueuesOf(m') = Q
        /\ \A x \in PCB : x # Q[t][k] => SameProcess(m, m', x)
        /\ m'.pcb[Q[t][k]].process_class = m.pcb[Q[t][k]].process_class
        /\ m'.pcb[Q[t][k]].process_priority = n
  BY DEF PriorityOutcome
<1>2. PICK k \in 1..Len(Q[t]) :
        /\ Q[t][k] \in live
        /\ IF t \in OrderedTag
           THEN \E j \in 1..(Len(RemoveAt(Q[t], k)) + 1) :
                  /\ QueuesOf(m') = [Q EXCEPT ![t] = InsertAt(RemoveAt(Q[t], k), j, Q[t][k])]
                  /\ Slot(m', t, RemoveAt(Q[t], k), Q[t][k], j)
           ELSE QueuesOf(m') = Q
        /\ \A x \in PCB : x # Q[t][k] => SameProcess(m, m', x)
        /\ m'.pcb[Q[t][k]].process_class = m.pcb[Q[t][k]].process_class
        /\ m'.pcb[Q[t][k]].process_priority = n
  BY <1>1
<1> PICK p, rest : p = Q[t][k] /\ rest = RemoveAt(Q[t], k)
  OBVIOUS
<1>3. live \subseteq PCB
  BY DEF KernelInv, TypeOK
<1>4. ClassOf(m', live') = ClassOf(m, live)
  <2>1. \A x \in live : m'.pcb[x].process_class = m.pcb[x].process_class
    BY <1>2, <1>3 DEF SameProcess
  <2> QED
    BY <2>1 DEF ClassOf
<1>5. PriorityOf(m', live') = [PriorityOf(m, live) EXCEPT ![p] = n]
  <2>1. \A x \in live : x # p => m'.pcb[x].process_priority = m.pcb[x].process_priority
    BY <1>2, <1>3 DEF SameProcess
  <2> QED
    BY <1>2, <2>1 DEF PriorityOf
<1>6. t \in OrderedTag <=> t \in Abstract!ReadyTag
  BY DEF OrderedTag, SUS_READY_QUEUE_TAG, READY_QUEUE_TAG, Abstract!ReadyTag,
         Abstract!SusReady, Abstract!Ready
<1>7. ASSUME t \in OrderedTag
      PROVE  \E q \in Abstract!Enqueued(Abstract!RemoveAt(QueuesOf(m)[t], k), t,
                                        QueuesOf(m)[t][k], PriorityOf(m', live')) :
               QueuesOf(m') = [QueuesOf(m) EXCEPT ![t] = q]
  <2>1. PICK j \in 1..(Len(rest) + 1) :
          QueuesOf(m') = [Q EXCEPT ![t] = InsertAt(rest, j, p)] /\ Slot(m', t, rest, p, j)
    BY <1>2, <1>7
  <2>2. rest \in Seq(PCB) /\ \A x : In(x, rest) => x \in live
    BY QueueLive
  <2>3. p \in live' /\ \A x : In(x, rest) => x \in live'
    BY <1>2, <2>2
  <2>4. InsertAt(rest, j, p) \in Abstract!Enqueued(rest, t, p, PriorityOf(m', live'))
    BY <2>1, <2>2, <2>3, SlotRefines
  <2> QED
    BY <2>1, <2>4, SameOperators
<1>8. t \notin OrderedTag => QueuesOf(m') = QueuesOf(m)
  BY <1>2
<1>9. Abstract!Reprioritise(t, k, n)
  BY <1>4, <1>5, <1>6, <1>7, <1>8
  DEF Abstract!Reprioritise, QueuesOf, ClassOf, PriorityOf, Phase
<1>10. t \in Abstract!Tag /\ k \in DOMAIN QueuesOf(m)[t]
  BY QueueLive DEF queue_tag, Abstract!Tag
<1> QED
  BY <1>9, <1>10

\* The tables without the process that is gone.
LEMMA FreeRefines ==
  ASSUME live' \subseteq live, \A x \in live' : SameProcess(m, m', x)
  PROVE  /\ ClassOf(m', live') = Abstract!Restrict(ClassOf(m, live), live')
         /\ PriorityOf(m', live') = Abstract!Restrict(PriorityOf(m, live), live')
PROOF
<1>1. ClassOf(m', live') = Abstract!Restrict(ClassOf(m, live), live')
  <2>1. \A x \in live' : x \in live /\ m'.pcb[x].process_class = m.pcb[x].process_class
    BY DEF SameProcess
  <2> QED
    BY <2>1 DEF ClassOf, Abstract!Restrict
<1>2. PriorityOf(m', live') = Abstract!Restrict(PriorityOf(m, live), live')
  <2>1. \A x \in live' : x \in live /\ m'.pcb[x].process_priority = m.pcb[x].process_priority
    BY DEF SameProcess
  <2> QED
    BY <2>1 DEF PriorityOf, Abstract!Restrict
<1> QED
  BY <1>1, <1>2

\* ... or is deleted.
LEMMA DeleteRefines ==
  ASSUME KernelInv, DeleteOutcome, current_process' = current_process, Phase' = Phase
  PROVE  \E t \in Abstract!Tag : \E k \in DOMAIN QueuesOf(m)[t] : Abstract!Delete(t, k)
PROOF
<1> PICK Q : Q = QueuesOf(m)
  OBVIOUS
<1>1. PICK t \in queue_tag : \E k \in 1..Len(Q[t]) :
        /\ m.pcb[Q[t][k]].process_class = USER
        /\ Q[t][k] \in live /\ live' = live \ {Q[t][k]}
        /\ QueuesOf(m') = [Q EXCEPT ![t] = RemoveAt(@, k)]
        /\ \A x \in PCB : x # Q[t][k] => SameProcess(m, m', x)
  BY DEF DeleteOutcome
<1>2. PICK k \in 1..Len(Q[t]) :
        /\ m.pcb[Q[t][k]].process_class = USER
        /\ Q[t][k] \in live /\ live' = live \ {Q[t][k]}
        /\ QueuesOf(m') = [Q EXCEPT ![t] = RemoveAt(@, k)]
        /\ \A x \in PCB : x # Q[t][k] => SameProcess(m, m', x)
  BY <1>1
<1>3. live \subseteq PCB
  BY DEF KernelInv, TypeOK
<1>4. Abstract!Free(QueuesOf(m)[t][k])
  <2>1. \A x \in live' : SameProcess(m, m', x)
    BY <1>2, <1>3
  <2>2. /\ ClassOf(m', live') = Abstract!Restrict(ClassOf(m, live), live')
        /\ PriorityOf(m', live') = Abstract!Restrict(PriorityOf(m, live), live')
    BY <1>2, <2>1, FreeRefines
  <2> QED
    BY <1>2, <2>2 DEF Abstract!Free, ClassOf, PriorityOf
<1>5. ClassOf(m, live)[QueuesOf(m)[t][k]] = Abstract!USER
  BY <1>2 DEF ClassOf, USER, Abstract!USER
<1>6. QueuesOf(m') = [QueuesOf(m) EXCEPT ![t] = Abstract!RemoveAt(@, k)]
  BY <1>2, SameOperators
<1>7. Abstract!Delete(t, k)
  BY <1>4, <1>5, <1>6 DEF Abstract!Delete, QueuesOf, ClassOf, Phase
<1>8. t \in Abstract!Tag /\ k \in DOMAIN QueuesOf(m)[t]
  BY QueueLive DEF queue_tag, Abstract!Tag
<1> QED
  BY <1>7, <1>8

\* The head of the ready queue is dispatched.
LEMMA DispatchRefines ==
  ASSUME KernelInv, NEW q, q = QueuesOf(m)[READY_QUEUE_TAG], 1 \in 1..Len(q),
         current_process' = q[1], cpu'.fn # "kmain"
  PROVE  Abstract!Dispatch /\ Tail(q) = RemoveAt(q, 1)
PROOF
<1>1. READY_QUEUE_TAG \in queue_tag /\ READY_QUEUE_TAG = Abstract!Ready
  BY DEF READY_QUEUE_TAG, queue_tag, Abstract!Ready
<1>2. q \in Seq(PCB)
  BY <1>1, QueueLive
<1>3. q # << >> /\ Head(q) = q[1] /\ Tail(q) = RemoveAt(q, 1)
  BY <1>2, FirstRemoved
<1>4. QueuesOf(m)[Abstract!Ready] # << >> /\ current_process' = Head(QueuesOf(m)[Abstract!Ready])
  BY <1>1, <1>3
<1> QED
  BY <1>3, <1>4 DEF Abstract!Dispatch, QueuesOf

\* sys_call's IDLE is the abstract Yield, ...
LEMMA YieldRefines ==
  ASSUME KernelInv, YieldStepOutcome
  PROVE  Abstract!Yield
PROOF
<1> PICK Q, t, p, q, rest : /\ Q = QueuesOf(m) /\ t = READY_QUEUE_TAG /\ p = current_process
                            /\ q = Q[t] /\ rest = RemoveAt(q, 1)
  OBVIOUS
<1>1. t \in queue_tag /\ t = Abstract!Ready
  BY DEF READY_QUEUE_TAG, queue_tag, Abstract!Ready
<1>2. p # NULL /\ live' = live /\ Phase = "running" /\ live \subseteq PCB
  BY DEF YieldStepOutcome, Phase, KernelInv, TypeOK
<1>3. p \in live
  BY <1>2, InvFacts DEF ProcessControl
<1>4. PICK c : YieldOutcome(c)
  BY DEF YieldStepOutcome
<1>5. CASE /\ 1 \in 1..Len(q) /\ current_process' = q[1] /\ cpu'.fn # "kmain"
           /\ \E k \in 1..(Len(rest) + 1) : /\ QueuesOf(m') = [Q EXCEPT ![t] = InsertAt(rest, k, p)]
                                           /\ Slot(m', t, rest, p, k)
           /\ \A x \in PCB : x # p => SameProcess(m, m', x)
           /\ m'.pcb[p].process_class = m.pcb[p].process_class
           /\ m'.pcb[p].process_priority = m.pcb[p].process_priority
  <2>1. Abstract!Dispatch /\ Tail(q) = rest
    BY <1>5, DispatchRefines
  <2>2. \A x \in live : /\ m'.pcb[x].process_class = m.pcb[x].process_class
                       /\ m'.pcb[x].process_priority = m.pcb[x].process_priority
    BY <1>2, <1>5 DEF SameProcess
  <2>3. ClassOf(m', live') = ClassOf(m, live) /\ PriorityOf(m', live') = PriorityOf(m, live)
    BY <1>2, <2>2 DEF ClassOf, PriorityOf
  <2>4. PICK k \in 1..(Len(rest) + 1) : /\ QueuesOf(m') = [Q EXCEPT ![t] = InsertAt(rest, k, p)]
                                       /\ Slot(m', t, rest, p, k)
    BY <1>5
  <2>5. rest \in Seq(PCB) /\ \A x : In(x, rest) => x \in live
    BY <1>1, <1>5, QueueLive
  <2>6. p \in live' /\ \A x : In(x, rest) => x \in live'
    BY <1>2, <1>3, <2>5
  <2>7. InsertAt(rest, k, p) \in Abstract!Enqueued(rest, t, p, PriorityOf(m', live'))
    BY <1>1, <2>4, <2>5, <2>6, SlotRefines
  <2>8. \E s \in Abstract!Enqueued(Tail(QueuesOf(m)[Abstract!Ready]), Abstract!Ready,
                                   current_process, PriorityOf(m, live)) :
          QueuesOf(m') = [QueuesOf(m) EXCEPT ![Abstract!Ready] = s]
    BY <1>1, <2>1, <2>3, <2>4, <2>7
  <2> QED
    BY <1>2, <2>1, <2>3, <2>8 DEF Abstract!Yield, QueuesOf, ClassOf, PriorityOf, Phase
<1>6. CASE q = << >> /\ m' = m /\ current_process' = NULL /\ cpu' = KmainContext
  <2>1. QueuesOf(m)[Abstract!Ready] = << >> /\ Phase' = "halted"
    BY <1>1, <1>6, KmainContextFacts DEF Phase
  <2>2. Abstract!ReturnToKmain
    BY <1>6, <2>1 DEF Abstract!ReturnToKmain, QueuesOf, Phase
  <2> QED
    BY <1>2, <1>6, <2>2 DEF Abstract!Yield, Phase
<1> QED
  BY <1>4, <1>5, <1>6 DEF YieldOutcome

\* ... EXIT the abstract Exit, ...
LEMMA ExitRefines ==
  ASSUME KernelInv, ExitStepOutcome
  PROVE  Abstract!Exit
PROOF
<1> PICK Q, t, q : Q = QueuesOf(m) /\ t = READY_QUEUE_TAG /\ q = Q[t]
  OBVIOUS
<1>1. /\ current_process # Idle /\ Phase = "running" /\ live' = live \ {current_process}
      /\ DispatchOutcome
  BY DEF ExitStepOutcome, Phase
<1>2. /\ 1 \in 1..Len(q) /\ current_process' = q[1] /\ cpu'.fn # "kmain"
      /\ QueuesOf(m') = [Q EXCEPT ![t] = RemoveAt(q, 1)]
      /\ \A x \in live' : SameProcess(m, m', x)
  BY <1>1 DEF DispatchOutcome
<1>3. Abstract!Dispatch /\ Tail(q) = RemoveAt(q, 1)
  BY <1>2, DispatchRefines
<1>4. QueuesOf(m') = [QueuesOf(m) EXCEPT ![Abstract!Ready] = Tail(@)]
  BY <1>2, <1>3 DEF READY_QUEUE_TAG, Abstract!Ready
<1>5. Abstract!Free(current_process)
  <2>1. /\ ClassOf(m', live') = Abstract!Restrict(ClassOf(m, live), live')
        /\ PriorityOf(m', live') = Abstract!Restrict(PriorityOf(m, live), live')
    BY <1>1, <1>2, FreeRefines
  <2> QED
    BY <1>1, <2>1 DEF Abstract!Free, ClassOf, PriorityOf
<1> QED
  BY <1>1, <1>3, <1>4, <1>5 DEF Abstract!Exit, QueuesOf, Phase

\* ... and kmain's request the abstract Start.
LEMMA StartRefines ==
  ASSUME KernelInv, StartOutcome
  PROVE  Abstract!Start
PROOF
<1> PICK Q, t, q : Q = QueuesOf(m) /\ t = READY_QUEUE_TAG /\ q = Q[t]
  OBVIOUS
<1>1. Idle \in live /\ Phase = "boot" /\ live' = live /\ DispatchOutcome
  BY DEF StartOutcome, Phase, At
<1>2. /\ 1 \in 1..Len(q) /\ current_process' = q[1] /\ cpu'.fn # "kmain"
      /\ QueuesOf(m') = [Q EXCEPT ![t] = RemoveAt(q, 1)]
      /\ \A x \in live : SameProcess(m, m', x)
  BY <1>1 DEF DispatchOutcome
<1>3. Abstract!Dispatch /\ Tail(q) = RemoveAt(q, 1)
  BY <1>2, DispatchRefines
<1>4. QueuesOf(m') = [QueuesOf(m) EXCEPT ![Abstract!Ready] = Tail(@)]
  BY <1>2, <1>3 DEF READY_QUEUE_TAG, Abstract!Ready
<1>5. ClassOf(m', live') = ClassOf(m, live) /\ PriorityOf(m', live') = PriorityOf(m, live)
  BY <1>1, <1>2 DEF ClassOf, PriorityOf, SameProcess
<1> QED
  BY <1>1, <1>3, <1>4, <1>5 DEF Abstract!Start, QueuesOf, ClassOf, PriorityOf, Phase

\* Every step of the kernel is a step of the scheduler, or none at all.
LEMMA NextRefines ==
  ASSUME KernelInv, StepOutcome
  PROVE  Abstract!Next \/ UNCHANGED Abstract!vars
PROOF
<1>1. ASSUME NEW pc \in {"create comhand", "create idle"}, NEW p \in PCB, NEW n,
             NEW next \in {"create idle", "idle"}, BootOutcome(pc, p, n, next)
      PROVE  Phase = "boot" /\ Abstract!Admit(p, Abstract!SYSTEM, n)
  <2>1. Phase = "boot" /\ Phase' = "boot" /\ current_process' = current_process
    BY <1>1 DEF BootOutcome, Phase, At
  <2>2. CreateOutcome(p, SYSTEM, n) /\ SYSTEM = Abstract!SYSTEM
    BY <1>1 DEF BootOutcome, SYSTEM, Abstract!SYSTEM
  <2>3. Abstract!Admit(p, SYSTEM, n)
    BY <2>1, <2>2, AdmitRefines
  <2> QED
    BY <2>1, <2>2, <2>3
<1>2. {0, 9} \subseteq Priority /\ Comhand \in PCB /\ Idle \in PCB
  BY KernelAssumption
<1>3. CASE live = {} /\ BootOutcome("create comhand", Comhand, 0, "create idle")
  <2>1. Phase = "boot" /\ Abstract!Admit(Comhand, Abstract!SYSTEM, 0)
    BY <1>1, <1>2, <1>3
  <2>2. Abstract!Boot
    BY <1>2, <1>3, <2>1 DEF Abstract!Boot, Phase
  <2> QED
    BY <2>2 DEF Abstract!Next
<1>4. CASE live = {Comhand} /\ BootOutcome("create idle", Idle, 9, "idle")
  <2>1. Phase = "boot" /\ Abstract!Admit(Idle, Abstract!SYSTEM, 9)
    BY <1>1, <1>2, <1>4
  <2>2. Abstract!Boot
    BY <1>2, <1>4, <2>1 DEF Abstract!Boot, Phase
  <2> QED
    BY <2>2 DEF Abstract!Next
<1>5. CASE StartOutcome
  BY <1>5, StartRefines DEF Abstract!Next
<1>6. CASE YieldStepOutcome
  BY <1>6, YieldRefines DEF Abstract!Next
<1>7. CASE ExitStepOutcome
  BY <1>7, ExitRefines DEF Abstract!Next
<1>8. CASE CommandOutcome
  <2>1. /\ Phase = "running" /\ Phase' = Phase /\ current_process = Comhand
        /\ current_process' = current_process
    BY <1>8 DEF CommandOutcome, Phase
  <2>2. CASE UNCHANGED <<m, live>>
    BY <2>1, <2>2 DEF Abstract!vars, Phase
  <2>3. ASSUME Abstract!Load \/ \E t \in Abstract!Tag : \E k \in DOMAIN QueuesOf(m)[t] :
                 \/ \E u \in Abstract!Tag : Abstract!Move(t, k, u)
                 \/ \E n \in Priority : Abstract!Reprioritise(t, k, n)
                 \/ Abstract!Delete(t, k)
        PROVE  Abstract!Next
    <3>1. Abstract!Command
      BY <2>1, <2>3 DEF Abstract!Command, QueuesOf, Phase
    <3> QED
      BY <3>1 DEF Abstract!Next
  <2>4. CASE live' = live /\ MoveOutcome
    BY <2>1, <2>3, <2>4, MoveRefines
  <2>5. ASSUME live' = live, NEW n \in Priority, PriorityOutcome(n)
        PROVE  Abstract!Next
    BY <2>1, <2>3, <2>5, PriorityRefines
  <2>6. CASE DeleteOutcome
    BY <2>1, <2>3, <2>6, DeleteRefines
  <2>7. ASSUME NEW p \in PCB, NEW class \in {SYSTEM, USER}, NEW n \in Priority,
               CreateOutcome(p, class, n)
        PROVE  Abstract!Next
    <3>1. Abstract!Admit(p, class, n)
      BY <2>1, <2>7, AdmitRefines
    <3>2. class \in {Abstract!SYSTEM, Abstract!USER}
      BY DEF SYSTEM, USER, Abstract!SYSTEM, Abstract!USER
    <3>3. Abstract!Load
      BY <3>1, <3>2 DEF Abstract!Load
    <3> QED
      BY <2>3, <3>3
  <2> QED
    BY <1>8, <2>2, <2>4, <2>5, <2>6, <2>7 DEF CommandOutcome
<1>9. CASE UNCHANGED vars
  BY <1>9 DEF vars, Abstract!vars
<1> QED
  BY <1>3, <1>4, <1>5, <1>6, <1>7, <1>8, <1>9 DEF StepOutcome

\* The linked queues of pcb.c, under sys_call and all the commands, implement
\* the scheduler: its queues are theirs, read from head to tail.
THEOREM ImplementsScheduler == Spec => Implements
PROOF
<1>1. KernelInv /\ [Next]_vars => Abstract!Next \/ UNCHANGED Abstract!vars
  BY NextInv, NextRefines
<1> QED
  BY <1>1, InitRefines, Invariance, PTL DEF Spec, Implements, Abstract!Spec

-----------------------------------------------------------------------------

(***************************************************************************)
(* The idle process is dispatched last.                                    *)
(***************************************************************************)

\* Unless set_pcb_priority is offered, the idle process and no other live
\* process has priority 9, the last there is.
IdleBehind ==
  "set pcb priority" \notin commands =>
    \A x \in live : m.pcb[x].process_priority = 9 <=> x = Idle

\* In a list in order, what is behind a PCB of priority 9 has priority 9.
LEMMA LastPriority ==
  ASSUME NEW mm \in Memory, NEW q \in Seq(PCB), InOrder(mm, q), NEW i \in 1..Len(q),
         mm.pcb[q[1]].process_priority = 9
  PROVE  mm.pcb[q[i]].process_priority = 9
PROOF
<1>1. Len(q) \in Nat
  BY LenProperties
<1>2. 1 \in 1..Len(q) /\ 1 <= i
  BY <1>1
<1>3. q[i] \in PCB
  BY ElementOfSeq
<1>4. process_priority(mm, q[1]) <= process_priority(mm, q[i])
  BY <1>2 DEF InOrder
<1> PICK a, b : a = mm.pcb[q[1]].process_priority /\ b = mm.pcb[q[i]].process_priority
  OBVIOUS
<1>5. b \in 0..9
  BY <1>3 DEF Memory, PcbType
<1>6. a = 9 /\ a <= b
  BY <1>4 DEF process_priority
<1>7. b = 9
  BY ONLY <1>5, <1>6
<1> QED
  BY <1>7

\* The ready queue is one of those that are in order.
LEMMA ReadyOrdered == READY_QUEUE_TAG \in queue_tag /\ READY_QUEUE_TAG \in OrderedTag
  BY DEF READY_QUEUE_TAG, SUS_READY_QUEUE_TAG, queue_tag, OrderedTag

\* The head of the ready queue is the idle process only if that is all there is.
LEMMA IdleAlone ==
  ASSUME KernelInv, IdleBehind, "set pcb priority" \notin commands,
         NEW q, q = QueuesOf(m)[READY_QUEUE_TAG], 1 \in 1..Len(q), q[1] = Idle
  PROVE  \A i \in DOMAIN QueueOf(m, READY_QUEUE_TAG) : QueueOf(m, READY_QUEUE_TAG)[i] = Idle
PROOF
<1>1. READY_QUEUE_TAG \in queue_tag /\ READY_QUEUE_TAG \in OrderedTag
  BY ReadyOrdered
<1>2. q = QueueOf(m, READY_QUEUE_TAG) /\ q \in Seq(PCB) /\ \A x : In(x, q) => x \in live
  BY <1>1, QueueLive DEF QueuesOf
<1>3. Len(q) \in Nat /\ DOMAIN q = 1..Len(q)
  BY <1>2, LenProperties
<1>4. InOrder(m, q) /\ m \in Memory /\ live \subseteq PCB
  BY <1>1 DEF KernelInv, Sound, Ordered
<1>5. ASSUME NEW i \in 1..Len(q) PROVE q[i] = Idle
  <2>1. q[1] \in live /\ q[i] \in live
    BY <1>2, <1>3 DEF In
  <2>2. m.pcb[q[1]].process_priority = 9
    BY <2>1 DEF IdleBehind
  <2>3. m.pcb[q[i]].process_priority = 9
    BY <1>2, <1>4, <2>2, LastPriority
  <2> QED
    BY <2>1, <2>3 DEF IdleBehind
<1> QED
  BY <1>2, <1>3, <1>5

\* Whoever comes, comes with a priority in front of the idle process's.
LEMMA CreateBehind ==
  ASSUME KernelInv, IdleBehind, commands' = commands, NEW p \in PCB, NEW class, NEW n,
         CreateOutcome(p, class, n), n = 9 <=> p = Idle
  PROVE  IdleBehind'
PROOF
<1>1. /\ live' = live \cup {p} /\ p \notin live /\ live \subseteq PCB
      /\ m'.pcb[p].process_priority = n
      /\ \A x \in PCB : x # p => SameProcess(m, m', x)
  BY DEF CreateOutcome, KernelInv, TypeOK
<1>2. \A x \in live : m'.pcb[x].process_priority = m.pcb[x].process_priority
  BY <1>1 DEF SameProcess
<1> QED
  BY <1>1, <1>2 DEF IdleBehind

\* A step that brings nobody and leaves the priorities alone.
LEMMA BehindKept ==
  ASSUME IdleBehind, commands' = commands, live' \subseteq live,
         \A x \in live' : m'.pcb[x].process_priority = m.pcb[x].process_priority
  PROVE  IdleBehind'
  BY DEF IdleBehind

\* Commands keep it that way ...
LEMMA CommandBehind ==
  ASSUME IdleUnrivalled, KernelInv, IdleBehind, commands \in Offers, commands' = commands,
         CommandOutcome
  PROVE  IdleBehind'
PROOF
<1>1. live \subseteq PCB
  BY DEF KernelInv, TypeOK
<1>2. CASE live' = live /\ MoveOutcome
  <2>1. \A x \in PCB : m'.pcb[x].process_priority = m.pcb[x].process_priority
    BY <1>2 DEF MoveOutcome
  <2> QED
    BY <1>1, <1>2, <2>1, BehindKept
<1>3. CASE "set pcb priority" \in commands
  BY <1>3 DEF IdleBehind
<1>4. CASE DeleteOutcome
  <2>1. PICK q : live' = live \ {q} /\ \A x \in PCB : x # q => SameProcess(m, m', x)
    BY <1>4 DEF DeleteOutcome
  <2>2. \A x \in live' : m'.pcb[x].process_priority = m.pcb[x].process_priority
    BY <1>1, <2>1 DEF SameProcess
  <2> QED
    BY <2>1, <2>2, BehindKept
<1>5. ASSUME NEW p \in PCB, NEW class \in {SYSTEM, USER}, NEW n \in Priority,
             CreateOutcome(p, class, n),
             n = 3 \/ ("create pcb" \in commands /\ n \in Entered),
             "set pcb priority" \notin commands
      PROVE  IdleBehind'
  <2>1. n # 9
    <3>1. CASE n = 3
      BY <3>1
    <3>2. ASSUME n = 9, "create pcb" \in commands, n \in Entered PROVE FALSE
      BY <1>5, <3>2 DEF IdleUnrivalled
    <3> QED
      BY <1>5, <3>1, <3>2
  <2>2. current_process = Comhand /\ Comhand # NULL
    BY KernelAssumption DEF CommandOutcome
  <2>3. Idle \in live
    BY <2>2, InvFacts DEF ProcessControl
  <2>4. p # Idle
    BY <1>5, <2>3 DEF CreateOutcome
  <2> QED
    BY <1>5, <2>1, <2>4, CreateBehind
<1>6. CASE UNCHANGED <<m, live>>
  BY <1>6 DEF IdleBehind
<1> QED
  BY <1>2, <1>3, <1>4, <1>5, <1>6 DEF CommandOutcome

\* ... and so does every step.
LEMMA NextBehind ==
  ASSUME IdleUnrivalled, KernelInv, IdleBehind, commands \in Offers, commands' = commands,
         StepOutcome
  PROVE  IdleBehind'
PROOF
<1>1. live \subseteq PCB /\ Comhand \in PCB /\ Idle \in PCB /\ Comhand # Idle
  BY KernelAssumption DEF KernelInv, TypeOK
<1>2. CASE BootOutcome("create comhand", Comhand, 0, "create idle")
  <2>1. CreateOutcome(Comhand, SYSTEM, 0)
    BY <1>2 DEF BootOutcome
  <2> QED
    BY <1>1, <2>1, 0 # 9, CreateBehind
<1>3. CASE BootOutcome("create idle", Idle, 9, "idle")
  <2>1. CreateOutcome(Idle, SYSTEM, 9)
    BY <1>3 DEF BootOutcome
  <2> QED
    BY <1>1, <2>1, CreateBehind
<1>4. CASE StartOutcome \/ ExitStepOutcome
  <2>1. live' \subseteq live /\ \A x \in live' : SameProcess(m, m', x)
    BY <1>4 DEF StartOutcome, ExitStepOutcome, DispatchOutcome
  <2> QED
    BY <2>1, BehindKept DEF SameProcess
<1>5. CASE YieldStepOutcome
  <2>1. live' = live /\ \E c : YieldOutcome(c)
    BY <1>5 DEF YieldStepOutcome
  <2>2. \A x \in live : m'.pcb[x].process_priority = m.pcb[x].process_priority
    BY <1>1, <2>1 DEF YieldOutcome, SameProcess
  <2> QED
    BY <2>1, <2>2, BehindKept
<1>6. CASE CommandOutcome
  BY <1>6, CommandBehind
<1>7. CASE UNCHANGED vars
  BY <1>7 DEF vars, IdleBehind
<1> QED
  BY <1>2, <1>3, <1>4, <1>5, <1>6, <1>7 DEF StepOutcome

\* sys_call dispatches the idle process only when no other process was ready,
\* for any test processes and commands, as long as nobody is given its priority.
THEOREM IdleDispatchedLast == ASSUME IdleUnrivalled PROVE Spec => IdleLast
PROOF
<1> DEFINE Behind == IdleBehind /\ commands \in Offers
<1>1. Init => Behind
  BY DEF Init, IdleBehind
<1>2. KernelInv /\ Behind /\ [Next]_vars => Behind'
  <2> SUFFICES ASSUME KernelInv, Behind, [Next]_vars PROVE Behind'
    OBVIOUS
  <2>1. commands' = commands /\ StepOutcome
    BY NextInv DEF Next, vars
  <2> QED
    BY <2>1, NextBehind
<1>3. ASSUME KernelInv, Behind, StepOutcome, ~(UNCHANGED vars), current_process' = Idle,
             "set pcb priority" \notin commands
      PROVE  \A i \in DOMAIN QueueOf(m, READY_QUEUE_TAG) : QueueOf(m, READY_QUEUE_TAG)[i] = Idle
  <2>1. Idle # NULL /\ Idle # Comhand
    BY KernelAssumption
  <2>2. CASE \E q : /\ q = QueuesOf(m)[READY_QUEUE_TAG] /\ 1 \in 1..Len(q)
                    /\ current_process' = q[1]
    BY <1>3, <2>2, IdleAlone
  <2>3. CASE StartOutcome \/ ExitStepOutcome
    BY <2>2, <2>3 DEF StartOutcome, ExitStepOutcome, DispatchOutcome
  <2>4. CASE YieldStepOutcome
    BY <1>3, <2>1, <2>2, <2>4 DEF YieldStepOutcome, YieldOutcome
  <2>5. CASE CommandOutcome
    BY <1>3, <2>1, <2>5 DEF CommandOutcome
  <2>6. CASE \E pc, p, n, next : BootOutcome(pc, p, n, next)
    BY <1>3, <2>1, <2>6 DEF BootOutcome
  <2> QED
    BY <1>3, <2>3, <2>4, <2>5, <2>6 DEF StepOutcome
<1>4. KernelInv /\ Behind /\ [Next]_vars =>
        [current_process' = Idle /\ "set pcb priority" \notin commands =>
           \A i \in DOMAIN QueueOf(m, READY_QUEUE_TAG) :
             QueueOf(m, READY_QUEUE_TAG)[i] = Idle]_vars
  BY <1>3, NextInv
<1> HIDE DEF Behind
<1> QED
  BY <1>1, <1>2, <1>4, Invariance, PTL DEF Spec, IdleLast

=============================================================================
