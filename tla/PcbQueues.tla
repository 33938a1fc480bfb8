----------------------------- MODULE PcbQueues -----------------------------
(***************************************************************************)
(* kernel/pcb.c: the four process queues as doubly linked lists of PCBs.   *)
(* Every operator takes the memory m and returns what the function of the  *)
(* same name returns, or the memory it leaves:                             *)
(*   m.pcb[p]   - the fields of the PCB p points to;                       *)
(*   m.queue[t] - queue_head and queue_tail of the queue with tag t.       *)
(***************************************************************************)
EXTENDS Integers, LinkedLists

CONSTANT PCB   \* the PCBs the heap can hold

\* enum queue_tag, execution_state, dispatching_state and class_type.
SUS_READY_QUEUE_TAG == 0
READY_QUEUE_TAG == 1
SUS_BLOCKED_QUEUE_TAG == 2
BLOCKED_QUEUE_TAG == 3
queue_tag == 0..3
READY == 0
BLOCKED == 2
SUSPENDED == 0
NOT_SUSPENDED == 1
SYSTEM == 0
USER == 1

-----------------------------------------------------------------------------

\* The links of every PCB, and NULL at the end of a list.
next_pcbPtr(m) == [p \in PCB \cup {NULL} |-> IF p = NULL THEN NULL ELSE m.pcb[p].next_pcbPtr]
prev_pcbPtr(m) == [p \in PCB \cup {NULL} |-> IF p = NULL THEN NULL ELSE m.pcb[p].prev_pcbPtr]

process_priority(m, p) == m.pcb[p].process_priority

\* Queue t, first to last.
QueueOf(m, t) == Chain(next_pcbPtr(m), m.queue[t].queue_head)

-----------------------------------------------------------------------------

search_queue(m, to_find, t) ==
  FirstOf(next_pcbPtr(m), m.queue[t].queue_head,
          {p \in PCB : m.pcb[p].process_name = to_find})

\* enqueue, by the branch that links to_add: into an empty queue, ...
EnqueueEmpty(m, p, t) ==
  [m EXCEPT !.queue[t] = [queue_head |-> p, queue_tail |-> p]]

\* ... in front of the head, ...
EnqueueHead(m, p, t) ==
  LET head == m.queue[t].queue_head IN
  [m EXCEPT !.pcb[head].prev_pcbPtr = p,
            !.pcb[p].next_pcbPtr = head,
            !.queue[t].queue_head = p]

\* ... behind the tail, ...
EnqueueTail(m, p, t) ==
  LET tail == m.queue[t].queue_tail IN
  [m EXCEPT !.pcb[tail].next_pcbPtr = p,
            !.pcb[p].prev_pcbPtr = tail,
            !.queue[t].queue_tail = p]

\* ... or behind the PCB a scan from the head (for a priority up to 4) or
\* from the tail stops at.
ScanStop(m, p, t) ==
  LET prio == process_priority(m, p)
      next == next_pcbPtr(m)
      prev == prev_pcbPtr(m)
  IN  IF prio <= 4
      THEN FirstOf(next, m.queue[t].queue_head,
                   {x \in PCB : next[x] # NULL
                                /\ process_priority(m, next[x]) > prio})
      ELSE prev[FirstOf(prev, m.queue[t].queue_tail,
                              {x \in PCB : prev[x] # NULL
                                           /\ process_priority(m, prev[x]) <= prio})]

EnqueueBehind(m, p, index) ==
  LET next == m.pcb[index].next_pcbPtr IN
  [m EXCEPT !.pcb[p].next_pcbPtr = next,
            !.pcb[next].prev_pcbPtr = p,
            !.pcb[index].next_pcbPtr = p,
            !.pcb[p].prev_pcbPtr = index]

\* Mutant: in front of the head also when the priorities are equal.
enqueue_lifo(m, p, t) ==
  LET q == m.queue[t]
      prio == process_priority(m, p)
  IN  IF q.queue_head = NULL THEN EnqueueEmpty(m, p, t)
      ELSE IF t \notin {SUS_READY_QUEUE_TAG, READY_QUEUE_TAG} THEN EnqueueTail(m, p, t)
      ELSE IF prio <= process_priority(m, q.queue_head) THEN EnqueueHead(m, p, t)
      ELSE IF prio >= process_priority(m, q.queue_tail) THEN EnqueueTail(m, p, t)
      ELSE EnqueueBehind(m, p, ScanStop(m, p, t))

enqueue(m, p, t) ==
  LET q == m.queue[t]
      prio == process_priority(m, p)
  IN  IF q.queue_head = NULL THEN EnqueueEmpty(m, p, t)
      ELSE IF t \notin {SUS_READY_QUEUE_TAG, READY_QUEUE_TAG} THEN EnqueueTail(m, p, t)
      ELSE IF prio < process_priority(m, q.queue_head) THEN EnqueueHead(m, p, t)
      ELSE IF prio >= process_priority(m, q.queue_tail) THEN EnqueueTail(m, p, t)
      ELSE EnqueueBehind(m, p, ScanStop(m, p, t))

\* Whether dequeue finds the PCB: it looks for the name, not the pointer.
dequeue_finds(m, p, t) == search_queue(m, m.pcb[p].process_name, t) # NULL

\* The memory dequeue leaves when it does (and returns 0).  The neighbours
\* that exist close the gap, and the links that led to them are cleared.
dequeue(m, p, t) ==
  LET q == m.queue[t]
      next == m.pcb[p].next_pcbPtr
      prev == m.pcb[p].prev_pcbPtr
  IN  IF q.queue_head = p /\ q.queue_tail = p
      THEN [m EXCEPT !.queue[t] = [queue_head |-> NULL, queue_tail |-> NULL],
                     !.pcb[p].prev_pcbPtr = NULL,
                     !.pcb[p].next_pcbPtr = NULL]
      ELSE IF q.queue_head = p
      THEN [m EXCEPT !.queue[t].queue_head = next,
                     !.pcb[next].prev_pcbPtr = NULL,
                     !.pcb[p].next_pcbPtr = NULL]
      ELSE IF q.queue_tail = p
      THEN [m EXCEPT !.queue[t].queue_tail = prev,
                     !.pcb[prev].next_pcbPtr = NULL,
                     !.pcb[p].prev_pcbPtr = NULL]
      ELSE [m EXCEPT !.pcb[prev].next_pcbPtr = next,
                     !.pcb[next].prev_pcbPtr = prev,
                     !.pcb[p].prev_pcbPtr = NULL,
                     !.pcb[p].next_pcbPtr = NULL]

-----------------------------------------------------------------------------

\* The queue a PCB belongs to is the sum of its two states.
queue_sel(m, p) == m.pcb[p].disp_state + m.pcb[p].exe_state

pcb_insert(m, p) == enqueue(m, p, queue_sel(m, p))

pcb_remove_ok(m, p) == dequeue_finds(m, p, queue_sel(m, p))

pcb_remove(m, p) ==
  IF pcb_remove_ok(m, p) THEN dequeue(m, p, queue_sel(m, p)) ELSE m

\* The first hit in the order of the tags, 0 to 3.
pcb_find(m, to_find) ==
  LET hit == {t \in queue_tag : search_queue(m, to_find, t) # NULL}
  IN  IF hit = {} THEN NULL
      ELSE search_queue(m, to_find, CHOOSE t \in hit : \A u \in hit : t <= u)

\* pcb_setup once both allocations have succeeded, on the fresh PCB p with
\* the context its stack then holds.
pcb_setup(m, p, name, class, priority, context) ==
  [m EXCEPT !.pcb[p] = [process_name |-> name,
                        process_class |-> class,
                        process_priority |-> priority,
                        exe_state |-> READY,
                        disp_state |-> NOT_SUSPENDED,
                        context |-> context,
                        next_pcbPtr |-> NULL,
                        prev_pcbPtr |-> NULL]]

=============================================================================
