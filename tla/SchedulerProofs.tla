--------------------------- MODULE SchedulerProofs ---------------------------
(***************************************************************************)
(* What module Scheduler promises, proved for any set of PCBs and any set  *)
(* of priorities.                                                          *)
(***************************************************************************)
EXTENDS Scheduler, SequenceLemmas

-----------------------------------------------------------------------------

(***************************************************************************)
(* A queue that a PCB joins or leaves: its members, that they are          *)
(* different, and their order.                                             *)
(***************************************************************************)

\* enqueue adds its argument and nothing else, and keeps the queue ordered.
LEMMA EnqueuedQueue ==
  ASSUME NEW q \in Seq(PCB), NEW t \in Tag, NEW p \in PCB, NEW prio,
         NEW r \in Enqueued(q, t, p, prio)
  PROVE  /\ r \in Seq(PCB)
         /\ Range(r) = Range(q) \cup {p}
         /\ IsInjective(q) /\ p \notin Range(q) => IsInjective(r)
         /\ /\ t \in ReadyTag
            /\ Sorted(q, prio)
            /\ prio[p] \in Int
            /\ \A x \in Range(q) : prio[x] \in Int
            => Sorted(r, prio)
PROOF
<1>1. PICK k \in 1..(Len(q) + 1) : r = InsertAt(q, k, p) /\ IsSlot(q, t, p, prio, k)
  BY DEF Enqueued
<1>2. Len(q) \in Nat /\ DOMAIN q = 1..Len(q) /\ k \in Int
  BY LenProperties
<1>3. /\ r \in Seq(PCB)
      /\ Len(r) = Len(q) + 1
      /\ \A i \in 1..(Len(q) + 1) :
           r[i] = IF i < k THEN q[i] ELSE IF i = k THEN p ELSE q[i - 1]
  <2>1. /\ InsertAt(q, k, p) \in Seq(PCB)
        /\ Len(InsertAt(q, k, p)) = Len(q) + 1
        /\ \A i \in 1..(Len(q) + 1) :
             InsertAt(q, k, p)[i] = IF i < k THEN q[i]
                                    ELSE IF i = k THEN p ELSE q[i - 1]
    BY InsertAtIndex
  <2> QED
    BY <1>1, <2>1
<1>4. DOMAIN r = 1..(Len(q) + 1)
  BY <1>3, LenProperties
<1>5. Range(r) = Range(q) \cup {p}
  <2>1. ASSUME NEW x \in Range(r) PROVE x \in Range(q) \cup {p}
    <3>1. PICK i \in 1..(Len(q) + 1) : x = r[i]
      BY <1>4, <2>1 DEF Range
    <3>2. i < k => i \in DOMAIN q
      BY <1>2
    <3>3. i > k => i - 1 \in DOMAIN q
      BY <1>2
    <3>4. x = IF i < k THEN q[i] ELSE IF i = k THEN p ELSE q[i - 1]
      BY <1>3, <3>1
    <3>5. i < k \/ i = k \/ i > k
      BY <1>2
    <3>6. CASE i < k
      BY <3>2, <3>4, <3>6 DEF Range
    <3>7. CASE i = k
      BY <1>2, <3>4, <3>7
    <3>8. CASE i > k
      <4>1. x = q[i - 1]
        BY <1>2, <3>4, <3>8
      <4> QED
        BY <3>3, <3>8, <4>1 DEF Range
    <3> QED
      BY <3>5, <3>6, <3>7, <3>8
  <2>2. ASSUME NEW x \in Range(q) PROVE x \in Range(r)
    <3>1. PICK i \in 1..Len(q) : x = q[i]
      BY <1>2, <2>2 DEF Range
    <3>2. CASE i < k
      BY <1>2, <1>3, <1>4, <3>1, <3>2 DEF Range
    <3>3. CASE ~(i < k)
      <4>1. /\ i + 1 \in 1..(Len(q) + 1)
            /\ ~(i + 1 < k) /\ i + 1 # k /\ (i + 1) - 1 = i
        BY <1>2, <3>3
      <4> QED
        BY <1>3, <1>4, <3>1, <4>1 DEF Range
    <3> QED
      BY <3>2, <3>3
  <2>3. p \in Range(r)
    BY <1>2, <1>3, <1>4 DEF Range
  <2> QED
    BY <2>1, <2>2, <2>3
<1>6. ASSUME IsInjective(q), p \notin Range(q) PROVE IsInjective(r)
  <2> SUFFICES ASSUME NEW i \in 1..(Len(q) + 1), NEW j \in 1..(Len(q) + 1), r[i] = r[j]
               PROVE  i = j
    BY <1>4 DEF IsInjective
  <2>1. \A n \in 1..Len(q) : q[n] # p
    BY <1>2, <1>6 DEF Range
  <2>2. \A n, l \in 1..Len(q) : q[n] = q[l] => n = l
    BY <1>2, <1>6 DEF IsInjective
  <2> QED
    BY <1>2, <1>3, <2>1, <2>2
<1>7. ASSUME t \in ReadyTag, Sorted(q, prio), prio[p] \in Int,
             \A x \in Range(q) : prio[x] \in Int
      PROVE  Sorted(r, prio)
  <2> SUFFICES ASSUME NEW i \in 1..(Len(q) + 1), NEW j \in 1..(Len(q) + 1), i < j
               PROVE  prio[r[i]] <= prio[r[j]]
    BY <1>4 DEF Sorted
  <2>1. \A n \in 1..Len(q) : prio[q[n]] \in Int
    BY <1>2, <1>7 DEF Range
  <2>2. \A n, l \in 1..Len(q) : n < l => prio[q[n]] <= prio[q[l]]
    BY <1>2, <1>7 DEF Sorted
  <2>3. /\ \A n \in 1..(k - 1) : prio[q[n]] <= prio[p]
        /\ \A n \in k..Len(q) : prio[p] < prio[q[n]]
    BY <1>1, <1>7 DEF IsSlot
  <2>4. CASE j < k
    BY <1>2, <1>3, <2>2, <2>4
  <2>5. CASE j = k
    BY <1>2, <1>3, <2>3, <2>5
  <2>6. CASE j > k /\ i < k
    <3>1. r[i] = q[i] /\ r[j] = q[j - 1] /\ i \in 1..(k - 1) /\ j - 1 \in k..Len(q)
      BY <1>2, <1>3, <2>6
    <3> QED
      BY <1>2, <1>7, <2>1, <2>3, <3>1
  <2>7. CASE j > k /\ i = k
    <3>1. r[i] = p /\ r[j] = q[j - 1] /\ j - 1 \in k..Len(q)
      BY <1>2, <1>3, <2>7
    <3> QED
      BY <1>2, <1>7, <2>1, <2>3, <3>1
  <2>8. CASE i > k
    <3>1. /\ r[i] = q[i - 1] /\ r[j] = q[j - 1]
          /\ i - 1 \in 1..Len(q) /\ j - 1 \in 1..Len(q) /\ i - 1 < j - 1
      BY <1>2, <1>3, <2>8
    <3> QED
      BY <2>2, <3>1
  <2> QED
    BY <1>2, <2>4, <2>5, <2>6, <2>7, <2>8
<1> QED
  BY <1>3, <1>5, <1>6, <1>7

\* dequeue takes out the PCB it is given and keeps the order of the others.
LEMMA RemovedQueue ==
  ASSUME NEW q \in Seq(PCB), NEW k \in DOMAIN q, NEW prio
  PROVE  /\ RemoveAt(q, k) \in Seq(PCB)
         /\ IsInjective(q) => /\ IsInjective(RemoveAt(q, k))
                              /\ Range(RemoveAt(q, k)) = Range(q) \ {q[k]}
         /\ Range(RemoveAt(q, k)) \subseteq Range(q)
         /\ Sorted(q, prio) => Sorted(RemoveAt(q, k), prio)
PROOF
<1> DEFINE r == RemoveAt(q, k)
<1>1. Len(q) \in Nat /\ DOMAIN q = 1..Len(q) /\ k \in 1..Len(q) /\ k \in Int
  BY LenProperties
<1>2. /\ r \in Seq(PCB)
      /\ Len(r) = Len(q) - 1
      /\ \A i \in 1..(Len(q) - 1) : r[i] = IF i < k THEN q[i] ELSE q[i + 1]
  BY <1>1, RemoveAtIndex
<1>3. DOMAIN r = 1..(Len(q) - 1)
  BY <1>2, LenProperties
<1> HIDE DEF r
<1>4. Range(r) \subseteq Range(q)
  <2> SUFFICES ASSUME NEW i \in 1..(Len(q) - 1) PROVE r[i] \in Range(q)
    BY <1>3 DEF Range
  <2>1. i \in DOMAIN q /\ i + 1 \in DOMAIN q
    BY <1>1
  <2> QED
    BY <1>2, <2>1 DEF Range
<1>5. ASSUME IsInjective(q) PROVE IsInjective(r) /\ Range(r) = Range(q) \ {q[k]}
  <2>1. \A n, l \in 1..Len(q) : q[n] = q[l] => n = l
    BY <1>1, <1>5 DEF IsInjective
  <2>2. ASSUME NEW i \in 1..(Len(q) - 1), NEW j \in 1..(Len(q) - 1), r[i] = r[j]
        PROVE  i = j
    BY <1>1, <1>2, <2>1, <2>2
  <2>3. ASSUME NEW i \in 1..(Len(q) - 1) PROVE r[i] # q[k]
    BY <1>1, <1>2, <2>1
  <2>4. ASSUME NEW x \in Range(q), x # q[k] PROVE x \in Range(r)
    <3>1. PICK i \in 1..Len(q) : x = q[i]
      BY <1>1, <2>4 DEF Range
    <3>2. CASE i < k
      BY <1>1, <1>2, <1>3, <3>1, <3>2 DEF Range
    <3>3. CASE i > k
      <4>1. i - 1 \in 1..(Len(q) - 1) /\ ~(i - 1 < k) /\ (i - 1) + 1 = i
        BY <1>1, <3>3
      <4> QED
        BY <1>2, <1>3, <3>1, <4>1 DEF Range
    <3> QED
      BY <1>1, <2>4, <3>1, <3>2, <3>3
  <2>5. IsInjective(r)
    BY <1>3, <2>2 DEF IsInjective
  <2>6. q[k] \notin Range(r)
    BY <1>3, <2>3 DEF Range
  <2> QED
    BY <1>4, <2>4, <2>5, <2>6
<1>6. ASSUME Sorted(q, prio) PROVE Sorted(r, prio)
  <2> SUFFICES ASSUME NEW i \in 1..(Len(q) - 1), NEW j \in 1..(Len(q) - 1), i < j
               PROVE  prio[r[i]] <= prio[r[j]]
    BY <1>3 DEF Sorted
  <2>1. PICK n \in 1..Len(q), l \in 1..Len(q) : n < l /\ r[i] = q[n] /\ r[j] = q[l]
    <3>1. i < k => r[i] = q[i]
      BY <1>2
    <3>2. ~(i < k) => r[i] = q[i + 1]
      BY <1>2
    <3>3. j < k => r[j] = q[j]
      BY <1>2
    <3>4. ~(j < k) => r[j] = q[j + 1]
      BY <1>2
    <3> QED
      BY <1>1, <3>1, <3>2, <3>3, <3>4
  <2> QED
    BY <1>1, <1>6, <2>1 DEF Sorted
<1> QED
  BY <1>2, <1>4, <1>5, <1>6 DEF r

\* Dispatching takes the PCB at the first place.
LEMMA TailIsRemoveAt ==
  ASSUME NEW q \in Seq(PCB), q # << >>
  PROVE  1 \in DOMAIN q /\ Head(q) = q[1] /\ Tail(q) = RemoveAt(q, 1)
PROOF
<1>1. Len(q) \in Nat /\ Len(q) >= 1 /\ DOMAIN q = 1..Len(q) /\ Head(q) = q[1]
  BY EmptySeq, LenProperties
<1>2. /\ Tail(q) \in Seq(PCB)
      /\ Len(Tail(q)) = Len(q) - 1
      /\ \A i \in 1..Len(Tail(q)) : Tail(q)[i] = q[i + 1]
  BY HeadTailProperties
<1>3. /\ RemoveAt(q, 1) \in Seq(PCB)
      /\ Len(RemoveAt(q, 1)) = Len(q) - 1
      /\ \A i \in 1..(Len(q) - 1) : RemoveAt(q, 1)[i] = IF i < 1 THEN q[i] ELSE q[i + 1]
  <2>1. 1 \in 1..Len(q)
    BY <1>1
  <2> QED
    BY <2>1, RemoveAtIndex
<1>4. \A i \in 1..Len(Tail(q)) : Tail(q)[i] = RemoveAt(q, 1)[i]
  BY <1>1, <1>2, <1>3
<1>5. Tail(q) = RemoveAt(q, 1)
  BY <1>2, <1>3, <1>4, SeqEqual
<1> QED
  BY <1>1, <1>5

\* A queue that is not empty is its head followed by its tail.
LEMMA HeadAndTail ==
  ASSUME NEW q \in Seq(PCB), q # << >>, IsInjective(q), NEW prio
  PROVE  /\ Head(q) \in Range(q)
         /\ Tail(q) \in Seq(PCB)
         /\ IsInjective(Tail(q))
         /\ Range(Tail(q)) = Range(q) \ {Head(q)}
         /\ Sorted(q, prio) => Sorted(Tail(q), prio)
PROOF
<1>1. 1 \in DOMAIN q /\ Head(q) = q[1] /\ Tail(q) = RemoveAt(q, 1)
  BY TailIsRemoveAt
<1>2. /\ RemoveAt(q, 1) \in Seq(PCB)
      /\ IsInjective(RemoveAt(q, 1))
      /\ Range(RemoveAt(q, 1)) = Range(q) \ {q[1]}
      /\ Sorted(q, prio) => Sorted(RemoveAt(q, 1), prio)
  BY <1>1, RemovedQueue
<1>3. q[1] \in Range(q)
  BY <1>1 DEF Range
<1> QED
  BY <1>1, <1>2, <1>3

\* Only the priorities of its members matter to the order of a queue.
LEMMA SortedAgree ==
  ASSUME NEW q, NEW f, NEW g, Sorted(q, f), \A x \in Range(q) : f[x] = g[x]
  PROVE  Sorted(q, g)
BY DEF Sorted, Range

-----------------------------------------------------------------------------

(***************************************************************************)
(* The inductive invariant.  Control adds what the four properties need    *)
(* from one another: who has the CPU in each phase, and that the idle      *)
(* process is there, as a system process, from boot until kmain resumes.   *)
(***************************************************************************)
Control ==
  /\ phase = "boot" => \A p \in live : class[p] = SYSTEM
  /\ phase # "running" => current = NULL
  /\ phase = "running" => current \in live /\ Idle \in live /\ class[Idle] = SYSTEM

Inv == TypeOK /\ Placement /\ ReadySorted /\ SystemReady /\ Control

\* The invariant holds before kmain loads the first process.
LEMMA InitInv == Init => Inv
PROOF
<1> SUFFICES ASSUME Init PROVE Inv
  OBVIOUS
<1>1. /\ \A t \in Tag : queue[t] = << >>
      /\ queue \in [Tag -> Seq(PCB)]
  BY EmptySeq DEF Init
<1>2. DOMAIN << >> = {}
  OBVIOUS
<1>3. TypeOK
  BY <1>1, <1>2 DEF Init, TypeOK
<1>4. Range(<< >>) = {} /\ IsInjective(<< >>)
  BY <1>2 DEF Range, IsInjective
<1>5. Placement /\ SystemReady /\ Control
  BY <1>1, <1>4 DEF Init, Placement, SystemReady, Control, Ready, Tag
<1>6. ReadySorted
  BY <1>1, <1>2 DEF ReadySorted, Sorted, ReadyTag, Tag, SusReady, Ready
<1> QED
  BY <1>3, <1>5, <1>6 DEF Inv

\* load_proc, r3_load_pcb and create_pcb: a new process joins.
LEMMA AdmitStep ==
  ASSUME Inv, NEW p \in PCB, NEW c \in {SYSTEM, USER}, NEW n \in Priority, Admit(p, c, n)
  PROVE  /\ TypeOK' /\ Placement' /\ ReadySorted' /\ SystemReady'
         /\ live' = live \cup {p} /\ class'[p] = c
         /\ \A x \in live : class'[x] = class[x]
         /\ UNCHANGED <<current, phase>>
PROOF
<1> USE DEF Inv, Tag, Ready
<1>1. /\ p \notin live /\ live' = live \cup {p} /\ live' \subseteq PCB
      /\ current' = current /\ phase' = phase
  BY DEF Admit, TypeOK
<1>2. /\ class' \in [live' -> {SYSTEM, USER}] /\ class'[p] = c
      /\ \A x \in live : class'[x] = class[x]
  BY <1>1 DEF Admit, With, TypeOK
<1>3. /\ priority' \in [live' -> Priority] /\ priority'[p] = n
      /\ \A x \in live : priority'[x] = priority[x]
  BY <1>1 DEF Admit, With, TypeOK
<1>4. PICK q \in Enqueued(queue[Ready], Ready, p, priority') :
        queue' = [queue EXCEPT ![Ready] = q]
  BY DEF Admit
<1>5. /\ queue \in [Tag -> Seq(PCB)]
      /\ \A t \in Tag : IsInjective(queue[t]) /\ p \notin Range(queue[t])
      /\ \A t \in Tag : Range(queue[t]) \subseteq live \ {current}
  BY <1>1 DEF TypeOK, Placement
<1>6. /\ q \in Seq(PCB) /\ Range(q) = Range(queue[Ready]) \cup {p} /\ IsInjective(q)
      /\ /\ Sorted(queue[Ready], priority')
         /\ priority'[p] \in Int
         /\ \A x \in Range(queue[Ready]) : priority'[x] \in Int
         => Sorted(q, priority')
  BY <1>4, <1>5, EnqueuedQueue DEF ReadyTag
<1>7. \A t \in Tag : queue'[t] = IF t = Ready THEN q ELSE queue[t]
  BY <1>4, <1>5
<1>8. TypeOK'
  BY <1>1, <1>2, <1>3, <1>5, <1>6, <1>7, <1>4 DEF TypeOK
<1>9. Placement'
  <2>1. p # current
    BY <1>1, SchedulerAssumption DEF Control, TypeOK, Placement
  <2> QED
    BY <1>1, <1>5, <1>6, <1>7, <2>1 DEF Placement
<1>10. ReadySorted'
  <2>1. \A t \in ReadyTag : Sorted(queue[t], priority')
    <3> SUFFICES ASSUME NEW t \in ReadyTag PROVE Sorted(queue[t], priority')
      OBVIOUS
    <3>1. \A x \in Range(queue[t]) : priority[x] = priority'[x]
      BY <1>3, <1>5 DEF ReadyTag, SusReady
    <3> QED
      BY <3>1, SortedAgree DEF ReadySorted
  <2>2. priority'[p] \in Int /\ \A x \in Range(queue[Ready]) : priority'[x] \in Int
    <3>1. \A x \in live' : priority'[x] \in Int
      BY <1>3, SchedulerAssumption
    <3>2. p \in live' /\ \A x \in Range(queue[Ready]) : x \in live'
      BY <1>1, <1>5
    <3> QED
      BY <3>1, <3>2
  <2> QED
    BY <1>6, <1>7, <2>1, <2>2 DEF ReadySorted, ReadyTag, SusReady
<1>11. SystemReady'
  <2> SUFFICES ASSUME phase' # "halted", NEW x \in live', class'[x] = SYSTEM
               PROVE  x = current' \/ x \in Range(queue'[Ready])
    BY DEF SystemReady
  <2>1. Range(queue'[Ready]) = Range(queue[Ready]) \cup {p}
    BY <1>6, <1>7
  <2>2. x = p \/ x = current \/ x \in Range(queue[Ready])
    BY <1>1, <1>2 DEF SystemReady
  <2> QED
    BY <1>1, <2>1, <2>2
<1> QED
  BY <1>1, <1>2, <1>8, <1>9, <1>10, <1>11

\* suspend_pcb, resume_pcb, block_pcb and unblock_pcb.
LEMMA MoveStep ==
  ASSUME Inv, NEW t \in Tag, NEW k \in DOMAIN queue[t], NEW u \in Tag, Move(t, k, u)
  PROVE  Inv'
PROOF
<1> USE DEF Inv
<1> DEFINE p == queue[t][k]
           old == RemoveAt(queue[t], k)
<1>1. /\ u # t /\ class[p] = USER
      /\ UNCHANGED <<current, live, class, priority, phase>>
  BY DEF Move
<1>2. /\ queue \in [Tag -> Seq(PCB)] /\ queue[t] \in Seq(PCB) /\ queue[u] \in Seq(PCB)
      /\ IsInjective(queue[t]) /\ IsInjective(queue[u])
      /\ Range(queue[t]) \cap Range(queue[u]) = {}
      /\ Range(queue[t]) \subseteq live
  BY <1>1 DEF TypeOK, Placement
<1>3. p \in Range(queue[t]) /\ p \in PCB /\ p \notin Range(queue[u]) /\ p \in live
  <2>1. p \in Range(queue[t])
    BY DEF Range
  <2> QED
    BY <1>2, <2>1 DEF TypeOK
<1>4. PICK q \in Enqueued(queue[u], u, p, priority) :
        queue' = [queue EXCEPT ![t] = old, ![u] = q]
  BY DEF Move
<1>5. /\ old \in Seq(PCB) /\ IsInjective(old)
      /\ Range(old) = Range(queue[t]) \ {p}
      /\ Sorted(queue[t], priority) => Sorted(old, priority)
  BY <1>2, RemovedQueue
<1>6. /\ q \in Seq(PCB) /\ Range(q) = Range(queue[u]) \cup {p} /\ IsInjective(q)
      /\ /\ u \in ReadyTag
         /\ Sorted(queue[u], priority)
         /\ priority[p] \in Int
         /\ \A x \in Range(queue[u]) : priority[x] \in Int
         => Sorted(q, priority)
  BY <1>2, <1>3, <1>4, EnqueuedQueue
<1> HIDE DEF p, old
<1>7. /\ queue' \in [Tag -> Seq(PCB)]
      /\ \A v \in Tag : queue'[v] = IF v = u THEN q ELSE IF v = t THEN old ELSE queue[v]
  BY <1>1, <1>2, <1>4, <1>5, <1>6
<1>8. TypeOK'
  BY <1>1, <1>7 DEF TypeOK
<1>9. \A v \in Tag : Range(queue'[v]) = IF v = u THEN Range(queue[u]) \cup {p}
                                        ELSE IF v = t THEN Range(queue[t]) \ {p}
                                        ELSE Range(queue[v])
  BY <1>5, <1>6, <1>7
<1>10. Placement'
  <2>1. \A v \in Tag : IsInjective(queue'[v])
    BY <1>5, <1>6, <1>7 DEF Placement
  <2>2. \A v, w \in Tag : v # w => Range(queue'[v]) \cap Range(queue'[w]) = {}
    <3>1. \A v \in Tag : v # t => p \notin Range(queue[v])
      BY <1>3 DEF Placement
    <3> QED
      BY <1>9, <3>1 DEF Placement
  <2>3. \A v \in Tag : Range(queue'[v]) \subseteq live' \ {current'}
    <3>1. p # current
      BY <1>3 DEF Placement
    <3> QED
      BY <1>1, <1>3, <1>9, <3>1 DEF Placement
  <2>4. ASSUME phase' # "halted", NEW x \in live'
        PROVE  x = current' \/ \E v \in Tag : x \in Range(queue'[v])
    <3>1. CASE x = p
      BY <1>9, <3>1
    <3>2. CASE x # p
      BY <1>1, <1>9, <2>4, <3>2 DEF Placement
    <3> QED
      BY <3>1, <3>2
  <2> QED
    BY <2>1, <2>2, <2>3, <2>4 DEF Placement
<1>11. ReadySorted'
  <2>1. priority[p] \in Int /\ \A x \in Range(queue[u]) : priority[x] \in Int
    <3>1. \A x \in live : priority[x] \in Int
      BY SchedulerAssumption DEF TypeOK
    <3> QED
      BY <1>3, <3>1 DEF Placement
  <2> SUFFICES ASSUME NEW v \in ReadyTag PROVE Sorted(queue'[v], priority')
    BY DEF ReadySorted
  <2>2. v \in Tag /\ Sorted(queue[v], priority)
    BY DEF ReadySorted, ReadyTag, Tag, SusReady, Ready
  <2> QED
    BY <1>1, <1>5, <1>6, <1>7, <2>1, <2>2
<1>12. SystemReady'
  <2> SUFFICES ASSUME phase' # "halted", NEW x \in live', class'[x] = SYSTEM
               PROVE  x = current' \/ x \in Range(queue'[Ready])
    BY DEF SystemReady
  <2>1. x # p
    BY <1>1 DEF SYSTEM, USER, p
  <2> QED
    BY <1>1, <1>9, <2>1 DEF SystemReady, Ready, Tag
<1>13. Control'
  BY <1>1 DEF Control
<1> QED
  BY <1>8, <1>10, <1>11, <1>12, <1>13

\* set_pcb_priority.
LEMMA ReprioritiseStep ==
  ASSUME Inv, NEW t \in Tag, NEW k \in DOMAIN queue[t], NEW n \in Priority,
         Reprioritise(t, k, n)
  PROVE  Inv'
PROOF
<1> USE DEF Inv
<1> DEFINE p == queue[t][k]
           old == RemoveAt(queue[t], k)
<1>1. /\ priority' = [priority EXCEPT ![p] = n]
      /\ UNCHANGED <<current, live, class, phase>>
  BY DEF Reprioritise
<1>2. /\ queue \in [Tag -> Seq(PCB)] /\ queue[t] \in Seq(PCB)
      /\ IsInjective(queue[t])
      /\ Range(queue[t]) \subseteq live
  BY DEF TypeOK, Placement
<1>3. p \in Range(queue[t]) /\ p \in PCB /\ p \in live
  <2>1. p \in Range(queue[t])
    BY DEF Range
  <2> QED
    BY <1>2, <2>1 DEF TypeOK
<1>4. /\ old \in Seq(PCB) /\ IsInjective(old)
      /\ Range(old) = Range(queue[t]) \ {p}
      /\ Sorted(queue[t], priority) => Sorted(old, priority)
  BY <1>2, RemovedQueue
<1>5. IF t \in ReadyTag
      THEN \E q \in Enqueued(old, t, p, priority') : queue' = [queue EXCEPT ![t] = q]
      ELSE queue' = queue
  BY DEF Reprioritise
<1> HIDE DEF p, old
<1>6. /\ priority' \in [live' -> Priority]
      /\ priority'[p] = n
      /\ \A x \in live : x # p => priority'[x] = priority[x]
      /\ \A x \in live : priority'[x] \in Int
  BY <1>1, <1>3, SchedulerAssumption DEF TypeOK
<1>7. ASSUME NEW v \in ReadyTag, v # t PROVE Sorted(queue[v], priority')
  <2>1. v \in Tag /\ p \notin Range(queue[v])
    BY <1>3, <1>7 DEF Placement, ReadyTag, Tag, SusReady, Ready
  <2>2. \A x \in Range(queue[v]) : priority[x] = priority'[x]
    BY <1>6, <2>1 DEF Placement
  <2> QED
    BY <2>2, SortedAgree DEF ReadySorted
<1>8. CASE t \notin ReadyTag
  <2>1. queue' = queue
    BY <1>5, <1>8
  <2>2. TypeOK' /\ Placement' /\ SystemReady' /\ Control'
    BY <1>1, <1>6, <2>1 DEF TypeOK, Placement, SystemReady, Control
  <2>3. ReadySorted'
    BY <1>7, <1>8, <2>1 DEF ReadySorted
  <2> QED
    BY <2>2, <2>3
<1>9. CASE t \in ReadyTag
  <2>1. PICK q \in Enqueued(old, t, p, priority') : queue' = [queue EXCEPT ![t] = q]
    BY <1>5, <1>9
  <2>2. /\ q \in Seq(PCB) /\ Range(q) = Range(old) \cup {p} /\ IsInjective(q)
        /\ /\ Sorted(old, priority')
           /\ priority'[p] \in Int
           /\ \A x \in Range(old) : priority'[x] \in Int
           => Sorted(q, priority')
    BY <1>3, <1>4, <1>9, <2>1, EnqueuedQueue
  <2>3. Range(q) = Range(queue[t])
    BY <1>3, <1>4, <2>2
  <2>4. /\ queue' \in [Tag -> Seq(PCB)]
        /\ \A v \in Tag : queue'[v] = IF v = t THEN q ELSE queue[v]
    BY <1>2, <2>1, <2>2
  <2>5. \A v \in Tag : Range(queue'[v]) = Range(queue[v]) /\ IsInjective(queue'[v])
    BY <2>2, <2>3, <2>4 DEF Placement
  <2>6. TypeOK' /\ Control'
    BY <1>1, <1>6, <2>4 DEF TypeOK, Control
  <2>7. Placement' /\ SystemReady'
    BY <1>1, <2>5 DEF Placement, SystemReady, Ready, Tag
  <2>8. Sorted(q, priority')
    <3>1. Sorted(old, priority)
      BY <1>4, <1>9 DEF ReadySorted
    <3>2. \A x \in Range(old) : priority[x] = priority'[x] /\ priority'[x] \in Int
      BY <1>2, <1>4, <1>6
    <3>3. Sorted(old, priority')
      BY <3>1, <3>2, SortedAgree
    <3> QED
      BY <1>3, <1>6, <2>2, <3>2, <3>3
  <2>9. ReadySorted'
    <3>1. \A v \in ReadyTag : v \in Tag
      BY DEF ReadyTag, Tag, SusReady, Ready
    <3> QED
      BY <1>7, <2>4, <2>8, <3>1 DEF ReadySorted
  <2> QED
    BY <2>6, <2>7, <2>9
<1> QED
  BY <1>8, <1>9

\* pcb_free: the other processes keep their class and priority.
LEMMA FreeFacts ==
  ASSUME TypeOK, NEW p, Free(p)
  PROVE  /\ live' = live \ {p} /\ live' \subseteq PCB
         /\ class' \in [live' -> {SYSTEM, USER}] /\ \A x \in live' : class'[x] = class[x]
         /\ priority' \in [live' -> Priority] /\ \A x \in live' : priority'[x] = priority[x]
BY DEF Free, Restrict, TypeOK

\* delete_pcb.
LEMMA DeleteStep ==
  ASSUME Inv, NEW t \in Tag, NEW k \in DOMAIN queue[t], Delete(t, k)
  PROVE  Inv'
PROOF
<1> USE DEF Inv
<1> DEFINE p == queue[t][k]
           old == RemoveAt(queue[t], k)
<1>1. class[p] = USER /\ Free(p) /\ UNCHANGED <<current, phase>>
  BY DEF Delete
<1>2. /\ queue \in [Tag -> Seq(PCB)] /\ queue[t] \in Seq(PCB) /\ IsInjective(queue[t])
  BY DEF TypeOK, Placement
<1>3. p \in Range(queue[t])
  BY DEF Range
<1>4. queue' = [queue EXCEPT ![t] = old]
  BY DEF Delete
<1>5. /\ old \in Seq(PCB) /\ IsInjective(old)
      /\ Range(old) = Range(queue[t]) \ {p}
      /\ Sorted(queue[t], priority) => Sorted(old, priority)
  BY <1>2, RemovedQueue
<1>6. /\ live' = live \ {p} /\ live' \subseteq PCB
      /\ class' \in [live' -> {SYSTEM, USER}] /\ \A x \in live' : class'[x] = class[x]
      /\ priority' \in [live' -> Priority] /\ \A x \in live' : priority'[x] = priority[x]
  <2>1. TypeOK /\ Free(p)
    BY <1>1
  <2> QED
    BY <2>1, FreeFacts
<1>7. class[p] # SYSTEM
  BY <1>1 DEF SYSTEM, USER
<1> HIDE DEF p, old
<1>8. /\ queue' \in [Tag -> Seq(PCB)]
      /\ \A v \in Tag : queue'[v] = IF v = t THEN old ELSE queue[v]
  BY <1>2, <1>4, <1>5
<1>9. \A v \in Tag : Range(queue'[v]) = Range(queue[v]) \ {p}
  <2>1. \A v \in Tag : v # t => p \notin Range(queue[v])
    BY <1>3 DEF Placement
  <2> QED
    BY <1>5, <1>8, <2>1
<1>10. TypeOK'
  BY <1>1, <1>6, <1>8 DEF TypeOK
<1>11. Placement'
  <2>1. \A v \in Tag : IsInjective(queue'[v])
    BY <1>5, <1>8 DEF Placement
  <2>2. \A v, w \in Tag : v # w => Range(queue'[v]) \cap Range(queue'[w]) = {}
    BY <1>9 DEF Placement
  <2>3. \A v \in Tag : Range(queue'[v]) \subseteq live' \ {current'}
    BY <1>1, <1>6, <1>9 DEF Placement
  <2>4. phase' # "halted" =>
          \A x \in live' : x = current' \/ \E v \in Tag : x \in Range(queue'[v])
    BY <1>1, <1>6, <1>9 DEF Placement
  <2> QED
    BY <2>1, <2>2, <2>3, <2>4 DEF Placement
<1>12. ReadySorted'
  <2> SUFFICES ASSUME NEW v \in ReadyTag PROVE Sorted(queue'[v], priority')
    BY DEF ReadySorted
  <2>1. v \in Tag /\ Sorted(queue[v], priority)
    BY DEF ReadySorted, ReadyTag, Tag, SusReady, Ready
  <2>2. Sorted(queue'[v], priority)
    BY <1>5, <1>8, <2>1
  <2>3. \A x \in Range(queue'[v]) : priority[x] = priority'[x]
    BY <1>6, <1>9, <2>1 DEF Placement
  <2> QED
    BY <2>2, <2>3, SortedAgree
<1>13. SystemReady'
  BY <1>1, <1>6, <1>7, <1>9 DEF SystemReady, Ready, Tag
<1>14. Control'
  <2>1. phase = "running" => current # p /\ Idle # p
    BY <1>3, <1>7 DEF Control, Placement
  <2> QED
    BY <1>1, <1>6, <2>1 DEF Control
<1> QED
  BY <1>10, <1>11, <1>12, <1>13, <1>14

\* What holds of the ready queue when its head is dispatched.
LEMMA DispatchFacts ==
  ASSUME Inv, Dispatch
  PROVE  /\ queue[Ready] \in Seq(PCB) /\ queue[Ready] # << >>
         /\ phase' = "running" /\ current' = Head(queue[Ready])
         /\ current' \in Range(queue[Ready]) /\ current' \in live
         /\ current' \in PCB /\ current' # current
         /\ Tail(queue[Ready]) \in Seq(PCB) /\ IsInjective(Tail(queue[Ready]))
         /\ Range(Tail(queue[Ready])) = Range(queue[Ready]) \ {current'}
         /\ Sorted(Tail(queue[Ready]), priority)
         /\ \A t \in Tag : t # Ready => current' \notin Range(queue[t])
PROOF
<1>1. Ready \in Tag /\ Ready \in ReadyTag
  BY DEF Ready, Tag, ReadyTag
<1>2. /\ queue[Ready] \in Seq(PCB) /\ queue[Ready] # << >>
      /\ phase' = "running" /\ current' = Head(queue[Ready])
      /\ IsInjective(queue[Ready]) /\ Sorted(queue[Ready], priority)
      /\ Range(queue[Ready]) \subseteq live \ {current}
      /\ live \subseteq PCB
  BY <1>1 DEF Inv, TypeOK, Placement, ReadySorted, Dispatch
<1>3. /\ Head(queue[Ready]) \in Range(queue[Ready])
      /\ Tail(queue[Ready]) \in Seq(PCB)
      /\ IsInjective(Tail(queue[Ready]))
      /\ Range(Tail(queue[Ready])) = Range(queue[Ready]) \ {Head(queue[Ready])}
      /\ Sorted(Tail(queue[Ready]), priority)
  BY <1>2, HeadAndTail
<1>4. \A t \in Tag : t # Ready => current' \notin Range(queue[t])
  BY <1>1, <1>2, <1>3 DEF Inv, Placement
<1> QED
  BY <1>2, <1>3, <1>4

\* The first IDLE request, kmain's.
LEMMA StartStep ==
  ASSUME Inv, Start
  PROVE  Inv'
PROOF
<1> USE DEF Inv
<1> DEFINE rest == Tail(queue[Ready])
           d == current'
<1>1. /\ phase = "boot" /\ Idle \in live /\ Dispatch
      /\ queue' = [queue EXCEPT ![Ready] = rest]
      /\ UNCHANGED <<live, class, priority>>
  BY DEF Start
<1>2. /\ phase' = "running" /\ d \in Range(queue[Ready]) /\ d \in live /\ d \in PCB
      /\ rest \in Seq(PCB) /\ IsInjective(rest)
      /\ Range(rest) = Range(queue[Ready]) \ {d}
      /\ Sorted(rest, priority)
      /\ \A t \in Tag : t # Ready => d \notin Range(queue[t])
  BY <1>1, DispatchFacts
<1>3. current = NULL /\ NULL \notin live
  BY <1>1, SchedulerAssumption DEF Control, TypeOK
<1> HIDE DEF rest, d
<1>4. /\ queue' \in [Tag -> Seq(PCB)]
      /\ \A t \in Tag : queue'[t] = IF t = Ready THEN rest ELSE queue[t]
  BY <1>1, <1>2 DEF TypeOK
<1>5. \A t \in Tag : Range(queue'[t]) = Range(queue[t]) \ {d}
  BY <1>2, <1>4
<1>6. TypeOK'
  BY <1>1, <1>2, <1>4 DEF TypeOK, d
<1>7. Placement'
  <2>1. \A t \in Tag : IsInjective(queue'[t])
    BY <1>2, <1>4 DEF Placement
  <2>2. \A t, u \in Tag : t # u => Range(queue'[t]) \cap Range(queue'[u]) = {}
    BY <1>5 DEF Placement
  <2>3. \A t \in Tag : Range(queue'[t]) \subseteq live' \ {current'}
    BY <1>1, <1>5 DEF Placement, d
  <2>4. \A x \in live' : x = current' \/ \E t \in Tag : x \in Range(queue'[t])
    BY <1>1, <1>3, <1>5 DEF Placement, d
  <2> QED
    BY <2>1, <2>2, <2>3, <2>4 DEF Placement
<1>8. ReadySorted'
  BY <1>1, <1>2, <1>4 DEF ReadySorted, ReadyTag, Tag, SusReady, Ready
<1>9. SystemReady'
  BY <1>1, <1>3, <1>5 DEF SystemReady, Ready, Tag, d
<1>10. Control'
  BY <1>1, <1>2 DEF Control, d
<1> QED
  BY <1>6, <1>7, <1>8, <1>9, <1>10

\* sys_call gives the CPU back to kmain; live changes by at most the caller.
LEMMA ReturnStep ==
  ASSUME Inv, phase = "running", ReturnToKmain,
         live' \subseteq live, live \ live' \subseteq {current},
         class' \in [live' -> {SYSTEM, USER}], priority' \in [live' -> Priority],
         \A x \in live' : priority'[x] = priority[x]
  PROVE  Inv'
PROOF
<1>1. queue' = queue /\ current' = NULL /\ phase' = "halted"
  BY DEF ReturnToKmain
<1>2. TypeOK'
  BY <1>1 DEF Inv, TypeOK
<1>3. \A t \in Tag : Range(queue[t]) \subseteq live' \ {current'}
  BY <1>1, SchedulerAssumption DEF Inv, TypeOK, Placement
<1>4. Placement'
  BY <1>1, <1>3 DEF Inv, Placement
<1>5. ReadySorted'
  <2> SUFFICES ASSUME NEW t \in ReadyTag PROVE Sorted(queue[t], priority')
    BY <1>1 DEF ReadySorted
  <2>1. t \in Tag
    BY DEF ReadyTag, Tag, SusReady, Ready
  <2>2. \A x \in Range(queue[t]) : priority[x] = priority'[x]
    BY <1>3, <2>1
  <2>3. Sorted(queue[t], priority)
    BY DEF Inv, ReadySorted
  <2> QED
    BY <2>2, <2>3, SortedAgree
<1>6. SystemReady' /\ Control'
  BY <1>1 DEF SystemReady, Control
<1> QED
  BY <1>2, <1>4, <1>5, <1>6 DEF Inv

\* sys_req(IDLE) of the current process.
LEMMA YieldStep ==
  ASSUME Inv, Yield
  PROVE  Inv'
PROOF
<1> USE DEF Inv
<1> DEFINE rest == Tail(queue[Ready])
           d == current'
<1>1. phase = "running" /\ UNCHANGED <<live, class, priority>>
  BY DEF Yield
<1>2. current \in live /\ current \in PCB /\ live \subseteq PCB
  BY <1>1 DEF Control, TypeOK
<1>3. CASE ReturnToKmain
  BY <1>1, <1>3, ReturnStep DEF TypeOK
<1>4. CASE Dispatch /\ \E q \in Enqueued(rest, Ready, current, priority) :
                         queue' = [queue EXCEPT ![Ready] = q]
  <2>1. /\ phase' = "running" /\ d \in Range(queue[Ready]) /\ d \in live /\ d \in PCB
        /\ d # current
        /\ rest \in Seq(PCB) /\ IsInjective(rest)
        /\ Range(rest) = Range(queue[Ready]) \ {d}
        /\ Sorted(rest, priority)
        /\ \A t \in Tag : t # Ready => d \notin Range(queue[t])
    BY <1>4, DispatchFacts
  <2>2. PICK q \in Enqueued(rest, Ready, current, priority) :
          queue' = [queue EXCEPT ![Ready] = q]
    BY <1>4
  <2>3. Ready \in Tag /\ Ready \in ReadyTag
    BY DEF Ready, Tag, ReadyTag
  <2>4. \A t \in Tag : current \notin Range(queue[t])
    BY DEF Placement
  <2>5. /\ q \in Seq(PCB) /\ Range(q) = Range(rest) \cup {current} /\ IsInjective(q)
        /\ Sorted(q, priority)
    <3>1. current \notin Range(rest)
      BY <2>1, <2>3, <2>4
    <3>2. \A x \in live : priority[x] \in Int
      BY SchedulerAssumption DEF TypeOK
    <3>3. priority[current] \in Int /\ \A x \in Range(rest) : priority[x] \in Int
      BY <1>2, <2>1, <2>3, <3>2 DEF Placement
    <3> HIDE DEF rest
    <3> QED
      BY <1>2, <2>1, <2>2, <2>3, <3>1, <3>3, EnqueuedQueue
  <2> HIDE DEF rest, d
  <2>6. /\ queue' \in [Tag -> Seq(PCB)]
        /\ \A t \in Tag : queue'[t] = IF t = Ready THEN q ELSE queue[t]
    BY <2>2, <2>3, <2>5 DEF TypeOK
  <2>7. \A t \in Tag : Range(queue'[t]) =
                         IF t = Ready THEN (Range(queue[t]) \ {d}) \cup {current}
                         ELSE Range(queue[t])
    BY <2>1, <2>5, <2>6
  <2>8. TypeOK'
    BY <1>1, <2>1, <2>6 DEF TypeOK, d
  <2>9. Placement'
    <3>1. \A t \in Tag : IsInjective(queue'[t])
      BY <2>5, <2>6 DEF Placement
    <3>2. \A t, u \in Tag : t # u => Range(queue'[t]) \cap Range(queue'[u]) = {}
      BY <2>3, <2>4, <2>7 DEF Placement
    <3>3. ASSUME NEW t \in Tag PROVE Range(queue'[t]) \subseteq live' \ {current'}
      <4>1. Range(queue[t]) \subseteq live
        BY DEF Placement
      <4>2. CASE t = Ready
        <5>1. Range(queue'[t]) = (Range(queue[t]) \ {d}) \cup {current}
          BY <2>7, <4>2
        <5> QED
          BY <1>1, <1>2, <2>1, <4>1, <5>1 DEF d
      <4>3. CASE t # Ready
        <5>1. Range(queue'[t]) = Range(queue[t]) /\ d \notin Range(queue[t])
          BY <2>1, <2>7, <4>3
        <5> QED
          BY <1>1, <4>1, <5>1 DEF d
      <4> QED
        BY <4>2, <4>3
    <3>4. ASSUME NEW x \in live'
          PROVE  x = current' \/ \E t \in Tag : x \in Range(queue'[t])
      <4>1. CASE x = current
        BY <2>3, <2>7, <4>1
      <4>2. CASE x # current
        <5>1. PICK t \in Tag : x \in Range(queue[t])
          BY <1>1, <4>2 DEF Placement
        <5>2. x = d \/ x \in Range(queue'[t])
          BY <2>7, <5>1
        <5> QED
          BY <5>2 DEF d
      <4> QED
        BY <4>1, <4>2
    <3> QED
      BY <3>1, <3>2, <3>3, <3>4 DEF Placement
  <2>10. ReadySorted'
    BY <1>1, <2>5, <2>6 DEF ReadySorted, ReadyTag, Tag, SusReady, Ready
  <2>11. SystemReady'
    <3> SUFFICES ASSUME NEW x \in live', class'[x] = SYSTEM
                 PROVE  x = current' \/ x \in Range(queue'[Ready])
      BY DEF SystemReady
    <3>1. x = current \/ x \in Range(queue[Ready])
      BY <1>1 DEF SystemReady
    <3>2. Range(queue'[Ready]) = (Range(queue[Ready]) \ {d}) \cup {current}
      BY <2>3, <2>7
    <3> QED
      BY <3>1, <3>2 DEF d
  <2>12. Control'
    BY <1>1, <2>1 DEF Control, d
  <2> QED
    BY <2>8, <2>9, <2>10, <2>11, <2>12
<1> QED
  BY <1>3, <1>4 DEF Yield

\* sys_req(EXIT) of the current process.
LEMMA ExitStep ==
  ASSUME Inv, Exit
  PROVE  Inv'
PROOF
<1> USE DEF Inv
<1> DEFINE rest == Tail(queue[Ready])
           d == current'
<1>1. phase = "running" /\ current # Idle /\ Free(current)
  BY DEF Exit
<1>2. /\ live' = live \ {current} /\ live' \subseteq PCB
      /\ class' \in [live' -> {SYSTEM, USER}] /\ \A x \in live' : class'[x] = class[x]
      /\ priority' \in [live' -> Priority] /\ \A x \in live' : priority'[x] = priority[x]
  BY <1>1, FreeFacts
<1>3. CASE ReturnToKmain
  BY <1>1, <1>2, <1>3, ReturnStep
<1>4. CASE Dispatch /\ queue' = [queue EXCEPT ![Ready] = rest]
  <2>1. /\ phase' = "running" /\ d \in Range(queue[Ready]) /\ d \in live /\ d \in PCB
        /\ d # current
        /\ rest \in Seq(PCB) /\ IsInjective(rest)
        /\ Range(rest) = Range(queue[Ready]) \ {d}
        /\ Sorted(rest, priority)
        /\ \A t \in Tag : t # Ready => d \notin Range(queue[t])
    BY <1>4, DispatchFacts
  <2>2. Ready \in Tag
    BY DEF Ready, Tag
  <2> HIDE DEF rest, d
  <2>3. /\ queue' \in [Tag -> Seq(PCB)]
        /\ \A t \in Tag : queue'[t] = IF t = Ready THEN rest ELSE queue[t]
    BY <1>4, <2>1 DEF TypeOK
  <2>4. \A t \in Tag : Range(queue'[t]) = Range(queue[t]) \ {d}
    BY <2>1, <2>3
  <2>5. TypeOK'
    BY <1>2, <2>1, <2>3 DEF TypeOK, d
  <2>6. Placement'
    <3>1. \A t \in Tag : IsInjective(queue'[t])
      BY <2>1, <2>3 DEF Placement
    <3>2. \A t, u \in Tag : t # u => Range(queue'[t]) \cap Range(queue'[u]) = {}
      BY <2>4 DEF Placement
    <3>3. \A t \in Tag : Range(queue'[t]) \subseteq live' \ {current'}
      BY <1>2, <2>4 DEF Placement, d
    <3>4. \A x \in live' : x = current' \/ \E t \in Tag : x \in Range(queue'[t])
      BY <1>1, <1>2, <2>4 DEF Placement, d
    <3> QED
      BY <3>1, <3>2, <3>3, <3>4 DEF Placement
  <2>7. ReadySorted'
    <3> SUFFICES ASSUME NEW t \in ReadyTag PROVE Sorted(queue'[t], priority')
      BY DEF ReadySorted
    <3>1. t \in Tag /\ Sorted(queue[t], priority)
      BY DEF ReadySorted, ReadyTag, Tag, SusReady, Ready
    <3>2. Sorted(queue'[t], priority)
      BY <2>1, <2>3, <3>1
    <3>3. \A x \in Range(queue'[t]) : priority[x] = priority'[x]
      BY <1>2, <2>4, <3>1 DEF Placement
    <3> QED
      BY <3>2, <3>3, SortedAgree
  <2>8. SystemReady'
    BY <1>1, <1>2, <2>2, <2>4 DEF SystemReady, d
  <2>9. Control'
    BY <1>1, <1>2, <2>1 DEF Control, d
  <2> QED
    BY <2>5, <2>6, <2>7, <2>8, <2>9
<1> QED
  BY <1>3, <1>4 DEF Exit

\* Every step keeps the invariant.
LEMMA NextInv == Inv /\ [Next]_vars => Inv'
PROOF
<1> SUFFICES ASSUME Inv, [Next]_vars PROVE Inv'
  OBVIOUS
<1>1. CASE Boot
  <2>1. PICK p \in {Comhand, Idle}, n \in Priority : Admit(p, SYSTEM, n)
    BY <1>1 DEF Boot
  <2>2. /\ TypeOK' /\ Placement' /\ ReadySorted' /\ SystemReady'
        /\ live' = live \cup {p} /\ class'[p] = SYSTEM
        /\ \A x \in live : class'[x] = class[x]
        /\ UNCHANGED <<current, phase>>
    BY <2>1, SchedulerAssumption, AdmitStep
  <2>3. Control'
    BY <1>1, <2>2 DEF Boot, Inv, Control
  <2> QED
    BY <2>2, <2>3 DEF Inv
<1>2. CASE Command
  <2>1. CASE Load
    <3>1. PICK p \in PCB, c \in {SYSTEM, USER}, n \in Priority : Admit(p, c, n)
      BY <2>1 DEF Load
    <3>2. /\ TypeOK' /\ Placement' /\ ReadySorted' /\ SystemReady'
          /\ live' = live \cup {p}
          /\ \A x \in live : class'[x] = class[x]
          /\ UNCHANGED <<current, phase>>
      BY <3>1, AdmitStep
    <3>3. Control'
      BY <1>2, <3>2 DEF Command, Inv, Control
    <3> QED
      BY <3>2, <3>3 DEF Inv
  <2>2. ASSUME NEW t \in Tag, NEW k \in DOMAIN queue[t],
               \/ \E u \in Tag : Move(t, k, u)
               \/ \E n \in Priority : Reprioritise(t, k, n)
               \/ Delete(t, k)
        PROVE  Inv'
    BY <2>2, MoveStep, ReprioritiseStep, DeleteStep
  <2> QED
    BY <1>2, <2>1, <2>2 DEF Command
<1>3. CASE Start
  BY <1>3, StartStep
<1>4. CASE Yield
  BY <1>4, YieldStep
<1>5. CASE Exit
  BY <1>5, ExitStep
<1>6. CASE Halted \/ UNCHANGED vars
  BY <1>6 DEF Halted, vars, Inv, TypeOK, Placement, ReadySorted, SystemReady, Control
<1> QED
  BY <1>1, <1>2, <1>3, <1>4, <1>5, <1>6 DEF Next

-----------------------------------------------------------------------------

\* Inv holds in every reachable state of the scheduler.
THEOREM Invariance == Spec => []Inv
PROOF
<1> QED
  BY InitInv, NextInv, PTL DEF Spec

\* Type correctness of the scheduler.
THEOREM TypeCorrect == Spec => []TypeOK
PROOF
<1>1. Inv => TypeOK
  BY DEF Inv
<1> QED
  BY <1>1, Invariance, PTL

\* No command and no switch loses a process, queues it twice, or leaves a
\* freed PCB in a queue, however many PCBs there are.
THEOREM ProcessesPlaced == Spec => []Placement
PROOF
<1>1. Inv => Placement
  BY DEF Inv
<1> QED
  BY <1>1, Invariance, PTL

\* enqueue's two ordered queues are always ordered.
THEOREM ReadyQueuesSorted == Spec => []ReadySorted
PROOF
<1>1. Inv => ReadySorted
  BY DEF Inv
<1> QED
  BY <1>1, Invariance, PTL

\* A system process, the idle process among them, is never parked.
THEOREM SystemAlwaysReady == Spec => []SystemReady
PROOF
<1>1. Inv => SystemReady
  BY DEF Inv
<1> QED
  BY <1>1, Invariance, PTL

\* kmain resumes only from the idle process's own IDLE, with nothing ready.
THEOREM KmainResumesLast == Spec => KmainLast
PROOF
<1>1. Inv /\ [Next]_vars =>
        [phase # "halted" /\ phase' = "halted" => current = Idle /\ queue[Ready] = << >>]_vars
  <2> SUFFICES ASSUME Inv, Next, phase # "halted", phase' = "halted"
               PROVE  current = Idle /\ queue[Ready] = << >>
    BY DEF vars
  <2>1. phase = "running" /\ ReturnToKmain /\ (Yield \/ Exit)
    BY DEF Next, Boot, Admit, Command, Load, Move, Reprioritise, Delete, Start,
           Dispatch, Yield, Exit, Halted
  <2>2. queue[Ready] = << >>
    BY <2>1 DEF ReturnToKmain
  <2>3. Range(queue[Ready]) = {}
    BY <2>2 DEF Range
  <2> QED
    BY <2>1, <2>2, <2>3 DEF Inv, Control, SystemReady
<1> QED
  BY <1>1, Invariance, PTL DEF Spec, KmainLast

=============================================================================
