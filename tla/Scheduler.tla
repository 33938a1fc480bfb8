------------------------------ MODULE Scheduler ------------------------------
(***************************************************************************)
(* What the process layer of MPX promises: which process runs, which wait, *)
(* and in which order the waiting ones are served.  The four process       *)
(* queues of kernel/pcb.c are sequences here; how they are built from      *)
(* linked PCBs is the business of module Kernel, which implements this     *)
(* specification.                                                          *)
(***************************************************************************)
EXTENDS Integers, SequencesExt

CONSTANTS PCB,      \* the PCBs the heap can hold
          NULL,     \* the null pointer
          Comhand,  \* the PCB of the command handler
          Idle,     \* the PCB of the system idle process
          Priority  \* the priorities in use, 0 (most urgent) to 9

ASSUME SchedulerAssumption ==
  /\ NULL \notin PCB
  /\ Comhand \in PCB
  /\ Idle \in PCB
  /\ Comhand # Idle
  /\ Priority \subseteq Int

VARIABLES queue,    \* enum queue_tag -> the PCBs of that queue, first to last
          current,  \* current_process of sys_call.c
          live,     \* the PCBs that are allocated
          class,    \* process_class of every allocated PCB
          priority, \* process_priority of every allocated PCB
          phase     \* where kmain is: before, in, or after its one IDLE request

vars == <<queue, current, live, class, priority, phase>>

\* enum queue_tag and enum class_type of pcb.h.
SusReady == 0
Ready == 1
SusBlocked == 2
Blocked == 3
Tag == 0..3
ReadyTag == {SusReady, Ready}
SYSTEM == 0
USER == 1

-----------------------------------------------------------------------------

(***************************************************************************)
(* The order promised by enqueue: the suspended-ready and ready queues are *)
(* ordered by priority, first come first served within one priority; the   *)
(* two blocked queues are plain FIFOs.                                     *)
(***************************************************************************)
IsSlot(q, t, p, prio, k) ==
  IF t \in ReadyTag
  THEN /\ \A i \in 1..(k - 1) : prio[q[i]] <= prio[p]
       /\ \A i \in k..Len(q) : prio[p] < prio[q[i]]
  ELSE k = Len(q) + 1

\* q with p put into queue t: one sequence for each slot the order allows.
Enqueued(q, t, p, prio) ==
  {InsertAt(q, k, p) : k \in {i \in 1..(Len(q) + 1) : IsSlot(q, t, p, prio, i)}}

Init ==
  /\ queue = [t \in Tag |-> << >>]
  /\ current = NULL
  /\ live = {}
  /\ class = << >>
  /\ priority = << >>
  /\ phase = "boot"

\* f with p -> v added.
With(f, p, v) == [q \in DOMAIN f \cup {p} |-> IF q = p THEN v ELSE f[q]]

\* A new PCB with class c and priority n joins the ready queue.
Admit(p, c, n) ==
  /\ p \notin live
  /\ live' = live \cup {p}
  /\ class' = With(class, p, c)
  /\ priority' = With(priority, p, n)
  /\ \E q \in Enqueued(queue[Ready], Ready, p, priority') :
       queue' = [queue EXCEPT ![Ready] = q]
  /\ UNCHANGED <<current, phase>>

\* kmain creates the command handler, then the idle process.
Boot ==
  /\ phase = "boot"
  /\ \/ live = {} /\ \E n \in Priority : Admit(Comhand, SYSTEM, n)
     \/ live = {Comhand} /\ \E n \in Priority : Admit(Idle, SYSTEM, n)

\* Load a user process (or, with create_pcb, a process of either class).
Load ==
  \E p \in PCB, c \in {SYSTEM, USER}, n \in Priority : Admit(p, c, n)

\* Mutant: a system process may be moved too.
MoveAnyClass(t, k, u) ==
  LET p == queue[t][k] IN
  /\ u # t
  /\ \E q \in Enqueued(queue[u], u, p, priority) :
       queue' = [queue EXCEPT ![t] = RemoveAt(@, k), ![u] = q]
  /\ UNCHANGED <<current, live, class, priority, phase>>

\* Suspend, resume, block or unblock the k-th process of queue t.
Move(t, k, u) ==
  LET p == queue[t][k] IN
  /\ u # t
  /\ class[p] = USER
  /\ \E q \in Enqueued(queue[u], u, p, priority) :
       queue' = [queue EXCEPT ![t] = RemoveAt(@, k), ![u] = q]
  /\ UNCHANGED <<current, live, class, priority, phase>>

\* Mutant: the process is not queued again.
ReprioritiseInPlace(t, k, n) ==
  /\ priority' = [priority EXCEPT ![queue[t][k]] = n]
  /\ UNCHANGED <<queue, current, live, class, phase>>

\* Give the k-th process of queue t priority n; a ready one loses its place.
Reprioritise(t, k, n) ==
  LET p == queue[t][k] IN
  /\ priority' = [priority EXCEPT ![p] = n]
  /\ IF t \in ReadyTag
     THEN \E q \in Enqueued(RemoveAt(queue[t], k), t, p, priority') :
            queue' = [queue EXCEPT ![t] = q]
     ELSE queue' = queue
  /\ UNCHANGED <<current, live, class, phase>>

\* Mutant: the table of priorities keeps the freed process.
FreeKeepsPriority(p) ==
  /\ live' = live \ {p}
  /\ class' = Restrict(class, live')
  /\ UNCHANGED priority

\* The PCB p goes back to the heap.
Free(p) ==
  /\ live' = live \ {p}
  /\ class' = Restrict(class, live')
  /\ priority' = Restrict(priority, live')

\* Mutant: a system process may be deleted too.
DeleteAnyClass(t, k) ==
  /\ Free(queue[t][k])
  /\ queue' = [queue EXCEPT ![t] = RemoveAt(@, k)]
  /\ UNCHANGED <<current, phase>>

\* Delete the k-th process of queue t.
Delete(t, k) ==
  /\ class[queue[t][k]] = USER
  /\ Free(queue[t][k])
  /\ queue' = [queue EXCEPT ![t] = RemoveAt(@, k)]
  /\ UNCHANGED <<current, phase>>

\* Every change of the process table is a command, so Comhand is running.
Command ==
  /\ phase = "running" /\ current = Comhand
  /\ \/ Load
     \/ \E t \in Tag : \E k \in DOMAIN queue[t] :
          \/ \E u \in Tag : Move(t, k, u)
          \/ \E n \in Priority : Reprioritise(t, k, n)
          \/ Delete(t, k)

\* The head of the ready queue becomes the current process.
Dispatch ==
  /\ queue[Ready] # << >>
  /\ current' = Head(queue[Ready])
  /\ phase' = "running"

\* Nothing is ready: kmain goes on after its IDLE request and the CPU halts.
ReturnToKmain ==
  /\ queue[Ready] = << >>
  /\ current' = NULL
  /\ phase' = "halted"
  /\ UNCHANGED queue

\* kmain's IDLE request, the only one made without a current process.
Start ==
  /\ phase = "boot" /\ Idle \in live
  /\ Dispatch
  /\ queue' = [queue EXCEPT ![Ready] = Tail(@)]
  /\ UNCHANGED <<live, class, priority>>

\* Mutant: the dispatched process is not taken out of the queue.
YieldKeepsHead ==
  /\ phase = "running"
  /\ \/ /\ Dispatch
        /\ \E q \in Enqueued(queue[Ready], Ready, current, priority) :
             queue' = [queue EXCEPT ![Ready] = q]
     \/ ReturnToKmain
  /\ UNCHANGED <<live, class, priority>>

\* The current process asks for IDLE: it queues behind its equals.
Yield ==
  /\ phase = "running"
  /\ \/ /\ Dispatch
        /\ \E q \in Enqueued(Tail(queue[Ready]), Ready, current, priority) :
             queue' = [queue EXCEPT ![Ready] = q]
     \/ ReturnToKmain
  /\ UNCHANGED <<live, class, priority>>

\* The current process asks for EXIT; the idle process never does.
Exit ==
  /\ phase = "running" /\ current # Idle
  /\ Free(current)
  /\ \/ /\ Dispatch
        /\ queue' = [queue EXCEPT ![Ready] = Tail(@)]
     \/ ReturnToKmain

\* kmain has returned to boot.s: the CPU is halted for good.
Halted == phase = "halted" /\ UNCHANGED vars

Next ==
  \/ Boot
  \/ Start
  \/ Command
  \/ Yield
  \/ Exit
  \/ Halted

Spec == Init /\ [][Next]_vars

-----------------------------------------------------------------------------

TypeOK ==
  /\ queue \in [Tag -> Seq(PCB)]
  /\ current \in PCB \cup {NULL}
  /\ live \subseteq PCB
  /\ class \in [live -> {SYSTEM, USER}]
  /\ priority \in [live -> Priority]
  /\ phase \in {"boot", "running", "halted"}

(***************************************************************************)
(* Until kmain resumes, every allocated process is the current one or      *)
(* waits at exactly one place of one queue, and nothing else is queued:    *)
(* no command and no context switch of sys_call loses a process, queues it *)
(* twice, or leaves a freed PCB behind.                                    *)
(***************************************************************************)
Placement ==
  /\ \A t \in Tag : IsInjective(queue[t])
  /\ \A t, u \in Tag : t # u => Range(queue[t]) \cap Range(queue[u]) = {}
  /\ \A t \in Tag : Range(queue[t]) \subseteq live \ {current}
  /\ phase # "halted" =>
       \A p \in live : p = current \/ \E t \in Tag : p \in Range(queue[t])

\* q is ordered by the priorities prio, the most urgent first.
Sorted(q, prio) == \A i, j \in DOMAIN q : i < j => prio[q[i]] <= prio[q[j]]

\* The queues that enqueue orders by priority stay ordered, although
\* set_pcb_priority changes the key of a process that is already queued.
ReadySorted == \A t \in ReadyTag : Sorted(queue[t], priority)

(***************************************************************************)
(* Until kmain resumes, a system process is running or ready: suspending,  *)
(* blocking and deleting it are refused.  So the idle process is always    *)
(* there to be dispatched.                                                 *)
(***************************************************************************)
SystemReady ==
  phase # "halted" =>
    \A p \in live : class[p] = SYSTEM => p = current \/ p \in Range(queue[Ready])

\* sys_call gives the CPU back to kmain only when the idle process asks for
\* IDLE and nothing else is ready; never from an EXIT, and never while
\* another process could run.
KmainLast ==
  [][phase # "halted" /\ phase' = "halted" => current = Idle /\ queue[Ready] = << >>]_vars

=============================================================================
