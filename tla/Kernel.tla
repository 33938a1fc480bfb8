------------------------------- MODULE Kernel -------------------------------
(***************************************************************************)
(* The process layer of MPX as the code has it: kmain starts the command   *)
(* handler and the idle process; processes give up the CPU only through    *)
(* sys_req(IDLE) and sys_req(EXIT), served by sys_call; the commands of    *)
(* the command handler change the process queues in between.               *)
(*                                                                         *)
(* A step is what one process does between two requests, or one command.   *)
(* READ and WRITE poll the serial port without giving up the CPU, so they  *)
(* are no steps of their own.                                              *)
(***************************************************************************)
EXTENDS PcbQueues

CONSTANTS Comhand,   \* the PCB the command handler gets
          Idle,      \* the PCB the system idle process gets
          Priority,  \* the priorities in use, of 0..9
          Entered,   \* the numbers the user may enter as a priority
          R3,        \* what load_r3 loads: a sequence of [name, rc]
          Name,      \* the names the user may enter at a prompt
          LongName,  \* those of 8 to 20 characters
          Offers     \* the sets of commands a command handler may know

ASSUME KernelAssumption ==
  /\ IsFiniteSet(PCB)
  /\ NULL \notin PCB
  /\ {Comhand, Idle} \subseteq PCB
  /\ Comhand # Idle
  /\ {0, 3, 9} \subseteq Priority
  /\ Priority \subseteq 0..9
  /\ Entered \cap 0..9 \subseteq Priority
  /\ R3 # << >> /\ R3 \in Seq([name : STRING, rc : Nat])
  /\ LongName \subseteq Name

VARIABLES m,                \* the PCBs and the four queues, see PcbQueues
          live,             \* the PCBs that are allocated
          current_process,  \* of sys_call.c
          initial_context,  \* of sys_call.c: kmain's, while processes run
          cpu,              \* the context the CPU is executing
          commands          \* the commands comhand knows, one of Offers

vars == <<m, live, current_process, initial_context, cpu, commands>>

-----------------------------------------------------------------------------

(***************************************************************************)
(* Contexts.  A context lives on the stack of one PCB (NULL for kmain's    *)
(* boot stack) and says which function it executes, where it is, and how   *)
(* often it still has to go round.                                         *)
(***************************************************************************)
Context(stack, fn, pc, left) ==
  [stack |-> stack, fn |-> fn, pc |-> pc, left |-> left]

\* What pcb_allocate leaves on a stack: zeros, which is no function's code.
ZeroContext(p) == Context(p, "none", "none", 0)

\* Memory that is not allocated.  What it holds is of no consequence (no
\* pointer leads there, see PlacedByState), so one value stands for all.
Garbage(p) == [process_name |-> "none", process_class |-> USER,
               process_priority |-> 9, exe_state |-> READY,
               disp_state |-> NOT_SUSPENDED, context |-> ZeroContext(p),
               next_pcbPtr |-> NULL, prev_pcbPtr |-> NULL]

Init ==
  /\ m = [pcb |-> [p \in PCB |-> Garbage(p)],
          queue |-> [t \in queue_tag |-> [queue_head |-> NULL, queue_tail |-> NULL]]]
  /\ live = {}
  /\ current_process = NULL
  /\ initial_context = NULL
  /\ cpu = Context(NULL, "kmain", "create comhand", 0)
  /\ commands \in Offers

At(fn, pc) == cpu.fn = fn /\ cpu.pc = pc

Goto(pc) == cpu' = [cpu EXCEPT !.pc = pc]

\* A PCB set up on free memory and put into its queue.
Create(p, name, class, priority, context) ==
  /\ p \in PCB \ live
  /\ live' = live \cup {p}
  /\ m' = pcb_insert(pcb_setup(m, p, name, class, priority, context), p)

pcb_free(mm, p) == [mm EXCEPT !.pcb[p] = Garbage(p)]

-----------------------------------------------------------------------------

(***************************************************************************)
(* sys_call.                                                               *)
(***************************************************************************)

\* Both requests end alike: run the head of the ready queue, which has been
\* removed from it in memory mm, or go back to kmain.
Switch(head, mm) ==
  /\ m' = mm
  /\ current_process' = head
  /\ cpu' = mm.pcb[head].context

ReturnToInitial(mm, initial) ==
  /\ m' = mm
  /\ cpu' = initial
  /\ initial_context' = NULL
  /\ current_process' = NULL

\* Mutant: the context is saved after current_process has been set.
sys_call_IDLE_saves_late(current_context) ==
  LET initial == IF initial_context = NULL THEN current_context ELSE initial_context
      head == m.queue[READY_QUEUE_TAG].queue_head
      removed == pcb_remove(m, head)
      saved == [removed EXCEPT !.pcb[head].context = current_context]
  IN  /\ IF head # NULL
         THEN /\ Switch(head, IF current_process # NULL
                              THEN pcb_insert(saved, current_process)
                              ELSE removed)
              /\ initial_context' = initial
         ELSE ReturnToInitial(m, initial)
      /\ UNCHANGED live

\* Mutant: the context is not saved.
sys_call_IDLE_no_save(current_context) ==
  LET initial == IF initial_context = NULL THEN current_context ELSE initial_context
      head == m.queue[READY_QUEUE_TAG].queue_head
      removed == pcb_remove(m, head)
  IN  /\ IF head # NULL
         THEN /\ Switch(head, IF current_process # NULL
                              THEN pcb_insert(removed, current_process)
                              ELSE removed)
              /\ initial_context' = initial
         ELSE ReturnToInitial(m, initial)
      /\ UNCHANGED live

\* Mutant: the caller is queued before the next process is chosen.
sys_call_IDLE_inserts_first(current_context) ==
  LET initial == IF initial_context = NULL THEN current_context ELSE initial_context
      queued == IF current_process = NULL THEN m
                ELSE pcb_insert([m EXCEPT !.pcb[current_process].context = current_context],
                                current_process)
      head == queued.queue[READY_QUEUE_TAG].queue_head
  IN  /\ IF head # NULL
         THEN Switch(head, pcb_remove(queued, head)) /\ initial_context' = initial
         ELSE ReturnToInitial(m, initial)
      /\ UNCHANGED live

\* IDLE, with the context of the caller to save.
sys_call_IDLE(current_context) ==
  LET initial == IF initial_context = NULL THEN current_context ELSE initial_context
      head == m.queue[READY_QUEUE_TAG].queue_head
      removed == pcb_remove(m, head)
      saved == [removed EXCEPT !.pcb[current_process].context = current_context]
  IN  /\ IF head # NULL
         THEN /\ Switch(head, IF current_process # NULL
                              THEN pcb_insert(saved, current_process)
                              ELSE removed)
              /\ initial_context' = initial
         ELSE ReturnToInitial(m, initial)
      /\ UNCHANGED live

\* EXIT.  The PCB is freed first, with the stack sys_call still runs on.
sys_call_EXIT ==
  LET freed == pcb_free(m, current_process)
      head == freed.queue[READY_QUEUE_TAG].queue_head
  IN  /\ live' = live \ {current_process}
      /\ IF head # NULL
         THEN Switch(head, pcb_remove(freed, head)) /\ UNCHANGED initial_context
         ELSE ReturnToInitial(freed, initial_context)

-----------------------------------------------------------------------------

(***************************************************************************)
(* kmain.                                                                  *)
(***************************************************************************)
create_comhand_proc ==
  /\ At("kmain", "create comhand")
  /\ Create(Comhand, "comhand", SYSTEM, 0, Context(Comhand, "comhand", "top", 0))
  /\ Goto("create idle")
  /\ UNCHANGED <<current_process, initial_context>>

\* Mutant: the idle process gets the other end of the priorities.
create_system_idle_proc_urgent ==
  /\ At("kmain", "create idle")
  /\ Create(Idle, "idle", SYSTEM, 0, Context(Idle, "idle", "loop", 0))
  /\ Goto("idle")
  /\ UNCHANGED <<current_process, initial_context>>

create_system_idle_proc ==
  /\ At("kmain", "create idle")
  /\ Create(Idle, "idle", SYSTEM, 9, Context(Idle, "idle", "loop", 0))
  /\ Goto("idle")
  /\ UNCHANGED <<current_process, initial_context>>

kmain_idle ==
  /\ At("kmain", "idle")
  /\ sys_call_IDLE([cpu EXCEPT !.pc = "halt"])

\* The CPU is halted, or has jumped to no function's code (kpanic).
IsStopped == At("kmain", "halt") \/ cpu.fn = "none"
Stopped == IsStopped /\ UNCHANGED vars

(***************************************************************************)
(* The processes other than the command handler.                           *)
(***************************************************************************)
sys_idle_process == cpu.fn = "idle" /\ sys_call_IDLE(cpu)

r3_proc ==
  /\ cpu.fn = "r3"
  /\ \/ cpu.left > 0 /\ sys_call_IDLE([cpu EXCEPT !.left = @ - 1])
     \/ cpu.left = 0 /\ sys_call_EXIT

-----------------------------------------------------------------------------

(***************************************************************************)
(* The command handler: yield, prompt, one command, yield, and again.      *)
(***************************************************************************)
comhand_yield ==
  \/ At("comhand", "top") /\ sys_call_IDLE([cpu EXCEPT !.pc = "prompt"])
  \/ At("comhand", "bottom") /\ sys_call_IDLE([cpu EXCEPT !.pc = "top"])

\* The user enters command c.
Command(c) == At("comhand", "prompt") /\ c \in commands

\* A command that leaves processes and queues in memory mm.
Requeued(mm) ==
  /\ m' = mm
  /\ Goto("bottom")
  /\ UNCHANGED <<live, current_process, initial_context>>

\* A command that only prints: every other command of comhand, and every
\* error return of the ones below.
Printed == Requeued(m)

SetExe(mm, p, s) == [mm EXCEPT !.pcb[p].exe_state = s]
SetDisp(mm, p, s) == [mm EXCEPT !.pcb[p].disp_state = s]

delete_pcb(name) ==
  LET p == pcb_find(m, name) IN
  /\ Command("delete pcb")
  /\ IF p # NULL /\ m.pcb[p].process_class # SYSTEM /\ pcb_remove_ok(m, p)
     THEN /\ m' = pcb_free(pcb_remove(m, p), p)
          /\ live' = live \ {p}
          /\ Goto("bottom")
          /\ UNCHANGED <<current_process, initial_context>>
     ELSE Printed

block_pcb(name) ==
  LET p == pcb_find(m, name) IN
  /\ Command("block pcb")
  /\ IF /\ p # NULL /\ m.pcb[p].exe_state # BLOCKED
        /\ m.pcb[p].process_class # SYSTEM /\ pcb_remove_ok(m, p)
     THEN Requeued(pcb_insert(SetExe(pcb_remove(m, p), p, BLOCKED), p))
     ELSE Printed

unblock_pcb(name) ==
  LET p == pcb_find(m, name) IN
  /\ Command("unblock pcb")
  /\ IF p # NULL /\ m.pcb[p].exe_state = BLOCKED /\ pcb_remove_ok(m, p)
     THEN Requeued(pcb_insert(SetExe(pcb_remove(m, p), p, READY), p))
     ELSE Printed

\* Mutant: the state is changed before the PCB is removed.
suspend_pcb_state_first(name) ==
  LET p == pcb_find(m, name)
      set == SetDisp(m, p, SUSPENDED)
  IN  /\ Command("suspend pcb")
      /\ IF p # NULL /\ m.pcb[p].disp_state # SUSPENDED /\ m.pcb[p].process_class # SYSTEM
         THEN Requeued(IF pcb_remove_ok(set, p) THEN pcb_insert(pcb_remove(set, p), p) ELSE set)
         ELSE Printed

suspend_pcb(name) ==
  LET p == pcb_find(m, name) IN
  /\ Command("suspend pcb")
  /\ IF /\ p # NULL /\ m.pcb[p].disp_state # SUSPENDED
        /\ m.pcb[p].process_class # SYSTEM /\ pcb_remove_ok(m, p)
     THEN Requeued(pcb_insert(SetDisp(pcb_remove(m, p), p, SUSPENDED), p))
     ELSE Printed

resume_pcb(name) ==
  LET p == pcb_find(m, name) IN
  /\ Command("resume pcb")
  /\ IF p # NULL /\ m.pcb[p].disp_state = SUSPENDED /\ pcb_remove_ok(m, p)
     THEN Requeued(pcb_insert(SetDisp(pcb_remove(m, p), p, NOT_SUSPENDED), p))
     ELSE Printed

\* Mutant: the range of the new priority is not checked.
set_pcb_priority_unchecked(name, n) ==
  LET p == pcb_find(m, name)
      set == [m EXCEPT !.pcb[p].process_priority = n]
  IN  /\ Command("set pcb priority")
      /\ IF p # NULL
         THEN Requeued(IF m.pcb[p].exe_state = READY
                       THEN pcb_insert(pcb_remove(set, p), p)
                       ELSE set)
         ELSE Printed

\* The key is changed while the PCB is still queued under the old one.
set_pcb_priority(name, n) ==
  LET p == pcb_find(m, name)
      set == [m EXCEPT !.pcb[p].process_priority = n]
  IN  /\ Command("set pcb priority")
      /\ IF p # NULL /\ (n \in 1..9 \/ (n = 0 /\ m.pcb[p].process_class = SYSTEM))
         THEN Requeued(IF m.pcb[p].exe_state = READY
                       THEN pcb_insert(pcb_remove(set, p), p)
                       ELSE set)
         ELSE Printed

\* A failed pcb_setup is not noticed: pcb_insert(NULL) does nothing.
create_pcb(name, class, n) ==
  /\ Command("create pcb")
  /\ \/ /\ name \in LongName /\ n \in 0..9
        /\ pcb_find(m, name) = NULL
        /\ ~(class = USER /\ n = 0)
        /\ \E p \in PCB : Create(p, name, class, n, ZeroContext(p))
        /\ Goto("bottom")
        /\ UNCHANGED <<current_process, initial_context>>
     \/ Printed

\* load_r3 loads its processes one after the other without yielding.
load_r3 ==
  /\ Command("load r3")
  /\ cpu' = [cpu EXCEPT !.pc = "load", !.left = 1]
  /\ UNCHANGED <<m, live, current_process, initial_context>>

\* The i-th of them: loaded, or skipped when the heap has no room for it.
r3_load_pcb ==
  LET i == cpu.left IN
  /\ At("comhand", "load")
  /\ IF i < Len(R3)
     THEN cpu' = [cpu EXCEPT !.left = i + 1]
     ELSE cpu' = [cpu EXCEPT !.pc = "bottom", !.left = 0]
  /\ \/ \E p \in PCB :
          Create(p, R3[i].name, USER, 3, Context(p, "r3", "loop", R3[i].rc))
     \/ UNCHANGED <<m, live>>
  /\ UNCHANGED <<current_process, initial_context>>

\* shutdown, confirmed; the command handler does not come back from EXIT.
shutdown == Command("shutdown") /\ sys_call_EXIT

other_command == \E c \in {"show", "load r3 suspended", "shutdown"} : Command(c) /\ Printed

comhand ==
  \/ comhand_yield
  \/ \E name \in Name :
       \/ delete_pcb(name)
       \/ block_pcb(name)
       \/ unblock_pcb(name)
       \/ suspend_pcb(name)
       \/ resume_pcb(name)
       \/ \E n \in Entered :
            \/ set_pcb_priority(name, n)
            \/ \E class \in {SYSTEM, USER} : create_pcb(name, class, n)
  \/ load_r3
  \/ r3_load_pcb
  \/ shutdown
  \/ other_command

Next ==
  /\ \/ create_comhand_proc
     \/ create_system_idle_proc
     \/ kmain_idle
     \/ comhand
     \/ r3_proc
     \/ sys_idle_process
     \/ Stopped
  /\ UNCHANGED commands

Spec == Init /\ [][Next]_vars

(***************************************************************************)
(* The CPU keeps executing until it is stopped, and the user answers every *)
(* prompt in the end.  This is WF_vars(Next), in parts: a step of the idle *)
(* process may leave everything as it was, if it is dispatched again at    *)
(* once, and every other step of a CPU that is not stopped is a change.    *)
(***************************************************************************)
Fairness ==
  /\ []<>(IsStopped \/ cpu.fn = "idle") \/ []<><<TRUE>>_vars
  /\ WF_vars(sys_idle_process /\ UNCHANGED commands)

FairSpec == Spec /\ Fairness

-----------------------------------------------------------------------------

Fn == {"kmain", "comhand", "idle", "r3", "none"}
Pc == {"create comhand", "create idle", "idle", "halt", "top", "prompt",
       "load", "bottom", "loop", "none"}
ContextType == [stack : PCB \cup {NULL}, fn : Fn, pc : Pc, left : Nat]

\* The null pointer is no context.
ASSUME ContextAssumption == NULL \notin ContextType

\* The names a PCB can have: those kmain, load_r3 and create_pcb give.
ProcessName ==
  {"none", "comhand", "idle"} \cup {R3[i].name : i \in DOMAIN R3} \cup LongName

PcbType == [process_name : ProcessName, process_class : {SYSTEM, USER},
            process_priority : 0..9, exe_state : {READY, BLOCKED},
            disp_state : {SUSPENDED, NOT_SUSPENDED}, context : ContextType,
            next_pcbPtr : PCB \cup {NULL}, prev_pcbPtr : PCB \cup {NULL}]
QueueType == [queue_head : PCB \cup {NULL}, queue_tail : PCB \cup {NULL}]
Memory == [pcb : [PCB -> PcbType], queue : [queue_tag -> QueueType]]

TypeOK ==
  /\ m \in Memory
  /\ live \subseteq PCB
  /\ current_process \in PCB \cup {NULL}
  /\ initial_context \in ContextType \cup {NULL}
  /\ cpu \in ContextType

\* Read backwards from queue_tail, each list is the one read forwards from
\* queue_head reversed, and it has no cycle.
ListsSound ==
  \A t \in queue_tag :
    LET fwd == QueueOf(m, t)
        bwd == Chain(prev_pcbPtr(m), m.queue[t].queue_tail)
    IN  /\ Len(fwd) = Len(bwd)
        /\ \A i \in DOMAIN fwd : fwd[i] = bwd[Len(fwd) + 1 - i]
        /\ \A i, j \in DOMAIN fwd : fwd[i] = fwd[j] => i = j

(***************************************************************************)
(* The queue a PCB is in is the one its two states name, which is where    *)
(* pcb_remove looks for it; and a PCB that is in no queue has no links, on *)
(* which enqueue relies, for it never clears them.                         *)
(***************************************************************************)
PlacedByState ==
  /\ \A t \in queue_tag : \A i \in DOMAIN QueueOf(m, t) :
       /\ QueueOf(m, t)[i] \in live
       /\ queue_sel(m, QueueOf(m, t)[i]) = t
  /\ current_process # NULL =>
       /\ m.pcb[current_process].next_pcbPtr = NULL
       /\ m.pcb[current_process].prev_pcbPtr = NULL

\* The four queues are sound lists, each of live PCBs whose states name it, and
\* the running process is free to join any.
QueuesWellFormed == ListsSound /\ PlacedByState

(***************************************************************************)
(* While processes run, the CPU executes the current process on its own    *)
(* stack, the context saved in every waiting PCB is that PCB's own, and    *)
(* kmain's context is kept for the end.  The CPU never leaves the code:    *)
(* only create_pcb, which comhand does not offer, queues a PCB whose       *)
(* context is none.                                                        *)
(***************************************************************************)
ContextsApart ==
  /\ cpu.stack = current_process
  /\ \A t \in queue_tag : \A i \in DOMAIN QueueOf(m, t) :
       LET p == QueueOf(m, t)[i] IN m.pcb[p].context.stack = p
  /\ (initial_context = NULL) <=> (current_process = NULL)
  /\ initial_context # NULL => initial_context.fn = "kmain"
  /\ "create pcb" \notin commands => cpu.fn # "none"

\* How far process p has come.
Progress(p) == IF p = current_process THEN cpu ELSE m.pcb[p].context

\* A process comes further by running, and only by running: the point at
\* which it goes on is the one at which it gave up the CPU, whatever commands
\* and switches came in between.  (The idle process has only one point.)
ContextKept ==
  [][\A p \in live \cap live' :
       IF p = current_process THEN cpu.fn # "idle" => Progress(p)' # Progress(p)
                              ELSE Progress(p)' = Progress(p)]_vars

\* The idle process is dispatched only when no other process was ready, as long
\* as set_pcb_priority, which takes the idle process too, is not used.
IdleLast ==
  [][current_process' = Idle /\ "set pcb priority" \notin commands =>
       \A i \in DOMAIN QueueOf(m, READY_QUEUE_TAG) :
         QueueOf(m, READY_QUEUE_TAG)[i] = Idle]_vars

\* What it takes beside that: nobody else is given the idle process's priority.
\* load_r3 gives 3, and comhand does not offer create_pcb.
IdleUnrivalled ==
  9 \in Entered => \A K \in Offers : "create pcb" \in K => "set pcb priority" \in K

(***************************************************************************)
(* The kernel implements the scheduler: read as sequences, its lists are   *)
(* the queues of module Scheduler and change as that module allows.        *)
(***************************************************************************)
Abstract == INSTANCE Scheduler WITH
  queue <- [t \in queue_tag |-> QueueOf(m, t)],
  current <- current_process,
  class <- [p \in live |-> m.pcb[p].process_class],
  priority <- [p \in live |-> m.pcb[p].process_priority],
  phase <- IF cpu.fn # "kmain" THEN "running"
           ELSE IF cpu.pc = "halt" THEN "halted" ELSE "boot"

Implements == Abstract!Spec

\* Once the command handler has exited, kmain resumes and the CPU halts,
\* whatever is queued and whatever its priorities are.
ShutdownHalts ==
  (current_process # NULL /\ Comhand \notin live) ~> At("kmain", "halt")

\* p is in the ready queue.
IsReady(p) == \E q \in {QueueOf(m, READY_QUEUE_TAG)} : \E i \in DOMAIN q : q[i] = p

\* A ready user process does not wait for ever: it is dispatched, unless a
\* command suspends or deletes it first.  With other priorities than those
\* processes are created with, it may wait for ever.
NoStarvation ==
  \A p \in PCB \ {Comhand, Idle} :
    ("set pcb priority" \notin commands /\ IsReady(p) /\ m.pcb[p].process_class = USER)
      ~> ("set pcb priority" \in commands \/ ~IsReady(p))

=============================================================================
