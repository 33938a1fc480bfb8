---------------------------- MODULE ProcessHeap ----------------------------
(***************************************************************************)
(* Who allocates from the heap, and who gives back: pcb_setup and pcb_free *)
(* of kernel/pcb.c, the history of serial_poll in kernel/serial.c and the  *)
(* memory commands of user/r5_user_commands.c, on the heap of HeapManager. *)
(* A PCB takes two blocks, so an operation can fail half-way.              *)
(***************************************************************************)
EXTENDS HeapManager

CONSTANTS PcbSize,          \* sizeof(pcb)
          NameSizes,        \* strlen(name) + 1 of the processes' names
          NodeSize,         \* sizeof(previous_buffers)
          BUFFER_LIST_MAX,  \* nodes the history may have
          UserSizes         \* numbers entered for "allocate memory"

ASSUME ProcessHeapAssumption ==
  /\ PcbSize \in Nat \ {0} /\ NodeSize \in Nat \ {0}
  /\ NameSizes \subseteq Nat \ {0}
  /\ UserSizes \subseteq Nat
  /\ {PcbSize, NodeSize} \cup NameSizes \cup UserSizes \subseteq Sizes
  /\ BUFFER_LIST_MAX \in Nat \ {0, 1}

VARIABLES procs,    \* the PCBs in use: address -> [name, role]
          history,  \* the history's nodes, the newest first
          held,     \* what "allocate memory" gave the user
          pc,       \* what the CPU is doing
          back,     \* where the operation returns to
          arg       \* the block the operation has in hand

clients == <<procs, history, held>>
vars == <<hm, owned, ret, procs, history, held, pc, back, arg>>

\* kmain has installed the heap, and creates the first two processes.
ClientsInit ==
  /\ HeapInit
  /\ procs = << >> /\ history = << >> /\ held = {}
  /\ pc = "boot" /\ back = "boot" /\ arg = NULL

\* An operation goes on with block a in hand, or is over.
GoOn(place, caller, a) == pc' = place /\ back' = caller /\ arg' = a
Goto(place) == pc' = place /\ back' = "boot" /\ arg' = NULL

\* The heap's functions have been installed by sys_set_heap_functions.
sys_alloc_mem(size) == allocate_memory(size)
sys_free_mem(ptr) == free_memory(ptr)

-----------------------------------------------------------------------------

\* pcb_setup returns NULL, which load_proc uses and r3_load_pcb does not.
SetupFailed(caller) == IF caller = "boot" THEN "panic" ELSE caller

pcb_allocate ==
  /\ pc \in {"boot", "load"}
  /\ pc = "boot" => Cardinality(DOMAIN procs) < 2
  /\ sys_alloc_mem(PcbSize)
  /\ IF ret' = NULL
     THEN Goto(SetupFailed(pc))
     ELSE GoOn("name", pc, ret')
  /\ UNCHANGED clients

\* kmain creates the command handler, then the idle process.
Role(caller) ==
  IF caller # "boot" THEN "user" ELSE IF procs = << >> THEN "comhand" ELSE "idle"

\* The second allocation of pcb_setup.
pcb_setup_name ==
  /\ pc = "name"
  /\ \E n \in NameSizes : sys_alloc_mem(n)
  /\ IF ret' = NULL
     THEN GoOn("undo", back, arg) /\ UNCHANGED procs
     ELSE Goto(back) /\ procs' = Put(procs, arg, [name |-> ret', role |-> Role(back)])
  /\ UNCHANGED <<history, held>>

\* Mutant: the PCB is kept when there is no room for its name.
pcb_setup_undo_forgotten ==
  /\ pc = "undo"
  /\ Goto(SetupFailed(back))
  /\ UNCHANGED <<hm, owned, ret, procs, history, held>>

pcb_setup_undo ==
  /\ pc = "undo"
  /\ sys_free_mem(arg)
  /\ Goto(SetupFailed(back))
  /\ UNCHANGED clients

\* Called by delete_pcb and EXIT; the PCB has left its queue.  A user process exits
\* while comhand has given up the CPU, or after "shutdown", with which comhand exits:
\* then nothing allocates any more.  The name goes first.
pcb_free(p) ==
  LET after == IF pc = "ended" \/ procs[p].role = "comhand" THEN "ended" ELSE "idle"
  IN  /\ \/ procs[p].role = "user" /\ pc \in {"idle", "command", "ended"}
         \/ procs[p].role = "comhand" /\ pc = "command"
      /\ sys_free_mem(procs[p].name)
      /\ procs' = Restrict(procs, DOMAIN procs \ {p})
      /\ IF ret' # 0 THEN Goto(after) ELSE GoOn("pcb", after, p)
      /\ UNCHANGED <<history, held>>

pcb_free_pcb ==
  /\ pc = "pcb"
  /\ sys_free_mem(arg)
  /\ Goto(back)
  /\ UNCHANGED clients

-----------------------------------------------------------------------------

\* The end of serial_poll: a line has been entered, at the prompt or because
\* a command asked for more.  The new node is not checked for NULL: page 0 is
\* not mapped, so using it is a page fault, which kpanic answers by halting.
serial_poll ==
  /\ pc \in {"idle", "command"}
  /\ sys_alloc_mem(NodeSize)
  /\ IF ret' = NULL
     THEN Goto("panic") /\ UNCHANGED history
     ELSE IF Len(history) < BUFFER_LIST_MAX
     THEN Goto("command") /\ history' = <<ret'>> \o history
     ELSE GoOn("evict", "command", Last(history)) /\ history' = <<ret'>> \o Front(history)
  /\ UNCHANGED <<procs, held>>

serial_poll_evict ==
  /\ pc = "evict"
  /\ sys_free_mem(arg)
  /\ Goto(back)
  /\ UNCHANGED clients

-----------------------------------------------------------------------------

MAX_MEMORY == HeapSize - MCBSize

allocateMemory(size) ==
  /\ pc = "command"
  /\ IF size > MAX_MEMORY \/ size = 0
     THEN UNCHANGED <<hm, owned, ret, held>>
     ELSE /\ allocate_memory(size)
          /\ held' = held \cup ({ret'} \ {NULL})
  /\ Goto("idle")
  /\ UNCHANGED <<procs, history>>

\* The address the user gives is one "allocate memory" printed.
freeMemory(address) ==
  /\ pc = "command"
  /\ free_memory(address)
  /\ held' = held \ {address}
  /\ Goto("idle")
  /\ UNCHANGED <<procs, history>>

\* "load r3" sets up PCBs; the rest of the commands leave the heap alone.
OtherCommand ==
  /\ \/ pc = "command" /\ Goto("load")
     \/ pc \in {"command", "load"} /\ Goto("idle")
  /\ UNCHANGED <<hm, owned, ret, procs, history, held>>

Booted ==
  /\ pc = "boot" /\ Cardinality(DOMAIN procs) = 2
  /\ Goto("idle")
  /\ UNCHANGED <<hm, owned, ret, procs, history, held>>

\* kpanic never returns.
kpanic == pc = "panic" /\ UNCHANGED vars

\* The processes that are left run on, or kmain halts.
Halt == pc = "ended" /\ UNCHANGED vars

ClientsNext ==
  \/ pcb_allocate \/ pcb_setup_name \/ pcb_setup_undo \/ Booted
  \/ \E p \in DOMAIN procs : pcb_free(p)
  \/ pcb_free_pcb
  \/ serial_poll \/ serial_poll_evict
  \/ \E n \in UserSizes : allocateMemory(n)
  \/ \E a \in held : freeMemory(a)
  \/ OtherCommand
  \/ kpanic \/ Halt

-----------------------------------------------------------------------------

(***************************************************************************)
(* What the show commands print: the start addresses they pass.            *)
(***************************************************************************)
Starts(s) == [i \in DOMAIN s |-> start_address(s[i])]

showAllocatedMemory == Starts(Chain(Links(hm, "rel_next"), hm.allocated_list))
showFreeMemory == Starts(Chain(Links(hm, "rel_next"), hm.free_list))

\* Mutant: the walk starts at the first free block.
showAllMemory_from_free == Starts(Chain(Links(hm, "next"), hm.free_list))

\* The walk along the list of all blocks starts at the lower of the heads of
\* the other two, for there is no pointer to its own.
showAllMemory ==
  LET heads == {hm.free_list, hm.allocated_list} \ {NULL}
      index == IF heads = {} THEN NULL ELSE CHOOSE a \in heads : \A b \in heads : a <= b
  IN  Starts(Chain(Links(hm, "next"), index))

-----------------------------------------------------------------------------

\* Every reference to a block, with who holds it.
References ==
  {<<p, "pcb", p>> : p \in DOMAIN procs} \cup {<<procs[p].name, "name", p>> : p \in DOMAIN procs}
  \cup {<<history[i], "history", i>> : i \in DOMAIN history} \cup {<<a, "user", a>> : a \in held}
  \cup (IF pc \in {"name", "undo", "pcb", "evict"} THEN {<<arg, "hand", pc>>} ELSE {})

\* Every allocated block has exactly one holder and every holder an allocated
\* block: also when pcb_setup gets the first block and not the second, pcb_setup,
\* pcb_free and serial_poll leak nothing, give nothing back twice and hold nothing
\* that was given back.  And no two holders share a byte, or have an MCB in theirs.
NoLeak ==
  LET allocated == {start_address(a) : a \in DOMAIN hm.mcb \ FreeBlocks}
  IN  /\ {r[1] : r \in References} = allocated
      /\ \A r, s \in References : r[1] = s[1] => r = s
      /\ OwnedApart

\* "show all memory" shows every block that one of the other two commands
\* shows, each once and in the order of the addresses: its walk never starts
\* behind the first block.
ShowsEveryBlock ==
  /\ Range(showAllMemory) = Range(showAllocatedMemory) \cup Range(showFreeMemory)
  /\ \A i, j \in DOMAIN showAllMemory : i < j => showAllMemory[i] < showAllMemory[j]

=============================================================================
