------------------------------ MODULE Startup ------------------------------
(***************************************************************************)
(* kmain from the boot loader to comhand: the steps of Boot, with vm_init  *)
(* and kmalloc of VirtualMemory as the steps of kmain that they are.       *)
(* Interrupts are enabled while vm_init runs.                              *)
(***************************************************************************)
EXTENDS Boot

CONSTANTS PAGE_SIZE, Entries, Slack, HeapPage, HeapPages, Machines, NULL,
          Sizes   \* sizes of the blocks that are asked for

VARIABLES pc, machine, i, page, tables, pages, frames, phys_alloc_addr, heap_addr,
          regions, blocks

Memory == INSTANCE VirtualMemory

memory == <<pc, machine, i, page, tables, pages, frames, phys_alloc_addr, heap_addr,
            regions, blocks>>
allVars == <<vars, memory>>

\* The frames are all in front of the heap: MEM_SIZE < KHEAP_BASE.
ASSUME StartupAssumption ==
  /\ NULL \notin Nat
  /\ {PAGE_SIZE, Entries, HeapPages} \subseteq Nat \ {0}
  /\ {Slack, HeapPage} \subseteq Nat
  /\ \A mach \in Machines :
       /\ mach[1] \in Nat /\ mach[2] \in 0 .. HeapPage
       /\ mach[3] \subseteq BOOLEAN \X Nat
  /\ Sizes \subseteq 0 .. HeapPages * PAGE_SIZE

StartupInit == Init /\ Memory!Init

\* kmain is in the function called name.
In(name) == cpu = "run" /\ logged /\ step < Len(Steps) /\ Steps[step + 1] = name

\* kmain goes on when vm_init has enabled paging and initialize_heap has its
\* memory.  A panic in either halts the CPU with interrupts disabled.
BootStep ==
  /\ pc # "panic"
  /\ Next
  /\ In("vm_init") /\ step' # step => pc = "done"
  /\ In("modules") /\ step' # step => blocks # {}
  /\ UNCHANGED memory

vm_init == In("vm_init") /\ Memory!InitStep /\ UNCHANGED vars

\* initialize_heap, once.
initialize_heap(size) ==
  /\ In("modules") /\ blocks = {}
  /\ Memory!kmalloc(size)
  /\ UNCHANGED vars

\* Later calls: none is in the sources, the interface allows them.
kmalloc(size) ==
  /\ step = Len(Steps)
  /\ Memory!kmalloc(size)
  /\ UNCHANGED vars

Halted == Memory!hlt /\ UNCHANGED vars

StartupNext ==
  \/ BootStep
  \/ vm_init
  \/ \E size \in Sizes : initialize_heap(size) \/ kmalloc(size)
  \/ Halted

StartupSpec == StartupInit /\ [][StartupNext]_allVars

\* Nothing but interrupts keeps kmain from its next step.
FairStartup ==
  /\ StartupSpec
  /\ WF_allVars(BootStep /\ Kmain) /\ WF_allVars(BootStep /\ Interrupt)
  /\ WF_allVars(vm_init) /\ WF_allVars(\E size \in Sizes : initialize_heap(size))

-----------------------------------------------------------------------------

\* The kernel image, the page tables and the blocks of the heap never overlap,
\* and every page table is on a page boundary.
AllocationsApart == Memory!AllocationsApart

\* When paging is enabled, and memory was zero at boot, all that was in use before is mapped to
\* itself, also the page tables made while mapping it, and page 0 is not mapped;
\* every page of the heap has a frame of its own; and the physical address that
\* kmalloc reports holds for the whole block.
MemoryMapped ==
  Memory!Clean => Memory!IdentityMapped /\ Memory!HeapBacked /\ Memory!PhysicalHolds

\* With as many frames as there are pages in front of the heap, and memory that
\* is zero, comhand gets control: vm_init ends although its loop moves its own
\* limit, and interrupts do not keep kmain from going on.
StartsUp ==
  Memory!NFRAMES >= HeapPage /\ Memory!Clean =>
    <>(step = Len(Steps) /\ cpu = "run" /\ flag)

=============================================================================
