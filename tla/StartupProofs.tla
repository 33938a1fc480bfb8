---------------------------- MODULE StartupProofs ---------------------------
(***************************************************************************)
(* kmain, for any set of interrupt lines, any page size and any machine:   *)
(* no interrupt comes before its handler, what is allocated stays apart,   *)
(* and vm_init maps what was in use.                                       *)
(***************************************************************************)
EXTENDS Startup, Integers, TLAPS

-----------------------------------------------------------------------------

(***************************************************************************)
(* The steps of Boot.                                                      *)
(***************************************************************************)

\* What each step of kmain has established, and that interrupts are only
\* enabled once all lines are masked.
BootInv ==
  /\ step \in 0..Len(Steps)
  /\ pending \subseteq Lines
  /\ step >= 2 => gdt
  /\ step >= 3 => idt
  /\ step >= 5 => idt_entries[96] = "sys_call_isr"
  /\ step >= 6 => mask = Lines
  /\ flag => step >= 6
  /\ cpu = "run"

\* kmain has ten steps.
LEMMA StepsLen == Len(Steps) = 10
  BY DEF Steps

\* The name of each step of kmain.
LEMMA StepNames ==
  /\ Steps[1] = "serial_init" /\ Steps[2] = "gdt_init" /\ Steps[3] = "idt_init"
  /\ Steps[4] = "cli" /\ Steps[5] = "irq_init" /\ Steps[6] = "pic_init"
  /\ Steps[7] = "sti" /\ Steps[8] = "vm_init" /\ Steps[9] = "modules"
  /\ Steps[10] = "comhand"
  BY DEF Steps

\* A step of kmain is the one at its place in the order.
LEMMA StepAt ==
  ASSUME NEW name, Step(name), step \in 0..10
  PROVE  /\ step' = step + 1 /\ step' \in 1..10
         /\ Steps[step'] = name
         /\ pending' = pending /\ cpu = "run"
  BY StepsLen DEF Step

\* The machine as GRUB leaves it satisfies the invariant.
LEMMA BootInvInit == Init => BootInv
  BY StepsLen, BootAssumption DEF Init, BootInv

\* Every step of kmain, of a device and of the CPU keeps the invariant.
LEMMA BootInvNext == BootInv /\ [Next]_vars => BootInv'
<1> SUFFICES ASSUME BootInv, [Next]_vars PROVE BootInv'
  OBVIOUS
<1> USE StepsLen, StepNames, StepAt
<1>0. step \in 0..10
  BY DEF BootInv
<1>1. CASE klogv
  BY <1>1 DEF BootInv, klogv
<1>2. CASE serial_init
  <2>1. step' = 1
    BY <1>0, <1>2 DEF serial_init
  <2> QED BY <2>1, <1>0, <1>2 DEF BootInv, serial_init
<1>3. CASE gdt_init
  <2>1. step' = 2
    BY <1>0, <1>3 DEF gdt_init
  <2> QED BY <2>1, <1>0, <1>3 DEF BootInv, gdt_init
<1>4. CASE idt_init
  <2>1. step' = 3
    BY <1>0, <1>4 DEF idt_init
  <2> QED BY <2>1, <1>0, <1>4 DEF BootInv, idt_init
<1>5. CASE cli
  <2>1. step' = 4
    BY <1>0, <1>5 DEF cli
  <2> QED BY <2>1, <1>0, <1>5 DEF BootInv, cli
<1>6. CASE irq_init
  <2>1. step' = 5
    BY <1>0, <1>6 DEF irq_init
  <2>2. idt_entries'[96] = "sys_call_isr"
    BY <1>6 DEF irq_init, Vectors
  <2> QED BY <2>1, <2>2, <1>0, <1>6 DEF BootInv, irq_init
<1>7. CASE pic_init
  <2>1. step' = 6
    BY <1>0, <1>7 DEF pic_init
  <2> QED BY <2>1, <1>0, <1>7 DEF BootInv, pic_init
<1>8. CASE sti
  <2>1. step' = 7
    BY <1>0, <1>8 DEF sti
  <2> QED BY <2>1, <1>0, <1>8 DEF BootInv, sti
<1>9. CASE Modules
  <2>1. step' \in 8..9
    BY <1>0, <1>9 DEF Modules
  <2>2. step' = step + 1 /\ pending' = pending
    BY <1>0, <1>9 DEF Modules
  <2> QED BY <2>1, <2>2, <1>0, <1>9 DEF BootInv, Modules
<1>10. CASE Interrupt
  <2>1. Requests = {}
    BY DEF BootInv, Requests
  <2>2. PICK vector \in Instruction :
          /\ Enter(vector)
          /\ flag' = (cpu' = "run")
          /\ step' = IF vector = 96 THEN step + 1 ELSE step
          /\ pending' \subseteq pending
          /\ UNCHANGED <<gdt, idt, idt_entries, mask>>
    BY <2>1, <1>10 DEF Interrupt
  <2>3. vector = 96 /\ step < 10 /\ Steps[step + 1] = "comhand"
    BY <2>2 DEF Instruction
  <2>4. step = 9
    BY <2>3, <1>0
  <2>5. cpu' = "run"
    <3>1. idt /\ gdt /\ idt_entries[96] = "sys_call_isr"
      BY <2>4 DEF BootInv
    <3>2. 96 \in Vectors /\ "sys_call_isr" # None /\ "sys_call_isr" # "kpanic"
      BY BootAssumption DEF Vectors
    <3> QED BY <2>2, <2>3, <3>1, <3>2 DEF Enter
  <2> QED BY <2>2, <2>3, <2>4, <2>5 DEF BootInv
<1>11. ASSUME NEW line \in Lines, Raise(line) PROVE BootInv'
  BY <1>11 DEF BootInv, Raise
<1>12. CASE Rest
  BY <1>12 DEF BootInv, Rest, vars
<1>13. CASE UNCHANGED vars
  BY <1>13 DEF BootInv, vars
<1> QED
  BY <1>1, <1>2, <1>3, <1>4, <1>5, <1>6, <1>7, <1>8, <1>9, <1>10, <1>11, <1>12, <1>13 DEF Next, Kmain

\* For any set of interrupt lines, any masks left by the BIOS and any requests
\* at any time, kmain never takes an interrupt it has no handler for.
THEOREM NoStrayInterrupt == Spec => []NoStray
<1>1. BootInv => NoStray
  BY DEF BootInv, NoStray
<1> QED
  BY <1>1, BootInvInit, BootInvNext, PTL DEF Spec

-----------------------------------------------------------------------------

(***************************************************************************)
(* Addresses and pages.                                                    *)
(***************************************************************************)

\* Dividing by a size leaves a remainder below it.
LEMMA Division ==
  ASSUME NEW a \in Nat, NEW b \in Nat \ {0}
  PROVE  /\ a \div b \in Nat /\ a % b \in 0 .. b - 1
         /\ a = (a \div b) * b + (a % b)
         /\ (a \div b) * b <= a /\ a < (a \div b + 1) * b
  OBVIOUS

\* The start of a page is at a multiple of the page size.
LEMMA Multiple ==
  ASSUME NEW k \in Nat, NEW b \in Nat \ {0}
  PROVE  k * b \in Nat /\ (k * b) % b = 0
  OBVIOUS

\* Multiplying keeps the order.
LEMMA TimesLess ==
  ASSUME NEW a \in Nat, NEW c \in Nat, NEW b \in Nat \ {0}
  PROVE  a < c <=> a * b < c * b
  OBVIOUS

\* A page p belongs to the table p \div Entries, which has the pages from
\* t * Entries up to the next table.
LEMMA TableOf ==
  ASSUME NEW t \in Nat, NEW q \in Nat, NEW b \in Nat \ {0}
  PROVE  q \in t * b .. (t + 1) * b - 1 <=> q \div b = t
PROOF
<1>1. q \div b \in Nat /\ (q \div b) * b <= q /\ q < (q \div b + 1) * b
  BY Division
<1>2. CASE q \div b < t
  <2>1. (q \div b + 1) * b <= t * b
    BY <1>1, <1>2
  <2> QED
    BY <1>1, <1>2, <2>1
<1>3. CASE t < q \div b
  <2>1. (t + 1) * b <= (q \div b) * b
    BY <1>1, <1>3
  <2> QED
    BY <1>1, <1>3, <2>1
<1> QED
  BY <1>1, <1>2, <1>3

-----------------------------------------------------------------------------

(***************************************************************************)
(* Allocations.                                                            *)
(***************************************************************************)

\* The intervals of S are apart and end at or before limit.
Below(S, limit) ==
  /\ Memory!Apart(S)
  /\ \A a \in S : a[1] \in Nat /\ a[2] \in Nat /\ a[1] <= a[2] /\ a[2] <= limit

\* Both allocators only move forward: what they have handed out ends at or
\* before the address they will hand out next.
AllocInv ==
  /\ machine \in Machines
  /\ phys_alloc_addr \in Nat /\ heap_addr \in Nat
  /\ Below(regions, phys_alloc_addr)
  /\ Below(blocks, heap_addr)
  /\ Memory!HeapBase <= heap_addr
  /\ \A b \in blocks : Memory!HeapBase <= b[1] /\ b[2] <= Memory!HeapEnd * PAGE_SIZE
  /\ \A t \in DOMAIN tables : tables[t] % PAGE_SIZE = 0
  /\ pc # "directory" => phys_alloc_addr >= PAGE_SIZE

\* Taking the bytes from base on, which is not before the limit, keeps what is
\* allocated apart.
LEMMA Taken ==
  ASSUME NEW S, NEW limit \in Nat, Below(S, limit),
         NEW start \in Nat, limit <= start, NEW top \in Nat, start <= top,
         NEW new, new[1] = start, new[2] = top
  PROVE  Below(S \cup {new}, top)
  BY DEF Below, Memory!Apart

\* kmalloc before there is a heap: the address goes up, and a block that is to
\* begin on a page does so unless it is in page 0.
LEMMA PhysicalTaken ==
  ASSUME AllocInv, NEW size \in Nat, Memory!kmalloc_physical(size, TRUE)
  PROVE  /\ phys_alloc_addr' \in Nat /\ phys_alloc_addr' >= phys_alloc_addr + size
         /\ Below(regions', phys_alloc_addr')
         /\ phys_alloc_addr >= PAGE_SIZE => (phys_alloc_addr' - size) % PAGE_SIZE = 0
PROOF
<1> DEFINE a == phys_alloc_addr
           start == IF a >= PAGE_SIZE THEN (a \div PAGE_SIZE + 1) * PAGE_SIZE ELSE a
<1>1. a \in Nat /\ Below(regions, a) /\ PAGE_SIZE \in Nat \ {0}
  BY StartupAssumption DEF AllocInv
<1>2. a \div PAGE_SIZE \in Nat /\ a < (a \div PAGE_SIZE + 1) * PAGE_SIZE
  BY <1>1, Division
<1>3. /\ (a \div PAGE_SIZE + 1) * PAGE_SIZE \in Nat
      /\ ((a \div PAGE_SIZE + 1) * PAGE_SIZE) % PAGE_SIZE = 0
  <2>1. a \div PAGE_SIZE + 1 \in Nat
    BY <1>2
  <2> QED
    BY <1>1, <2>1, Multiple
<1>4. start \in Nat /\ a <= start /\ (a >= PAGE_SIZE => start % PAGE_SIZE = 0)
  BY <1>1, <1>2, <1>3
<1>5. phys_alloc_addr' = start + size /\ regions' = regions \cup {<<start, start + size>>}
  BY DEF Memory!kmalloc_physical
<1> HIDE DEF start
<1>6. PICK new : new = <<start, start + size>>
  OBVIOUS
<1>7. Below(regions \cup {new}, start + size)
  <2>1. start + size \in Nat /\ start <= start + size /\ new[1] = start /\ new[2] = start + size
    BY <1>4, <1>6
  <2> QED
    BY <1>1, <1>4, <2>1, Taken
<1>8. phys_alloc_addr' - size = start
  BY <1>4, <1>5
<1> QED
  BY <1>1, <1>4, <1>5, <1>6, <1>7, <1>8

\* get_page allocates nothing, or one page for a new table that begins on a page.
LEMMA PageTaken ==
  ASSUME AllocInv, phys_alloc_addr >= PAGE_SIZE, NEW p, Memory!get_page(p)
  PROVE  /\ phys_alloc_addr' \in Nat /\ phys_alloc_addr' >= phys_alloc_addr
         /\ Below(regions', phys_alloc_addr')
         /\ \A t \in DOMAIN tables' : tables'[t] % PAGE_SIZE = 0
PROOF
<1> DEFINE t == p \div Entries
<1>1. PAGE_SIZE \in Nat
  BY StartupAssumption
<1>2. CASE t \in DOMAIN tables
  BY <1>2 DEF Memory!get_page, AllocInv
<1>3. CASE t \notin DOMAIN tables
  <2>1. /\ Memory!kmalloc_physical(PAGE_SIZE, TRUE)
        /\ tables' = Memory!And(tables, [x \in {t} |-> phys_alloc_addr' - PAGE_SIZE])
    BY <1>3 DEF Memory!get_page
  <2>2. /\ phys_alloc_addr' \in Nat /\ phys_alloc_addr' >= phys_alloc_addr + PAGE_SIZE
        /\ Below(regions', phys_alloc_addr')
        /\ (phys_alloc_addr' - PAGE_SIZE) % PAGE_SIZE = 0
    BY <1>1, <2>1, PhysicalTaken
  <2>3. \A x \in DOMAIN tables' : x \in DOMAIN tables \/ x = t
    BY <2>1 DEF Memory!And
  <2>4. \A x \in DOMAIN tables : tables'[x] = tables[x]
    BY <2>1 DEF Memory!And
  <2>5. tables'[t] = phys_alloc_addr' - PAGE_SIZE
    BY <1>3, <2>1 DEF Memory!And
  <2>6. phys_alloc_addr \in Nat /\ \A x \in DOMAIN tables : tables[x] % PAGE_SIZE = 0
    BY DEF AllocInv
  <2>7. ASSUME NEW x \in DOMAIN tables' PROVE tables'[x] % PAGE_SIZE = 0
    BY <2>2, <2>3, <2>4, <2>5, <2>6
  <2> QED
    BY <1>1, <2>2, <2>6, <2>7
<1> QED
  BY <1>2, <1>3

\* Every step of vm_init, and kmalloc, keep AllocInv.
LEMMA AllocStep ==
  ASSUME AllocInv,
         Memory!InitStep \/ (\E size \in Nat : Memory!kmalloc(size)) \/ UNCHANGED memory
  PROVE  AllocInv'
PROOF
<1> USE DEF Memory!HeapBase, Memory!HeapEnd
<1>0. PAGE_SIZE \in Nat \ {0} /\ HeapPage \in Nat /\ HeapPages \in Nat
      /\ Memory!HeapBase \in Nat /\ Memory!HeapEnd * PAGE_SIZE \in Nat
  BY StartupAssumption
<1>1. CASE Memory!vm_init
  <2>0. 2 * PAGE_SIZE \in Nat
    BY <1>0
  <2>1. /\ Memory!kmalloc_physical(2 * PAGE_SIZE, TRUE)
        /\ UNCHANGED <<machine, heap_addr, blocks, tables>>
    BY <1>1 DEF Memory!vm_init
  <2>2. /\ phys_alloc_addr' \in Nat /\ phys_alloc_addr' >= phys_alloc_addr + 2 * PAGE_SIZE
        /\ Below(regions', phys_alloc_addr')
    BY <2>0, <2>1, PhysicalTaken
  <2>3. phys_alloc_addr \in Nat
    BY DEF AllocInv
  <2>4. phys_alloc_addr' >= PAGE_SIZE
    BY <1>0, <2>2, <2>3
  <2> QED
    BY <2>1, <2>2, <2>4 DEF AllocInv
<1>2. CASE Memory!Loop
  <2>1. /\ Memory!get_page(i) /\ pc # "directory" /\ pc' = pc
        /\ UNCHANGED <<machine, heap_addr, blocks>>
    BY <1>2 DEF Memory!Loop
  <2>2. phys_alloc_addr \in Nat /\ phys_alloc_addr >= PAGE_SIZE
    BY <2>1 DEF AllocInv
  <2>3. /\ phys_alloc_addr' \in Nat /\ phys_alloc_addr' >= phys_alloc_addr
        /\ Below(regions', phys_alloc_addr')
        /\ \A t \in DOMAIN tables' : tables'[t] % PAGE_SIZE = 0
    BY <2>1, <2>2, PageTaken
  <2>4. phys_alloc_addr' >= PAGE_SIZE
    BY <1>0, <2>2, <2>3
  <2> QED
    BY <2>1, <2>3, <2>4 DEF AllocInv
<1>3. CASE Memory!EndLoop
  BY <1>3 DEF AllocInv, Memory!EndLoop
<1>4. CASE Memory!new_frame
  BY <1>4 DEF AllocInv, Memory!new_frame
<1>5. CASE Memory!null_page
  BY <1>5 DEF AllocInv, Memory!null_page
<1>6. ASSUME NEW size \in Nat, Memory!kmalloc(size) PROVE AllocInv'
  <2>1. /\ heap_addr' = heap_addr + size /\ pc = "done"
        /\ UNCHANGED <<machine, tables, phys_alloc_addr, regions>>
    BY <1>6 DEF Memory!kmalloc, Memory!alloc
  <2>2. heap_addr \in Nat /\ Below(blocks, heap_addr) /\ Memory!HeapBase <= heap_addr
    BY DEF AllocInv
  <2>3. heap_addr' \in Nat /\ heap_addr <= heap_addr' /\ Memory!HeapBase <= heap_addr'
    BY <1>0, <2>1, <2>2
  <2>4. CASE blocks' = blocks
    <3>1. Below(blocks', heap_addr')
      BY <2>2, <2>3, <2>4 DEF Below, Memory!Apart
    <3> QED
      BY <2>1, <2>3, <2>4, <3>1 DEF AllocInv
  <2>5. CASE blocks' # blocks
    <3>1. pc' # "panic"
      BY <1>6, <2>5 DEF Memory!kmalloc
    <3>0. PICK a : blocks' = blocks \cup {<<heap_addr, heap_addr', a>>}
      BY <1>6, <3>1 DEF Memory!kmalloc
    <3>2. PICK new : /\ blocks' = blocks \cup {new}
                     /\ new[1] = heap_addr /\ new[2] = heap_addr'
      <4>1. PICK new : new = <<heap_addr, heap_addr', a>>
        OBVIOUS
      <4> QED
        BY <3>0, <4>1
    <3>3. heap_addr' <= Memory!HeapEnd * PAGE_SIZE
      <4>1. ~(heap_addr' > Memory!HeapEnd * PAGE_SIZE)
        BY <1>6, <3>1 DEF Memory!kmalloc, Memory!alloc, Memory!kpanic
      <4> QED
        BY <1>0, <2>3, <4>1
    <3>4. Below(blocks \cup {new}, heap_addr')
      BY <2>2, <2>3, <3>2, Taken
    <3>5. \A b \in blocks' : Memory!HeapBase <= b[1] /\ b[2] <= Memory!HeapEnd * PAGE_SIZE
      BY <2>2, <3>2, <3>3 DEF AllocInv
    <3> QED
      BY <2>1, <2>3, <3>2, <3>4, <3>5 DEF AllocInv
  <2> QED
    BY <2>4, <2>5
<1>7. CASE UNCHANGED memory
  BY <1>7 DEF AllocInv, memory
<1> QED
  BY <1>1, <1>2, <1>3, <1>4, <1>5, <1>6, <1>7 DEF Memory!InitStep

\* The invariant holds when the boot loader has loaded the kernel.
LEMMA AllocInit == Memory!Init => AllocInv
PROOF
<1> SUFFICES ASSUME Memory!Init PROVE AllocInv
  OBVIOUS
<1>1. machine \in Machines /\ machine[1] \in Nat
  BY StartupAssumption DEF Memory!Init
<1>2. Memory!HeapBase \in Nat
  BY StartupAssumption DEF Memory!HeapBase
<1>3. phys_alloc_addr = machine[1] /\ heap_addr = Memory!HeapBase /\ regions = {<<0, machine[1]>>}
      /\ blocks = {} /\ tables = << >> /\ pc = "directory"
  BY DEF Memory!Init, Memory!End
<1>4. Below(regions, phys_alloc_addr)
  BY <1>1, <1>3 DEF Below, Memory!Apart
<1>5. Below(blocks, heap_addr)
  BY <1>3 DEF Below, Memory!Apart
<1>6. DOMAIN tables = {}
  BY <1>3
<1> QED
  BY <1>1, <1>2, <1>3, <1>4, <1>5, <1>6 DEF AllocInv

\* What a step of kmain, of a device or of vm_init does to the memory and to
\* the rest.
LEMMA StartupStep ==
  ASSUME [StartupNext]_allVars
  PROVE  /\ [Next]_vars
         /\ Memory!InitStep \/ (\E size \in Nat : Memory!kmalloc(size)) \/ UNCHANGED memory
PROOF
<1>1. CASE BootStep
  BY <1>1 DEF BootStep
<1>2. CASE vm_init
  BY <1>2 DEF vm_init
<1>3. ASSUME NEW size \in Sizes, initialize_heap(size) \/ kmalloc(size)
      PROVE  UNCHANGED vars /\ \E n \in Nat : Memory!kmalloc(n)
  <2>1. size \in Nat
    BY StartupAssumption
  <2> QED
    BY <1>3, <2>1 DEF initialize_heap, kmalloc
<1>4. CASE Halted
  BY <1>4 DEF Halted, Memory!hlt, Memory!vars, memory
<1>5. CASE UNCHANGED allVars
  BY <1>5 DEF allVars
<1> QED
  BY <1>1, <1>2, <1>3, <1>4, <1>5 DEF StartupNext

\* Whatever the kernel's size and the machine: no interrupt comes before its
\* handler while vm_init and initialize_heap do their work, either.
THEOREM NoStrayAtStartup == StartupSpec => []NoStray
<1>1. StartupInit => BootInv
  BY BootInvInit DEF StartupInit
<1>2. BootInv /\ [StartupNext]_allVars => BootInv'
  BY StartupStep, BootInvNext
<1>3. BootInv => NoStray
  BY DEF BootInv, NoStray
<1> QED
  BY <1>1, <1>2, <1>3, PTL DEF StartupSpec

\* For any kernel, page size and sizes asked for: the kernel image, the directory,
\* the page tables and the blocks of the heap never overlap, a block is within
\* the heap, and every table is on a page boundary.
THEOREM AllocationsStayApart == StartupSpec => []AllocationsApart
<1>1. StartupInit => AllocInv
  BY AllocInit DEF StartupInit
<1>2. AllocInv /\ [StartupNext]_allVars => AllocInv'
  BY StartupStep, AllocStep
<1>3. AllocInv => AllocationsApart
  BY DEF AllocInv, Below, AllocationsApart, Memory!AllocationsApart
<1> QED
  BY <1>1, <1>2, <1>3, PTL DEF StartupSpec

-----------------------------------------------------------------------------

(***************************************************************************)
(* The mapping.  vm_init has mapped the pages below n to themselves and    *)
(* the first h pages of the heap to the frames from n on.                  *)
(***************************************************************************)

Heap(h) == HeapPage .. HeapPage + h - 1
IsMapped(p, n, h) == p < n \/ p \in Heap(h)
FrameOf(p, n, h) == IF p < n THEN p ELSE IF p \in Heap(h) THEN n + p - HeapPage ELSE 0

\* The pages of table t.
Own(t) == t * Entries .. (t + 1) * Entries - 1

\* Page 0 is apart: it is mapped to frame 0, and then no more.
PagesInv(n, h) ==
  /\ n + h <= machine[2]
  /\ frames = 0 .. n + h - 1
  /\ DOMAIN tables \subseteq Nat /\ DOMAIN pages \subseteq Nat
  /\ \A t \in DOMAIN tables : Own(t) \subseteq DOMAIN pages
  /\ \A p \in DOMAIN pages : p \div Entries \in DOMAIN tables
  /\ (0 .. n - 1) \cup Heap(h) \subseteq DOMAIN pages
  /\ \A p \in DOMAIN pages : /\ pages[p][2] = FrameOf(p, n, h)
                             /\ p # 0 => (pages[p][1] <=> IsMapped(p, n, h))

\* Whatever was in use is below page n.
AllUsed(n) == n * PAGE_SIZE >= phys_alloc_addr + Slack

\* Where vm_init is.
ControlInv(n, h) ==
  \/ /\ pc = "directory" /\ n = 0 /\ h = 0 /\ page = NULL /\ i = HeapPage
     /\ blocks = {}
  \/ /\ pc = "tables" /\ n = 0 /\ h = 0 /\ page = NULL
     /\ i \in HeapPage .. Memory!HeapEnd
     /\ HeapPage .. i - 1 \subseteq DOMAIN pages
     /\ blocks = {}
  \/ /\ pc = "identity" /\ h = 0
     /\ Heap(HeapPages) \subseteq DOMAIN pages
     /\ \/ page = NULL /\ i = n
        \/ page = n /\ i = n + 1 /\ n \in DOMAIN pages
     /\ blocks = {}
  \/ /\ pc = "heap" /\ AllUsed(n)
     /\ Heap(HeapPages) \subseteq DOMAIN pages
     /\ \/ page = NULL /\ i = HeapPage + h
        \/ page = HeapPage + h /\ i = HeapPage + h + 1 /\ h < HeapPages
     /\ blocks = {}
  \/ /\ pc = "null page" /\ AllUsed(n) /\ h = HeapPages /\ blocks = {}
  \/ /\ pc = "done" /\ AllUsed(n) /\ h = HeapPages /\ ~pages[0][1]
  \/ /\ pc = "panic" /\ (blocks # {} => h = HeapPages)

\* A block has the physical address of its first byte, at the distance all of
\* the heap has from its frames.
BlocksInv(n) ==
  \A b \in blocks : b[1] < b[2] => b[3] = b[1] + (n - HeapPage) * PAGE_SIZE

MapInv ==
  Memory!Clean =>
    \E n \in 0 .. HeapPage, h \in 0 .. HeapPages :
      PagesInv(n, h) /\ ControlInv(n, h) /\ BlocksInv(n)

\* The sizes that stay the same.
LEMMA Sized ==
  /\ PAGE_SIZE \in Nat \ {0} /\ Entries \in Nat \ {0} /\ HeapPages \in Nat \ {0}
  /\ HeapPage \in Nat /\ Slack \in Nat /\ NULL \notin Nat
  /\ Memory!HeapEnd = HeapPage + HeapPages
  BY StartupAssumption DEF Memory!HeapEnd

\* A page has its table exactly when it has an entry.
LEMMA HasEntry ==
  ASSUME NEW n \in Nat, NEW h \in Nat, PagesInv(n, h), NEW p \in Nat
  PROVE  p \in DOMAIN pages <=> p \div Entries \in DOMAIN tables
PROOF
<1>1. p \div Entries \in Nat /\ p \in Own(p \div Entries)
  <2>1. p \div Entries \in Nat
    BY Sized, Division
  <2>2. p \in (p \div Entries) * Entries .. (p \div Entries + 1) * Entries - 1
    BY <2>1, Sized, TableOf
  <2> QED
    BY <2>1, <2>2 DEF Own
<1> QED
  BY <1>1 DEF PagesInv

\* get_page makes the table that is missing, with entries that map nothing.
LEMMA GetPageMaps ==
  ASSUME NEW n \in Nat, NEW h \in Nat, PagesInv(n, h), Memory!Clean,
         NEW p \in Nat, Memory!get_page(p), UNCHANGED <<machine, frames>>
  PROVE  /\ PagesInv(n, h)' /\ DOMAIN pages \subseteq DOMAIN pages' /\ p \in DOMAIN pages'
         /\ p \in DOMAIN pages => phys_alloc_addr' = phys_alloc_addr
PROOF
<1> PICK t : t = p \div Entries
  OBVIOUS
<1>0. t \in Nat
  BY Sized, Division
<1>1. CASE t \in DOMAIN tables
  <2>1. p \in DOMAIN pages
    BY <1>1, HasEntry
  <2> QED
    BY <1>1, <2>1 DEF Memory!get_page, PagesInv
<1>2. CASE t \notin DOMAIN tables
  <2>0. p \notin DOMAIN pages
    BY <1>2, HasEntry
  <2>1. PICK entries \in [Own(t) -> {<<FALSE, 0>>}] : pages' = Memory!And(pages, entries)
    BY <1>2 DEF Memory!get_page, Own, Memory!Garbage, Memory!Clean
  <2>2. DOMAIN pages' = DOMAIN pages \cup Own(t)
    BY <2>1 DEF Memory!And
  <2>3. DOMAIN tables' = DOMAIN tables \cup {t}
    BY <1>2 DEF Memory!get_page, Memory!And
  <2>4. Own(t) \subseteq Nat /\ \A q \in Own(t) : q \div Entries = t
    <3>1. t * Entries \in Nat /\ (t + 1) * Entries - 1 \in Int
      BY <1>0, Sized
    <3>2. Own(t) \subseteq Nat
      BY <3>1 DEF Own
    <3>3. ASSUME NEW q \in Own(t) PROVE q \div Entries = t
      <4>1. q \in Nat
        BY <3>2
      <4>2. q \in t * Entries .. (t + 1) * Entries - 1 <=> q \div Entries = t
        BY ONLY <1>0, <4>1, Sized, TableOf
      <4> QED
        BY ONLY <4>2, q \in Own(t) DEF Own
    <3> QED
      BY <3>2, <3>3
  <2>5. \A q \in Own(t) : q \notin DOMAIN pages
    BY <1>2, <2>4, HasEntry
  <2>6. \A q \in DOMAIN pages : pages'[q] = pages[q]
    BY <2>1 DEF Memory!And
  <2>7. \A q \in Own(t) : pages'[q] = <<FALSE, 0>>
    <3> SUFFICES ASSUME NEW q \in Own(t) PROVE pages'[q] = <<FALSE, 0>>
      OBVIOUS
    <3>1. q \notin DOMAIN pages /\ q \in DOMAIN entries
      BY <2>1, <2>5
    <3>2. pages'[q] = entries[q]
      BY <2>1, <3>1 DEF Memory!And
    <3> QED
      BY <2>1, <3>2
  <2>8. \A q \in Own(t) : ~IsMapped(q, n, h) /\ FrameOf(q, n, h) = 0
    <3> SUFFICES ASSUME NEW q \in Own(t) PROVE ~IsMapped(q, n, h) /\ FrameOf(q, n, h) = 0
      OBVIOUS
    <3>1. q \in Nat /\ q \notin (0 .. n - 1) \cup Heap(h)
      BY <2>4, <2>5 DEF PagesInv
    <3>2. ~(q < n) /\ q \notin Heap(h)
      BY <3>1
    <3> QED
      BY <3>2 DEF IsMapped, FrameOf
  <2>9. ASSUME NEW q \in DOMAIN pages'
        PROVE  /\ pages'[q][2] = FrameOf(q, n, h)
               /\ q # 0 => (pages'[q][1] <=> IsMapped(q, n, h))
    <3>1. CASE q \in DOMAIN pages
      BY <2>6, <3>1 DEF PagesInv
    <3>2. CASE q \in Own(t)
      <4>1. pages'[q] = <<FALSE, 0>> /\ ~IsMapped(q, n, h) /\ FrameOf(q, n, h) = 0
        BY <2>7, <2>8, <3>2
      <4> QED
        BY ONLY <4>1
    <3> QED
      BY <2>2, <3>1, <3>2
  <2>10. p \in Own(t)
    BY <1>0, Sized, TableOf DEF Own
  <2>11. \A q \in DOMAIN pages' : q \div Entries \in DOMAIN tables'
    BY <2>2, <2>3, <2>4 DEF PagesInv
  <2>12. \A u \in DOMAIN tables' : Own(u) \subseteq DOMAIN pages'
    BY <2>2, <2>3 DEF PagesInv
  <2>13. DOMAIN tables' \subseteq Nat /\ DOMAIN pages' \subseteq Nat
         /\ (0 .. n - 1) \cup Heap(h) \subseteq DOMAIN pages'
    BY <1>0, <2>2, <2>3, <2>4 DEF PagesInv
  <2>14. n + h <= machine'[2] /\ frames' = 0 .. n + h - 1
    BY DEF PagesInv
  <2> QED
    BY <2>0, <2>2, <2>9, <2>10, <2>11, <2>12, <2>13, <2>14 DEF PagesInv
<1> QED
  BY <1>1, <1>2

\* find_free finds the first frame behind those in use.
LEMMA FreeFrame ==
  ASSUME NEW n \in Nat, NEW h \in Nat, PagesInv(n, h), machine[2] \in Nat
  PROVE  Memory!find_free = IF n + h < machine[2] THEN n + h ELSE -1
PROOF
<1> PICK k, N : k = n + h /\ N = machine[2]
  OBVIOUS
<1>1. k \in Nat /\ N \in Nat /\ k <= N /\ frames = 0 .. k - 1
  BY DEF PagesInv
<1>2. CASE k < N
  <2>1. ~(0 .. N - 1 \subseteq 0 .. k - 1)
    <3>1. k \in 0 .. N - 1 /\ k \notin 0 .. k - 1
      BY <1>1, <1>2
    <3> QED
      BY <3>1
  <2>2. Memory!Min((0 .. N - 1) \ (0 .. k - 1)) = k
    BY <1>1, <1>2 DEF Memory!Min
  <2> QED
    BY <1>1, <1>2, <2>1, <2>2 DEF Memory!find_free, Memory!NFRAMES
<1>3. CASE ~(k < N)
  <2>1. 0 .. N - 1 \subseteq 0 .. k - 1
    BY <1>1, <1>3
  <2> QED
    BY <1>1, <1>3, <2>1 DEF Memory!find_free, Memory!NFRAMES
<1> QED
  BY <1>2, <1>3

\* A frame for page p, the next one of the two ranges.
NextPage(p, n, h, n2, h2) ==
  \/ p = n /\ h = 0 /\ n2 = n + 1 /\ h2 = 0
  \/ p = HeapPage + h /\ n2 = n /\ h2 = h + 1

\* The next page has no frame yet; with one, the ranges are longer by that page.
LEMMA NextMapped ==
  ASSUME NEW n \in 0 .. HeapPage, NEW h \in Nat, NEW p, NEW n2, NEW h2,
         NextPage(p, n, h, n2, h2), NEW q \in Nat
  PROVE  /\ FrameOf(p, n, h) = 0
         /\ FrameOf(q, n2, h2) = IF q = p THEN n + h ELSE FrameOf(q, n, h)
         /\ IsMapped(q, n2, h2) <=> q = p \/ IsMapped(q, n, h)
  BY Sized DEF NextPage, FrameOf, IsMapped, Heap

\* new_frame gives the next page the next frame.
LEMMA FrameMaps ==
  ASSUME NEW n \in 0 .. HeapPage, NEW h \in Nat, PagesInv(n, h),
         NEW p \in DOMAIN pages, NEW n2 \in Nat, NEW h2 \in Nat, NextPage(p, n, h, n2, h2),
         n + h < machine[2], machine[2] \in Nat,
         pages' = [pages EXCEPT ![p] = <<TRUE, n + h>>], frames' = frames \cup {n + h},
         UNCHANGED <<machine, tables>>
  PROVE  PagesInv(n2, h2)'
PROOF
<1>1. n2 + h2 = n + h + 1 /\ n + h \in Nat
  BY Sized DEF NextPage
<1>2. n2 + h2 <= machine'[2] /\ frames' = 0 .. n2 + h2 - 1
  <2>1. frames = 0 .. n + h - 1
    BY DEF PagesInv
  <2>2. n2 + h2 - 1 = n + h /\ 0 .. n + h = (0 .. n + h - 1) \cup {n + h}
    BY ONLY <1>1
  <2>3. frames' = 0 .. n2 + h2 - 1
    BY <2>1, <2>2
  <2> QED
    BY <1>1, <2>3
<1>3. DOMAIN pages' = DOMAIN pages /\ DOMAIN pages \subseteq Nat
  BY DEF PagesInv
<1>4. (0 .. n2 - 1) \cup Heap(h2) \subseteq DOMAIN pages
  <2>1. (0 .. n - 1) \cup Heap(h) \subseteq DOMAIN pages
    BY DEF PagesInv
  <2>2. (0 .. n2 - 1) \cup Heap(h2) \subseteq (0 .. n - 1) \cup Heap(h) \cup {p}
    BY Sized DEF NextPage, Heap
  <2> QED
    BY <2>1, <2>2
<1>5. ASSUME NEW q \in DOMAIN pages
      PROVE  /\ pages'[q][2] = FrameOf(q, n2, h2)
             /\ q # 0 => (pages'[q][1] <=> IsMapped(q, n2, h2))
  <2>0. q \in Nat
    BY <1>3
  <2>1. /\ FrameOf(q, n2, h2) = IF q = p THEN n + h ELSE FrameOf(q, n, h)
        /\ IsMapped(q, n2, h2) <=> q = p \/ IsMapped(q, n, h)
    BY <2>0, NextMapped
  <2>2. CASE q = p
    <3>1. pages'[q] = <<TRUE, n + h>>
      BY <2>2
    <3> QED
      BY ONLY <2>1, <2>2, <3>1
  <2>3. CASE q # p
    <3>1. pages'[q] = pages[q]
      BY <2>3
    <3>2. /\ pages[q][2] = FrameOf(q, n, h)
          /\ q # 0 => (pages[q][1] <=> IsMapped(q, n, h))
      BY DEF PagesInv
    <3> QED
      BY ONLY <2>1, <2>3, <3>1, <3>2
  <2> QED
    BY <2>2, <2>3
<1>6. /\ DOMAIN tables' \subseteq Nat
      /\ \A t \in DOMAIN tables' : Own(t) \subseteq DOMAIN pages'
      /\ \A q \in DOMAIN pages' : q \div Entries \in DOMAIN tables'
  BY <1>3 DEF PagesInv
<1> QED
  BY <1>2, <1>3, <1>4, <1>5, <1>6 DEF PagesInv

\* All parts of the invariant, for the n and h of a state.
At(n, h) == PagesInv(n, h) /\ ControlInv(n, h) /\ BlocksInv(n)

\* The number of frames of the machine.
LEMMA FramesNumber ==
  ASSUME AllocInv
  PROVE  machine[2] \in Nat /\ machine[2] <= HeapPage
  BY StartupAssumption DEF AllocInv

\* new_frame: a panic when there is no frame, or the next page is mapped.
LEMMA NewFrameStep ==
  ASSUME AllocInv, NEW n \in 0 .. HeapPage, NEW h \in 0 .. HeapPages, At(n, h), Memory!new_frame
  PROVE  \E n2 \in 0 .. HeapPage, h2 \in 0 .. HeapPages : At(n2, h2)'
PROOF
<1>0. /\ PagesInv(n, h) /\ ControlInv(n, h) /\ page # NULL /\ pc \in {"identity", "heap"}
      /\ n \in Nat /\ h \in Nat /\ blocks = {}
  <2>1. PagesInv(n, h) /\ ControlInv(n, h)
    BY DEF At
  <2>2. page # NULL /\ pc \in {"identity", "heap"}
    BY DEF Memory!new_frame
  <2>3. n \in Nat /\ h \in Nat
    BY Sized
  <2>4. blocks = {}
    BY <2>1, <2>2 DEF ControlInv
  <2> QED
    BY <2>1, <2>2, <2>3, <2>4
<1>1. /\ page \in DOMAIN pages
      /\ pc = "identity" => page = n /\ h = 0 /\ i = n + 1
      /\ pc = "heap" => page = HeapPage + h /\ i = HeapPage + h + 1 /\ h < HeapPages /\ AllUsed(n)
      /\ Heap(HeapPages) \subseteq DOMAIN pages
  <2>1. /\ pc = "identity" => page = n /\ h = 0 /\ i = n + 1 /\ n \in DOMAIN pages
        /\ pc = "heap" => page = HeapPage + h /\ i = HeapPage + h + 1 /\ h < HeapPages /\ AllUsed(n)
        /\ Heap(HeapPages) \subseteq DOMAIN pages
    BY <1>0 DEF ControlInv
  <2>2. h < HeapPages => HeapPage + h \in Heap(HeapPages)
    BY <1>0, Sized DEF Heap
  <2> QED
    BY <1>0, <2>1, <2>2
<1>2. PICK n2, h2 : /\ NextPage(page, n, h, n2, h2)
                    /\ pc = "identity" => n2 = n + 1 /\ h2 = 0
                    /\ pc = "heap" => n2 = n /\ h2 = h + 1
  BY <1>0, <1>1 DEF NextPage
<1>3. pages[page][2] = 0
  <2>1. pages[page][2] = FrameOf(page, n, h)
    BY <1>0, <1>1 DEF PagesInv
  <2> QED
    BY <1>0, <1>2, <2>1, NextMapped
<1>4. Memory!find_free = IF n + h < machine[2] THEN n + h ELSE -1
  BY <1>0, FramesNumber, FreeFrame
<1>5. CASE n + h < machine[2]
  <2>1. Memory!find_free = n + h /\ n + h # -1
    BY <1>0, <1>4, <1>5
  <2>2. /\ frames' = frames \cup {n + h} /\ pages' = [pages EXCEPT ![page] = <<TRUE, n + h>>]
        /\ page' = NULL /\ pc' = pc
        /\ UNCHANGED <<machine, i, tables, phys_alloc_addr, heap_addr, regions, blocks>>
    BY <1>3, <2>1 DEF Memory!new_frame, Memory!Frame
  <2>3. n2 \in 0 .. HeapPage /\ h2 \in 0 .. HeapPages
    BY <1>0, <1>1, <1>2, <1>5, FramesNumber, Sized
  <2>4. PagesInv(n2, h2)'
    <3>1. n2 \in Nat /\ h2 \in Nat /\ machine[2] \in Nat
      BY <2>3, FramesNumber, Sized
    <3>2. UNCHANGED <<machine, tables>>
      BY <2>2
    <3> QED
      BY <1>0, <1>1, <1>2, <1>5, <2>2, <3>1, <3>2, FrameMaps
  <2>5. DOMAIN pages' = DOMAIN pages
    BY <2>2
  <2>6. ControlInv(n2, h2)'
    <3>1. Heap(HeapPages) \subseteq DOMAIN pages' /\ blocks' = {} /\ page' = NULL
          /\ pc' = pc /\ i' = i
      BY <1>0, <1>1, <2>2, <2>5
    <3>2. CASE pc = "identity"
      BY <1>1, <1>2, <3>1, <3>2 DEF ControlInv
    <3>3. CASE pc = "heap"
      <4>1. AllUsed(n2)' /\ i' = HeapPage + h2
        BY <1>0, <1>1, <1>2, <2>2, <3>3, Sized DEF AllUsed
      <4> QED
        BY <3>1, <3>3, <4>1 DEF ControlInv
    <3> QED
      BY <1>0, <3>2, <3>3
  <2>7. BlocksInv(n2)'
    BY <1>0, <2>2 DEF BlocksInv
  <2> QED
    BY <2>3, <2>4, <2>6, <2>7 DEF At
<1>6. CASE ~(n + h < machine[2])
  <2>1. Memory!find_free = -1
    BY <1>4, <1>6
  <2>2. /\ pc' = "panic" /\ UNCHANGED <<page, pages, frames>>
        /\ UNCHANGED <<machine, i, tables, phys_alloc_addr, heap_addr, regions, blocks>>
    BY <1>3, <2>1 DEF Memory!new_frame, Memory!Frame, Memory!kpanic
  <2>3. PagesInv(n, h)' /\ ControlInv(n, h)' /\ BlocksInv(n)'
    BY <1>0, <2>2 DEF PagesInv, ControlInv, BlocksInv
  <2> QED
    BY <2>3 DEF At
<1> QED
  BY <1>5, <1>6

\* The directory is made while nothing is mapped.
LEMMA DirectoryStep ==
  ASSUME NEW n \in 0 .. HeapPage, NEW h \in 0 .. HeapPages, At(n, h), Memory!vm_init
  PROVE  At(n, h)'
PROOF
<1>1. PagesInv(n, h) /\ ControlInv(n, h)
  BY DEF At
<1>2. /\ pc = "directory" /\ pc' = "tables"
      /\ UNCHANGED <<machine, i, page, tables, pages, frames, heap_addr, blocks>>
  BY DEF Memory!vm_init
<1>3. n = 0 /\ h = 0 /\ page = NULL /\ i = HeapPage /\ blocks = {}
  BY <1>1, <1>2 DEF ControlInv
<1>4. PagesInv(n, h)' /\ BlocksInv(n)'
  BY <1>1, <1>2, <1>3 DEF PagesInv, BlocksInv
<1>5. HeapPage .. i' - 1 = {} /\ i' \in HeapPage .. Memory!HeapEnd
  BY <1>2, <1>3, Sized
<1>6. ControlInv(n, h)'
  BY <1>2, <1>3, <1>5 DEF ControlInv
<1> QED
  BY <1>4, <1>6 DEF At

\* A round of a loop: get_page, also when it makes a table behind the memory
\* that is being mapped.
LEMMA LoopStep ==
  ASSUME Memory!Clean, NEW n \in 0 .. HeapPage, NEW h \in 0 .. HeapPages, At(n, h), Memory!Loop
  PROVE  At(n, h)'
PROOF
<1>1. PagesInv(n, h) /\ ControlInv(n, h) /\ n \in Nat /\ h \in Nat
  BY Sized DEF At
<1>2. /\ pc \in {"tables", "identity", "heap"} /\ page = NULL /\ Memory!InLoop
      /\ Memory!get_page(i) /\ i' = i + 1
      /\ page' = (IF pc = "tables" THEN NULL ELSE i)
      /\ UNCHANGED <<pc, machine, frames, heap_addr, blocks>>
  BY DEF Memory!Loop
<1>3. /\ blocks = {} /\ blocks' = {} /\ i \in Nat
      /\ pc # "tables" => Heap(HeapPages) \subseteq DOMAIN pages
      /\ pc = "tables" => /\ n = 0 /\ h = 0 /\ i \in HeapPage .. Memory!HeapEnd
                          /\ HeapPage .. i - 1 \subseteq DOMAIN pages
      /\ pc = "identity" => h = 0 /\ i = n
      /\ pc = "heap" => i = HeapPage + h /\ AllUsed(n)
  <2>1. n # NULL /\ HeapPage + h # NULL
    BY <1>1, Sized
  <2>2. /\ blocks = {} /\ blocks' = {}
        /\ pc # "tables" => Heap(HeapPages) \subseteq DOMAIN pages
        /\ pc = "tables" => /\ n = 0 /\ h = 0 /\ i \in HeapPage .. Memory!HeapEnd
                            /\ HeapPage .. i - 1 \subseteq DOMAIN pages
        /\ pc = "identity" => h = 0 /\ i = n
        /\ pc = "heap" => i = HeapPage + h /\ AllUsed(n)
    BY <1>1, <1>2, <2>1 DEF ControlInv
  <2>3. i \in Nat
    BY <1>1, <1>2, <2>2, Sized
  <2> QED
    BY <2>2, <2>3
<1>4. /\ PagesInv(n, h)' /\ DOMAIN pages \subseteq DOMAIN pages' /\ i \in DOMAIN pages'
      /\ i \in DOMAIN pages => phys_alloc_addr' = phys_alloc_addr
  <2>1. UNCHANGED <<machine, frames>>
    BY <1>2
  <2> QED
    BY <1>1, <1>2, <1>3, <2>1, GetPageMaps
<1>5. BlocksInv(n)'
  BY <1>3 DEF BlocksInv
<1>6. CASE pc = "tables"
  <2>1. i < Memory!HeapEnd
    BY <1>2, <1>6 DEF Memory!InLoop
  <2>2. i' \in HeapPage .. Memory!HeapEnd /\ HeapPage .. i' - 1 \subseteq DOMAIN pages'
    BY <1>2, <1>3, <1>4, <1>6, <2>1, Sized
  <2>3. ControlInv(n, h)'
    BY <1>2, <1>3, <1>6, <2>2 DEF ControlInv
  <2> QED
    BY <1>4, <1>5, <2>3 DEF At
<1>7. CASE pc = "identity"
  <2>1. Heap(HeapPages) \subseteq DOMAIN pages' /\ page' = n /\ i' = n + 1 /\ n \in DOMAIN pages'
    BY <1>2, <1>3, <1>4, <1>7
  <2>2. ControlInv(n, h)'
    BY <1>2, <1>3, <1>7, <2>1 DEF ControlInv
  <2> QED
    BY <1>4, <1>5, <2>2 DEF At
<1>8. CASE pc = "heap"
  <2>1. i < Memory!HeapEnd
    BY <1>2, <1>8 DEF Memory!InLoop
  <2>2. h < HeapPages /\ i \in Heap(HeapPages)
    BY <1>1, <1>3, <1>8, <2>1, Sized DEF Heap
  <2>3. i \in DOMAIN pages
    BY <1>3, <1>8, <2>2
  <2>4. AllUsed(n)'
    BY <1>3, <1>4, <1>8, <2>3 DEF AllUsed
  <2>5. Heap(HeapPages) \subseteq DOMAIN pages' /\ page' = HeapPage + h /\ i' = HeapPage + h + 1
    BY <1>2, <1>3, <1>4, <1>8
  <2>6. ControlInv(n, h)'
    BY <1>2, <1>3, <1>8, <2>2, <2>4, <2>5 DEF ControlInv
  <2> QED
    BY <1>4, <1>5, <2>6 DEF At
<1> QED
  BY <1>2, <1>6, <1>7, <1>8

\* The end of a loop: all that is in use is below page n when the second one
\* ends, and the third one has mapped the heap.
LEMMA EndLoopStep ==
  ASSUME AllocInv, NEW n \in 0 .. HeapPage, NEW h \in 0 .. HeapPages, At(n, h), Memory!EndLoop
  PROVE  At(n, h)'
PROOF
<1>1. PagesInv(n, h) /\ ControlInv(n, h) /\ n \in Nat /\ h \in Nat
  BY Sized DEF At
<1>2. /\ pc \in {"tables", "identity", "heap"} /\ page = NULL /\ ~Memory!InLoop
      /\ i' = (IF pc = "tables" THEN 0 ELSE HeapPage)
      /\ UNCHANGED <<machine, page, tables, pages, frames, phys_alloc_addr, heap_addr, regions,
                     blocks>>
  BY DEF Memory!EndLoop
<1>3. /\ pc = "tables" => pc' = "identity"
      /\ pc = "identity" => pc' = "heap"
      /\ pc = "heap" => pc' = "null page"
  BY DEF Memory!EndLoop
<1>4. /\ blocks = {}
      /\ pc # "tables" => Heap(HeapPages) \subseteq DOMAIN pages
      /\ pc = "tables" => /\ n = 0 /\ h = 0 /\ i \in HeapPage .. Memory!HeapEnd
                          /\ HeapPage .. i - 1 \subseteq DOMAIN pages
      /\ pc = "identity" => h = 0 /\ i = n
      /\ pc = "heap" => i = HeapPage + h /\ AllUsed(n)
  <2>1. n # NULL /\ HeapPage + h # NULL
    BY <1>1, Sized
  <2> QED
    BY <1>1, <1>2, <2>1 DEF ControlInv
<1>5. PagesInv(n, h)' /\ BlocksInv(n)'
  BY <1>1, <1>2, <1>4 DEF PagesInv, BlocksInv
<1>6. CASE pc = "tables"
  <2>1. ~(i < Memory!HeapEnd)
    BY <1>2, <1>6 DEF Memory!InLoop
  <2>2. Heap(HeapPages) \subseteq DOMAIN pages'
    BY <1>2, <1>4, <1>6, <2>1, Sized DEF Heap
  <2>3. ControlInv(n, h)'
    BY <1>2, <1>3, <1>4, <1>6, <2>2 DEF ControlInv
  <2> QED
    BY <1>5, <2>3 DEF At
<1>7. CASE pc = "identity"
  <2>1. ~(n * PAGE_SIZE < phys_alloc_addr + Slack)
    BY <1>2, <1>4, <1>7 DEF Memory!InLoop
  <2>2. phys_alloc_addr \in Nat /\ n * PAGE_SIZE \in Nat
    BY <1>1, Sized DEF AllocInv
  <2>3. AllUsed(n)'
    BY <1>2, <2>1, <2>2, Sized DEF AllUsed
  <2>4. i' = HeapPage + h
    BY <1>2, <1>4, <1>7, Sized
  <2>5. ControlInv(n, h)'
    BY <1>2, <1>3, <1>4, <1>7, <2>3, <2>4 DEF ControlInv
  <2> QED
    BY <1>5, <2>5 DEF At
<1>8. CASE pc = "heap"
  <2>1. ~(i < Memory!HeapEnd)
    BY <1>2, <1>8 DEF Memory!InLoop
  <2>2. h = HeapPages
    BY <1>1, <1>4, <1>8, <2>1, Sized
  <2>3. AllUsed(n)'
    BY <1>2, <1>4, <1>8 DEF AllUsed
  <2>4. ControlInv(n, h)'
    BY <1>2, <1>3, <1>4, <1>8, <2>2, <2>3 DEF ControlInv
  <2> QED
    BY <1>5, <2>4 DEF At
<1> QED
  BY <1>2, <1>6, <1>7, <1>8

\* Some page is below all that is in use.
LEMMA SomeUsed ==
  ASSUME NEW n \in Nat, AllUsed(n), phys_alloc_addr \in Nat, phys_alloc_addr >= PAGE_SIZE
  PROVE  n >= 1
PROOF
<1>1. 0 * PAGE_SIZE = 0
  BY Sized
<1>2. n # 0
  BY <1>1, Sized DEF AllUsed
<1> QED
  BY <1>2

\* The entry of page 0 is cleared.
LEMMA NullPageStep ==
  ASSUME AllocInv, NEW n \in 0 .. HeapPage, NEW h \in 0 .. HeapPages, At(n, h), Memory!null_page
  PROVE  At(n, h)'
PROOF
<1>1. PagesInv(n, h) /\ ControlInv(n, h) /\ n \in Nat /\ h \in Nat
  BY Sized DEF At
<1>2. /\ pc = "null page" /\ pc' = "done" /\ pages' = [pages EXCEPT ![0] = <<FALSE, 0>>]
      /\ UNCHANGED <<machine, i, page, tables, frames, phys_alloc_addr, heap_addr, regions, blocks>>
  BY DEF Memory!null_page
<1>3. AllUsed(n) /\ h = HeapPages /\ blocks = {}
  BY <1>1, <1>2 DEF ControlInv
<1>4. n >= 1
  BY <1>1, <1>2, <1>3, SomeUsed DEF AllocInv
<1>5. 0 \in DOMAIN pages /\ DOMAIN pages' = DOMAIN pages /\ pages'[0] = <<FALSE, 0>>
      /\ \A p \in DOMAIN pages : p # 0 => pages'[p] = pages[p]
  <2>1. 0 .. n - 1 \subseteq DOMAIN pages /\ 0 \in 0 .. n - 1
    BY <1>1, <1>4 DEF PagesInv
  <2> QED
    BY <1>2, <2>1
<1>6. FrameOf(0, n, h) = 0
  BY <1>1, <1>4 DEF FrameOf
<1>7. ASSUME NEW p \in DOMAIN pages
      PROVE  /\ pages'[p][2] = FrameOf(p, n, h)
             /\ p # 0 => (pages'[p][1] <=> IsMapped(p, n, h))
  <2>1. CASE p = 0
    BY <1>5, <1>6, <2>1
  <2>2. CASE p # 0
    BY <1>1, <1>5, <2>2 DEF PagesInv
  <2> QED
    BY <2>1, <2>2
<1>8. PagesInv(n, h)'
  <2>1. /\ n + h <= machine'[2] /\ frames' = 0 .. n + h - 1
        /\ DOMAIN tables' \subseteq Nat /\ DOMAIN pages' \subseteq Nat
        /\ \A t \in DOMAIN tables' : Own(t) \subseteq DOMAIN pages'
        /\ \A p \in DOMAIN pages' : p \div Entries \in DOMAIN tables'
        /\ (0 .. n - 1) \cup Heap(h) \subseteq DOMAIN pages'
    BY <1>1, <1>2, <1>5 DEF PagesInv
  <2> QED
    BY <1>5, <1>7, <2>1 DEF PagesInv
<1>9. AllUsed(n)' /\ ~pages'[0][1] /\ blocks' = {}
  BY <1>2, <1>3, <1>5 DEF AllUsed
<1>10. ControlInv(n, h)' /\ BlocksInv(n)'
  BY <1>2, <1>3, <1>9 DEF ControlInv, BlocksInv
<1> QED
  BY <1>8, <1>10 DEF At

\* An address in the heap, and where the page it is in is mapped to.
LEMMA HeapAddress ==
  ASSUME NEW n \in 0 .. HeapPage, PagesInv(n, HeapPages),
         NEW a \in Nat, Memory!HeapBase <= a, a < Memory!HeapEnd * PAGE_SIZE
  PROVE  /\ a \div PAGE_SIZE \in Heap(HeapPages)
         /\ Memory!Frame(a \div PAGE_SIZE) * PAGE_SIZE + (a % PAGE_SIZE)
              = a + (n - HeapPage) * PAGE_SIZE
PROOF
<1> PICK p, r : p = a \div PAGE_SIZE /\ r = a % PAGE_SIZE
  OBVIOUS
<1>1. /\ p \in Nat /\ r \in 0 .. PAGE_SIZE - 1 /\ a = p * PAGE_SIZE + r
      /\ p * PAGE_SIZE <= a /\ a < (p + 1) * PAGE_SIZE
  BY Sized, Division
<1>2. HeapPage <= p
  <2>1. HeapPage * PAGE_SIZE < (p + 1) * PAGE_SIZE
    BY <1>1, Sized DEF Memory!HeapBase
  <2>2. HeapPage < p + 1
    BY ONLY <1>1, <2>1, Sized, TimesLess
  <2> QED
    BY <1>1, <2>2, Sized
<1>3. p < HeapPage + HeapPages
  <2>1. p * PAGE_SIZE < (HeapPage + HeapPages) * PAGE_SIZE
    BY <1>1, Sized
  <2>2. HeapPage + HeapPages \in Nat
    BY Sized
  <2> QED
    BY ONLY <1>1, <2>1, <2>2, Sized, TimesLess
<1>4. p \in Heap(HeapPages)
  BY <1>1, <1>2, <1>3, Sized DEF Heap
<1>5. pages[p][2] = n + p - HeapPage
  <2>1. p \in DOMAIN pages
    BY <1>4 DEF PagesInv
  <2>2. pages[p][2] = FrameOf(p, n, HeapPages)
    BY <2>1 DEF PagesInv
  <2>3. ~(p < n)
    BY <1>1, <1>2, Sized
  <2> QED
    BY <1>4, <2>2, <2>3 DEF FrameOf
<1>6. (n + p - HeapPage) * PAGE_SIZE + r = p * PAGE_SIZE + r + (n - HeapPage) * PAGE_SIZE
  BY <1>1, Sized
<1> QED
  BY <1>1, <1>4, <1>5, <1>6 DEF Memory!Frame

\* kmalloc, once there is a heap: a block gets its physical address from the
\* frame of its first page.
LEMMA BlockStep ==
  ASSUME AllocInv, NEW n \in 0 .. HeapPage, NEW h \in 0 .. HeapPages, At(n, h),
         NEW size \in Nat, Memory!kmalloc(size)
  PROVE  At(n, h)'
PROOF
<1>1. PagesInv(n, h) /\ ControlInv(n, h) /\ BlocksInv(n) /\ n \in Nat /\ h \in Nat
  BY Sized DEF At
<1>2. /\ pc = "done" /\ heap_addr' = heap_addr + size
      /\ UNCHANGED <<machine, i, page, tables, pages, frames, phys_alloc_addr, regions>>
  BY DEF Memory!kmalloc, Memory!alloc
<1>3. AllUsed(n) /\ h = HeapPages /\ ~pages[0][1]
  BY <1>1, <1>2 DEF ControlInv
<1>4. PagesInv(n, h)'
  BY <1>1, <1>2 DEF PagesInv
<1>5. pc' \in {"panic", "done"}
  BY <1>2 DEF Memory!kmalloc, Memory!alloc, Memory!kpanic
<1>6. ControlInv(n, h)'
  BY <1>2, <1>3, <1>5 DEF ControlInv, AllUsed
<1>7. BlocksInv(n)'
  <2>1. CASE pc' = "panic"
    <3>1. blocks' = blocks
      BY <2>1 DEF Memory!kmalloc
    <3> QED
      BY <1>1, <3>1 DEF BlocksInv
  <2>2. CASE pc' # "panic"
    <3>1. PICK a : /\ blocks' = blocks \cup {<<heap_addr, heap_addr', a>>}
                   /\ a = Memory!Frame(heap_addr \div PAGE_SIZE) * PAGE_SIZE
                            + (heap_addr % PAGE_SIZE)
      BY <2>2 DEF Memory!kmalloc
    <3>2. heap_addr \in Nat /\ Memory!HeapBase <= heap_addr
      BY DEF AllocInv
    <3>3. ~(heap_addr' > Memory!HeapEnd * PAGE_SIZE)
      BY <2>2 DEF Memory!kmalloc, Memory!alloc, Memory!kpanic
    <3>4. Memory!HeapEnd * PAGE_SIZE \in Nat
      BY Sized
    <3>5. heap_addr < heap_addr' => a = heap_addr + (n - HeapPage) * PAGE_SIZE
      <4> SUFFICES ASSUME heap_addr < heap_addr'
                   PROVE  a = heap_addr + (n - HeapPage) * PAGE_SIZE
        OBVIOUS
      <4>1. heap_addr < Memory!HeapEnd * PAGE_SIZE
        BY <1>2, <3>2, <3>3, <3>4
      <4> QED
        BY <1>1, <1>3, <3>1, <3>2, <4>1, HeapAddress
    <3>6. ASSUME NEW b \in blocks'
          PROVE  b[1] < b[2] => b[3] = b[1] + (n - HeapPage) * PAGE_SIZE
      <4>1. CASE b \in blocks
        BY <1>1, <4>1 DEF BlocksInv
      <4>2. CASE b = <<heap_addr, heap_addr', a>>
        <5>1. b[1] = heap_addr /\ b[2] = heap_addr' /\ b[3] = a
          BY <4>2
        <5> QED
          BY ONLY <3>5, <5>1
      <4> QED
        BY <3>1, <4>1, <4>2
    <3> QED
      BY <3>6 DEF BlocksInv
  <2> QED
    BY <2>1, <2>2
<1> QED
  BY <1>4, <1>6, <1>7 DEF At

\* The mapping at the start: nothing is mapped and there are no tables.
LEMMA MapInit == Memory!Init => MapInv
PROOF
<1> SUFFICES ASSUME Memory!Init PROVE At(0, 0)
  BY Sized DEF MapInv, At
<1>1. /\ pc = "directory" /\ i = HeapPage /\ page = NULL /\ DOMAIN tables = {}
      /\ DOMAIN pages = {} /\ frames = {} /\ blocks = {}
  BY DEF Memory!Init
<1>2. machine[2] \in Nat
  BY StartupAssumption DEF Memory!Init
<1>3. frames = 0 .. 0 + 0 - 1 /\ (0 .. 0 - 1) \cup Heap(0) = {} /\ 0 + 0 <= machine[2]
  BY <1>1, <1>2, Sized DEF Heap
<1>4. PagesInv(0, 0)
  BY <1>1, <1>3 DEF PagesInv
<1>5. ControlInv(0, 0) /\ BlocksInv(0)
  BY <1>1 DEF ControlInv, BlocksInv
<1> QED
  BY <1>4, <1>5 DEF At

\* Every step of vm_init, and kmalloc, keep the invariant.
LEMMA MapStep ==
  ASSUME AllocInv, MapInv,
         Memory!InitStep \/ (\E size \in Nat : Memory!kmalloc(size)) \/ UNCHANGED memory
  PROVE  MapInv'
PROOF
<1>1. machine' = machine
  BY DEF Memory!InitStep, Memory!vm_init, Memory!Loop, Memory!EndLoop, Memory!new_frame,
         Memory!null_page, Memory!kmalloc, memory
<1> SUFFICES ASSUME Memory!Clean'
             PROVE  \E n2 \in 0 .. HeapPage, h2 \in 0 .. HeapPages : At(n2, h2)'
  BY DEF MapInv, At
<1>2. Memory!Clean
  BY <1>1 DEF Memory!Clean, Memory!Garbage
<1>3. PICK n \in 0 .. HeapPage, h \in 0 .. HeapPages : At(n, h)
  BY <1>2 DEF MapInv, At
<1>4. CASE Memory!InitStep
  BY <1>2, <1>3, <1>4, DirectoryStep, LoopStep, EndLoopStep, NewFrameStep, NullPageStep
  DEF Memory!InitStep
<1>5. CASE \E size \in Nat : Memory!kmalloc(size)
  BY <1>3, <1>5, BlockStep
<1>6. CASE UNCHANGED memory
  BY <1>3, <1>6 DEF memory, At, PagesInv, ControlInv, BlocksInv, AllUsed
<1> QED
  BY <1>4, <1>5, <1>6

\* What the invariant says of a mapping that is complete.
LEMMA MapFacts ==
  ASSUME AllocInv, NEW n \in 0 .. HeapPage, NEW h \in 0 .. HeapPages, At(n, h), pc = "done"
  PROVE  /\ n \in Nat /\ n >= 1 /\ PagesInv(n, HeapPages) /\ ~pages[0][1]
         /\ \A p \in Memory!InUse : p \in Nat /\ p >= 1 /\ p < n
PROOF
<1>1. PagesInv(n, h) /\ h = HeapPages /\ ~pages[0][1] /\ AllUsed(n) /\ n \in Nat
  BY Sized DEF At, ControlInv
<1>2. phys_alloc_addr \in Nat /\ phys_alloc_addr >= PAGE_SIZE
  BY DEF AllocInv
<1>3. n >= 1
  BY <1>1, <1>2, SomeUsed
<1>4. ASSUME NEW p \in Memory!InUse PROVE p \in Nat /\ p >= 1 /\ p < n
  <2> PICK a : a = phys_alloc_addr - 1
    OBVIOUS
  <2>1. a \in Nat /\ a < n * PAGE_SIZE
    BY <1>1, <1>2, Sized DEF AllUsed
  <2>2. a \div PAGE_SIZE \in Nat /\ (a \div PAGE_SIZE) * PAGE_SIZE <= a
    BY <2>1, Sized, Division
  <2>3. p \in 1 .. a \div PAGE_SIZE
    BY DEF Memory!InUse
  <2>4. (a \div PAGE_SIZE) * PAGE_SIZE < n * PAGE_SIZE
    BY <1>1, <2>1, <2>2, Sized
  <2>5. a \div PAGE_SIZE < n
    BY ONLY <1>1, <2>2, <2>4, Sized, TimesLess
  <2> QED
    BY ONLY <1>1, <2>2, <2>3, <2>5
<1> QED
  BY <1>1, <1>3, <1>4

\* The invariants imply the property.
LEMMA InvMapped == AllocInv /\ MapInv => MemoryMapped
PROOF
<1> SUFFICES ASSUME AllocInv, MapInv, Memory!Clean
             PROVE  Memory!IdentityMapped /\ Memory!HeapBacked /\ Memory!PhysicalHolds
  BY DEF MemoryMapped
<1>0. PICK n \in 0 .. HeapPage, h \in 0 .. HeapPages : At(n, h)
  BY DEF MapInv, At
<1>1. Memory!IdentityMapped
  <2> SUFFICES ASSUME pc = "done"
               PROVE  /\ \A p \in Memory!InUse : Memory!Present(p) /\ Memory!Frame(p) = p
                      /\ ~Memory!Present(0)
    BY DEF Memory!IdentityMapped
  <2>1. /\ n \in Nat /\ PagesInv(n, HeapPages) /\ ~pages[0][1]
        /\ \A p \in Memory!InUse : p \in Nat /\ p >= 1 /\ p < n
    BY <1>0, MapFacts
  <2>2. ASSUME NEW p \in Memory!InUse PROVE Memory!Present(p) /\ Memory!Frame(p) = p
    <3>1. p \in Nat /\ p # 0 /\ p < n /\ p \in 0 .. n - 1
      BY <2>1
    <3>2. p \in DOMAIN pages
      BY <2>1, <3>1 DEF PagesInv
    <3>3. IsMapped(p, n, HeapPages) /\ FrameOf(p, n, HeapPages) = p
      BY <3>1 DEF IsMapped, FrameOf
    <3> QED
      BY <2>1, <3>1, <3>2, <3>3 DEF PagesInv, Memory!Present, Memory!Frame
  <2> QED
    BY <2>1, <2>2 DEF Memory!Present
<1>2. Memory!HeapBacked
  <2> SUFFICES ASSUME pc = "done", NEW p \in HeapPage .. Memory!HeapEnd - 1
               PROVE  /\ Memory!Present(p) /\ Memory!Frame(p) \notin Memory!InUse \cup {0}
                      /\ \A q \in DOMAIN pages : q # p /\ Memory!Present(q)
                                                   => Memory!Frame(q) # Memory!Frame(p)
    BY DEF Memory!HeapBacked
  <2>1. /\ n \in Nat /\ n >= 1 /\ PagesInv(n, HeapPages) /\ ~pages[0][1]
        /\ \A q \in Memory!InUse : q \in Nat /\ q >= 1 /\ q < n
    BY <1>0, MapFacts
  <2>2. p \in Nat /\ p \in Heap(HeapPages) /\ ~(p < n) /\ p # 0
    BY <2>1, Sized DEF Heap
  <2>3. p \in DOMAIN pages
    BY <2>1, <2>2 DEF PagesInv
  <2>4. Memory!Present(p) /\ Memory!Frame(p) = n + p - HeapPage
    <3>1. IsMapped(p, n, HeapPages) /\ FrameOf(p, n, HeapPages) = n + p - HeapPage
      BY <2>2 DEF IsMapped, FrameOf
    <3> QED
      BY <2>1, <2>2, <2>3, <3>1 DEF PagesInv, Memory!Present, Memory!Frame
  <2>5. n + p - HeapPage \in Nat /\ n + p - HeapPage >= n
    BY <2>1, <2>2, Sized DEF Heap
  <2>6. Memory!Frame(p) \notin Memory!InUse \cup {0}
    BY <2>1, <2>4, <2>5
  <2>7. ASSUME NEW q \in DOMAIN pages, q # p, Memory!Present(q)
        PROVE  Memory!Frame(q) # Memory!Frame(p)
    <3>1. q \in Nat /\ q # 0
      BY <2>1, <2>7 DEF PagesInv, Memory!Present
    <3>2. IsMapped(q, n, HeapPages) /\ Memory!Frame(q) = FrameOf(q, n, HeapPages)
      BY <2>1, <2>7, <3>1 DEF PagesInv, Memory!Present, Memory!Frame
    <3>3. CASE q < n
      BY <2>1, <2>4, <2>5, <3>1, <3>2, <3>3 DEF FrameOf
    <3>4. CASE ~(q < n)
      <4>1. Memory!Frame(q) = n + q - HeapPage
        BY <3>2, <3>4 DEF FrameOf, IsMapped
      <4> QED
        BY <2>1, <2>2, <2>4, <2>7, <3>1, <4>1, Sized
    <3> QED
      BY <3>3, <3>4
  <2> QED
    BY <2>4, <2>6, <2>7
<1>3. Memory!PhysicalHolds
  <2> SUFFICES ASSUME NEW b \in blocks, NEW a \in b[1] .. b[2] - 1
               PROVE  Memory!Frame(a \div PAGE_SIZE) * PAGE_SIZE + (a % PAGE_SIZE)
                        = b[3] + (a - b[1])
    BY DEF Memory!PhysicalHolds
  <2>1. /\ b[1] \in Nat /\ b[2] \in Nat /\ Memory!HeapBase <= b[1]
        /\ b[2] <= Memory!HeapEnd * PAGE_SIZE
    BY DEF AllocInv, Below
  <2>2. Memory!HeapBase \in Nat /\ Memory!HeapEnd * PAGE_SIZE \in Nat
    BY Sized DEF Memory!HeapBase
  <2>3. a \in Nat /\ b[1] < b[2] /\ Memory!HeapBase <= a /\ a < Memory!HeapEnd * PAGE_SIZE
    BY <2>1, <2>2
  <2>4. h = HeapPages /\ PagesInv(n, h)
    BY <1>0 DEF At, ControlInv
  <2>5. Memory!Frame(a \div PAGE_SIZE) * PAGE_SIZE + (a % PAGE_SIZE)
          = a + (n - HeapPage) * PAGE_SIZE
    BY <2>3, <2>4, HeapAddress
  <2>6. b[3] = b[1] + (n - HeapPage) * PAGE_SIZE
    BY <1>0, <2>3 DEF At, BlocksInv
  <2>7. (n - HeapPage) * PAGE_SIZE \in Int
    BY Sized
  <2> QED
    BY ONLY <2>1, <2>3, <2>5, <2>6, <2>7
<1> QED
  BY <1>1, <1>2, <1>3

\* With memory that was zero at boot, for any kernel, page size, table size and
\* number of frames: once paging is enabled, every page that was in use, the
\* tables made while mapping included, is mapped to itself and page 0 is not;
\* every page of the heap has a frame of its own; and the physical address
\* reported by kmalloc holds for the whole block.
THEOREM MemoryStaysMapped == StartupSpec => []MemoryMapped
<1>1. StartupInit => AllocInv /\ MapInv
  BY AllocInit, MapInit DEF StartupInit
<1>2. AllocInv /\ MapInv /\ [StartupNext]_allVars => (AllocInv /\ MapInv)'
  BY StartupStep, AllocStep, MapStep
<1> QED
  BY <1>1, <1>2, InvMapped, PTL DEF StartupSpec

=============================================================================
