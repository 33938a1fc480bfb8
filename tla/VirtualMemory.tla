--------------------------- MODULE VirtualMemory ---------------------------
(***************************************************************************)
(* The second half of kernel/core-c.c: vm_init builds the page tables,     *)
(* taking the memory for them from behind the kernel while it maps that    *)
(* memory, and kmalloc then hands out the heap that vm_init has mapped.    *)
(* Addresses count bytes of scaled pages; a page table is one page and the *)
(* directory two, as in the code.                                          *)
(***************************************************************************)
EXTENDS Integers, FiniteSetsExt

CONSTANTS PAGE_SIZE,
          Entries,    \* entries of a page table (1024)
          Slack,      \* bytes mapped behind the memory in use (0x10000)
          HeapPage,   \* the first page of the heap (KHEAP_BASE / PAGE_SIZE)
          HeapPages,  \* pages of the heap (KHEAP_SIZE / PAGE_SIZE)
          Machines,   \* the end of the kernel image, the number of frames, and what
                      \* an entry may hold in memory that was never written
          NULL

VARIABLES pc,
          machine,          \* the member of Machines the kernel runs on
          i,                \* the page a loop of vm_init has come to
          page,             \* the page new_frame is called for, or NULL
          tables,           \* the physical addresses of the page tables, by index
          pages,            \* the entries of these tables: <<present, frame>>
          frames,           \* the frames in use
          phys_alloc_addr,
          heap_addr,
          regions,          \* history: what was taken from physical memory, from and up to
          blocks            \* history: what was taken from the heap: from, up to, and its
                            \* physical address

vars == <<pc, machine, i, page, tables, pages, frames, phys_alloc_addr, heap_addr, regions, blocks>>

-----------------------------------------------------------------------------

End == machine[1]
NFRAMES == machine[2]
Garbage == machine[3]
HeapBase == HeapPage * PAGE_SIZE
HeapEnd == HeapPage + HeapPages
Present(p) == p \in DOMAIN pages /\ pages[p][1]
Frame(p) == pages[p][2]

Init ==
  /\ machine \in Machines
  /\ pc = "directory" /\ i = HeapPage /\ page = NULL
  /\ tables = << >> /\ pages = << >> /\ frames = {}
  /\ phys_alloc_addr = End /\ heap_addr = HeapBase
  /\ regions = {<<0, End>>} /\ blocks = {}

kpanic == pc' = "panic"

\* Mutant: the address is rounded down.
kmalloc_physical_down(size, page_align) ==
  LET base == IF page_align THEN (phys_alloc_addr \div PAGE_SIZE) * PAGE_SIZE ELSE phys_alloc_addr
  IN  /\ phys_alloc_addr' = base + size
      /\ regions' = regions \cup {<<base, base + size>>}

\* Before there is a heap.  An address that is aligned moves on by a page too.
kmalloc_physical(size, page_align) ==
  LET base == IF page_align /\ phys_alloc_addr >= PAGE_SIZE
              THEN (phys_alloc_addr \div PAGE_SIZE + 1) * PAGE_SIZE
              ELSE phys_alloc_addr
  IN  /\ phys_alloc_addr' = base + size
      /\ regions' = regions \cup {<<base, base + size>>}

vm_init ==
  /\ pc = "directory"
  /\ kmalloc_physical(2 * PAGE_SIZE, TRUE)
  /\ pc' = "tables"
  /\ UNCHANGED <<machine, i, page, tables, pages, frames, heap_addr, blocks>>

\* The entries of f, and those of g where f has none.
And(f, g) == [x \in DOMAIN f \cup DOMAIN g |-> IF x \in DOMAIN f THEN f[x] ELSE g[x]]

\* Mutant: a table is made whether there is one or not.
get_page_always(p) ==
  LET t == p \div Entries
  IN  /\ kmalloc_physical(PAGE_SIZE, TRUE)
      /\ tables' = And([x \in {t} |-> phys_alloc_addr' - PAGE_SIZE], tables)
      /\ pages' = And(pages, [q \in t * Entries .. (t + 1) * Entries - 1 |-> <<FALSE, 0>>])

\* With make_table.  The memory of a new table is not cleared.
get_page(p) ==
  LET t == p \div Entries
      Own == t * Entries .. (t + 1) * Entries - 1
  IN  IF t \in DOMAIN tables
      THEN UNCHANGED <<tables, pages, phys_alloc_addr, regions>>
      ELSE /\ kmalloc_physical(PAGE_SIZE, TRUE)
           /\ tables' = And(tables, [x \in {t} |-> phys_alloc_addr' - PAGE_SIZE])
           /\ \E entries \in [Own -> Garbage] : pages' = And(pages, entries)

\* Mutant: the tables behind the kernel are not mapped.
InLoop_image ==
  CASE pc = "tables" -> i < HeapEnd
    [] pc = "identity" -> i * PAGE_SIZE < End
    [] pc = "heap" -> i < HeapEnd

\* The conditions of the three loops.  The second one's limit moves whenever
\* get_page makes a table.  The first loop goes from byte to byte, which is the
\* same as from page to page.
InLoop ==
  CASE pc = "tables" -> i < HeapEnd
    [] pc = "identity" -> i * PAGE_SIZE < phys_alloc_addr + Slack
    [] pc = "heap" -> i < HeapEnd

Loop ==
  /\ pc \in {"tables", "identity", "heap"} /\ page = NULL
  /\ InLoop
  /\ get_page(i)
  /\ page' = IF pc = "tables" THEN NULL ELSE i
  /\ i' = i + 1
  /\ UNCHANGED <<pc, machine, frames, heap_addr, blocks>>

EndLoop ==
  /\ pc \in {"tables", "identity", "heap"} /\ page = NULL
  /\ ~InLoop
  /\ pc' = CASE pc = "tables" -> "identity" [] pc = "identity" -> "heap" [] OTHER -> "null page"
  /\ i' = IF pc = "tables" THEN 0 ELSE HeapPage
  /\ UNCHANGED <<machine, page, tables, pages, frames, phys_alloc_addr, heap_addr, regions, blocks>>

find_free == IF 0 .. NFRAMES - 1 \subseteq frames THEN -1 ELSE Min((0 .. NFRAMES - 1) \ frames)

new_frame ==
  /\ pc \in {"identity", "heap"} /\ page # NULL
  /\ \/ /\ Frame(page) # 0
        /\ page' = NULL
        /\ UNCHANGED <<pc, pages, frames>>
     \/ /\ Frame(page) = 0 /\ find_free = -1
        /\ kpanic
        /\ UNCHANGED <<page, pages, frames>>
     \/ /\ Frame(page) = 0 /\ find_free # -1
        /\ frames' = frames \cup {find_free}
        /\ pages' = [pages EXCEPT ![page] = <<TRUE, find_free>>]
        /\ page' = NULL
        /\ UNCHANGED pc
  /\ UNCHANGED <<machine, i, tables, phys_alloc_addr, heap_addr, regions, blocks>>

\* The entry of page 0 is cleared and paging is enabled.  With memory that was
\* not zero the CPU may fault here, which no property is about.
null_page ==
  /\ pc = "null page"
  /\ pages' = [pages EXCEPT ![0] = <<FALSE, 0>>]
  /\ pc' = "done"
  /\ UNCHANGED <<machine, i, page, tables, frames, phys_alloc_addr, heap_addr, regions, blocks>>

alloc(size) ==
  /\ heap_addr' = heap_addr + size
  /\ IF heap_addr' > HeapEnd * PAGE_SIZE THEN kpanic ELSE UNCHANGED pc

\* With the heap: page_align has no effect.
kmalloc(size) ==
  /\ pc = "done"
  /\ alloc(size)
  /\ LET phys_addr == Frame(heap_addr \div PAGE_SIZE) * PAGE_SIZE + (heap_addr % PAGE_SIZE)
     IN  blocks' = IF pc' = "panic" THEN blocks
                   ELSE blocks \cup {<<heap_addr, heap_addr', phys_addr>>}
  /\ UNCHANGED <<machine, i, page, tables, pages, frames, phys_alloc_addr, regions>>

hlt == pc = "panic" /\ UNCHANGED vars

InitStep == vm_init \/ Loop \/ EndLoop \/ new_frame \/ null_page

-----------------------------------------------------------------------------

Apart(S) == \A a, b \in S : a = b \/ a[2] <= b[1] \/ b[2] <= a[1]

\* The kernel image, the directory and the page tables do not overlap, neither
\* do the blocks of the heap, and every table is at the start of a page, as the
\* hardware needs it.
AllocationsApart ==
  /\ Apart(regions) /\ Apart(blocks)
  /\ \A b \in blocks : HeapBase <= b[1] /\ b[2] <= HeapEnd * PAGE_SIZE
  /\ \A t \in DOMAIN tables : tables[t] % PAGE_SIZE = 0

\* Memory is zero at boot.
Clean == Garbage = {<<FALSE, 0>>}

InUse == 1 .. (phys_alloc_addr - 1) \div PAGE_SIZE

\* Once paging is on, every page of the memory that was in use before is mapped
\* to itself, the page tables made while mapping it included; and page 0 is not.
IdentityMapped ==
  pc = "done" => /\ \A p \in InUse : Present(p) /\ Frame(p) = p
                 /\ ~Present(0)

\* The heap is mapped to frames that nothing else is mapped to and that were not
\* in use before.
HeapBacked ==
  pc = "done" =>
    \A p \in HeapPage .. HeapEnd - 1 :
      /\ Present(p) /\ Frame(p) \notin InUse \cup {0}
      /\ \A q \in DOMAIN pages : q # p /\ Present(q) => Frame(q) # Frame(p)

\* The physical address that comes with a block holds for all of it, also where
\* it crosses pages.
PhysicalHolds ==
  \A b \in blocks : \A a \in b[1] .. b[2] - 1 :
    Frame(a \div PAGE_SIZE) * PAGE_SIZE + (a % PAGE_SIZE) = b[3] + (a - b[1])

=============================================================================
