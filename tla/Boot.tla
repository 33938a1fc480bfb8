-------------------------------- MODULE Boot --------------------------------
(***************************************************************************)
(* kmain up to the first process, with the functions of kernel/core-c.c    *)
(* and kernel/serial.c it calls, while devices raise interrupts: the order *)
(* in which port, tables, controllers and the interrupt flag are set up.   *)
(***************************************************************************)
EXTENDS Naturals, Sequences

CONSTANTS Lines,  \* the interrupt lines that are connected, of 0..15
          None    \* no handler

ASSUME BootAssumption ==
  /\ Lines \subseteq 0..15
  /\ None \notin {"kpanic", "rtc_isr", "sys_call_isr"}

VARIABLES step,         \* the steps of kmain that are done
          logged,       \* whether klogv of the next step was called
          initialized,  \* of COM1
          gdt, idt,     \* whether the tables are loaded
          idt_entries,  \* vector -> handler
          flag,         \* interrupts are enabled
          base,         \* the vectors of lines 0 and 8
          mask,         \* the lines that are masked
          pending,      \* the lines that have a request
          cpu           \* "run", "panic" or "reset"

vars == <<step, logged, initialized, gdt, idt, idt_entries, flag, base, mask, pending, cpu>>

-----------------------------------------------------------------------------

Steps == <<"serial_init", "gdt_init", "idt_init", "cli", "irq_init", "pic_init", "sti",
           "vm_init", "modules", "comhand">>

Vectors == (0..47) \cup {96}
REQUIRED_INTERRUPTS == 32

\* The state the boot loader leaves: interrupts are disabled, and the lines have
\* the vectors of the BIOS.
Init ==
  /\ step = 0 /\ logged = FALSE /\ initialized = FALSE
  /\ gdt = FALSE /\ idt = FALSE /\ idt_entries = [v \in Vectors |-> None]
  /\ flag = FALSE /\ base = <<8, 112>> /\ mask \in SUBSET Lines
  /\ pending = {} /\ cpu = "run"

\* A message to a port that is not initialized is dropped.
klogv ==
  /\ cpu = "run" /\ step < Len(Steps) /\ ~logged
  /\ logged' = TRUE
  /\ UNCHANGED <<step, initialized, gdt, idt, idt_entries, flag, base, mask, pending, cpu>>

Step(name) ==
  /\ cpu = "run" /\ step < Len(Steps) /\ logged
  /\ Steps[step + 1] = name
  /\ step' = step + 1
  /\ logged' = FALSE
  /\ UNCHANGED pending

serial_init ==
  /\ Step("serial_init")
  /\ initialized' = TRUE
  /\ UNCHANGED <<gdt, idt, idt_entries, flag, base, mask, cpu>>

gdt_init ==
  /\ Step("gdt_init")
  /\ gdt' = TRUE
  /\ UNCHANGED <<initialized, idt, idt_entries, flag, base, mask, cpu>>

idt_init ==
  /\ Step("idt_init")
  /\ idt' = TRUE
  /\ UNCHANGED <<initialized, gdt, idt_entries, flag, base, mask, cpu>>

cli ==
  /\ Step("cli")
  /\ flag' = FALSE
  /\ UNCHANGED <<initialized, gdt, idt, idt_entries, base, mask, cpu>>

\* All handlers of exceptions do a panic; rtc_isr takes the place of the one for
\* double faults.
irq_init ==
  /\ Step("irq_init")
  /\ idt_entries' = [v \in Vectors |-> IF v = 8 THEN "rtc_isr"
                                       ELSE IF v = 96 THEN "sys_call_isr"
                                       ELSE IF v < REQUIRED_INTERRUPTS THEN "kpanic"
                                       ELSE idt_entries[v]]
  /\ UNCHANGED <<initialized, gdt, idt, flag, base, mask, cpu>>

\* Mutant: the lines are not masked.
pic_init_open ==
  /\ Step("pic_init")
  /\ base' = <<32, 40>>
  /\ mask' = {}
  /\ UNCHANGED <<initialized, gdt, idt, idt_entries, flag, cpu>>

pic_init ==
  /\ Step("pic_init")
  /\ base' = <<32, 40>>
  /\ mask' = Lines
  /\ UNCHANGED <<initialized, gdt, idt, idt_entries, flag, cpu>>

sti ==
  /\ Step("sti")
  /\ flag' = TRUE
  /\ UNCHANGED <<initialized, gdt, idt, idt_entries, base, mask, cpu>>

\* vm_init is module VirtualMemory; the heap and the first two processes are
\* in modules HeapManager and Kernel.
Modules ==
  /\ Step("vm_init") \/ Step("modules")
  /\ UNCHANGED <<initialized, gdt, idt, idt_entries, flag, base, mask, cpu>>

-----------------------------------------------------------------------------

Raise(line) ==
  /\ pending' = pending \cup {line}
  /\ UNCHANGED <<step, logged, initialized, gdt, idt, idt_entries, flag, base, mask, cpu>>

Vector(line) == IF line < 8 THEN base[1] + line ELSE base[2] + line - 8

\* What the CPU does with an interrupt: without a handler there is a general
\* protection fault, and without tables the machine starts again.  rtc_isr only
\* returns; sys_call gives the CPU to comhand, whose context enables interrupts.
Enter(vector) ==
  LET Own == IF vector \in Vectors THEN idt_entries[vector] ELSE None
      handler == IF Own = None THEN idt_entries[13] ELSE Own
  IN  cpu' = CASE ~idt \/ ~gdt \/ handler = None -> "reset"
               [] idt /\ gdt /\ handler = "kpanic" -> "panic"
               [] OTHER -> "run"

\* kmain ends its part of the boot with int 0x60; the lines interrupt when they may.
Instruction == IF logged /\ step < Len(Steps) /\ Steps[step + 1] = "comhand" THEN {96} ELSE {}
Requests == IF flag THEN {Vector(line) : line \in pending \ mask} ELSE {}

Interrupt ==
  \E vector \in Instruction \cup Requests :
    /\ cpu = "run"
    /\ Enter(vector)
    /\ flag' = (cpu' = "run")
    /\ IF vector = 96 THEN step' = step + 1 /\ logged' = FALSE ELSE UNCHANGED <<step, logged>>
    /\ pending' = {line \in pending : Vector(line) # vector}
    /\ UNCHANGED <<initialized, gdt, idt, idt_entries, base, mask>>

\* comhand and the other processes run, or the CPU has stopped.
Rest == (step = Len(Steps) \/ cpu \in {"panic", "reset"}) /\ UNCHANGED vars

Kmain ==
  \/ klogv \/ serial_init \/ gdt_init \/ idt_init \/ cli \/ irq_init \/ pic_init \/ sti
  \/ Modules

Next ==
  \/ Kmain
  \/ Interrupt
  \/ \E line \in Lines : Raise(line)
  \/ Rest

Spec == Init /\ [][Next]_vars

-----------------------------------------------------------------------------

\* Whatever the devices raise and whatever the BIOS left unmasked, no interrupt
\* reaches the CPU for which there is no handler yet, at any step of kmain.
NoStray == cpu \notin {"panic", "reset"}

=============================================================================
