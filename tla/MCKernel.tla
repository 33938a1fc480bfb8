------------------------------ MODULE MCKernel ------------------------------
(***************************************************************************)
(* Constants of the runs of Kernel.                                        *)
(***************************************************************************)
EXTENDS Kernel, TLC

CONSTANTS p1, p2, p3

\* The PCBs other than Comhand's and Idle's are interchangeable.
Slots == Permutations({p1, p2, p3})

\* The first two test processes of user/core.c; loading them twice gives
\* the last slot a process whose name is taken.
TwoR3 == << [name |-> "Process_1", rc |-> 1], [name |-> "Process_2", rc |-> 2] >>

\* Every name a process can have, and one no process has.
AllNames == {"comhand", "idle", "Process_1", "Process_2", "nobody"}

\* What comhand.c compares the input with; "show" stands for every command
\* that changes nothing here.
Shipped == {"delete pcb", "suspend pcb", "resume pcb", "set pcb priority",
            "load r3", "load r3 suspended", "shutdown", "show"}

\* With the functions of user_pcb.c that comhand.c does not call.
WithUncalled == {"create pcb", "block pcb", "unblock pcb", "delete pcb",
                 "suspend pcb", "resume pcb", "load r3", "shutdown"}

SomeNames == {"comhand", "idle", "Process_1"}

AnyFunction == {Shipped, WithUncalled}
ShippedOnly == {Shipped, Shipped \ {"set pcb priority"}}

\* What the theorem on IdleLast assumes is true of both runs.
ASSUME IdleUnrivalledHolds == IdleUnrivalled

=============================================================================
