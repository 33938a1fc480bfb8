---------------------------- MODULE MCScheduler ----------------------------
EXTENDS Scheduler, TLC

CONSTANTS p1, p2, p3

\* The PCBs other than Comhand and Idle are interchangeable.
Slots == Permutations({p1, p2, p3})

\* One priority for each side of the middle of enqueue's scan, and the ends.
MCPriority == {0, 3, 9}

=============================================================================
