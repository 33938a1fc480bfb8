---------------------------- MODULE HeapClients ----------------------------
(***************************************************************************)
(* The whole heap: its clients (ProcessHeap) on its lists (HeapManager),   *)
(* next to the row of blocks (HeapBlocks) those lists stand for.           *)
(***************************************************************************)
EXTENDS HeapBlocks, ProcessHeap

allVars == <<blocks, hm, owned, ret, procs, history, held, pc, back, arg>>

RowInit == ClientsInit /\ blocks = Row

RowNext == ClientsNext /\ blocks' = Row'

ClientsSpec == RowInit /\ [][RowNext]_allVars

-----------------------------------------------------------------------------

\* Read along the list of all blocks, what the lists do is first fit, split
\* and merge on the row of blocks.
Implements == Spec

=============================================================================
