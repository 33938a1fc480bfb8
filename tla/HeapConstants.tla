--------------------------- MODULE HeapConstants ---------------------------
(***************************************************************************)
(* The sizes of the heap, for its blocks (HeapBlocks) and for its lists    *)
(* (HeapManager).                                                          *)
(***************************************************************************)
EXTENDS Integers, SequencesExt

CONSTANTS HeapSize,  \* bytes initialize_heap gets from kmalloc
          MCBSize,   \* sizeof(MCB)
          Sizes      \* the sizes callers ask for

ASSUME HeapAssumption ==
  /\ HeapSize \in Nat /\ MCBSize \in Nat
  /\ MCBSize > 0 /\ HeapSize >= MCBSize
  /\ Sizes \subseteq Nat

=============================================================================
