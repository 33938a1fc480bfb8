---------------------------- MODULE LinkedLists ----------------------------
(***************************************************************************)
(* Walking the linked lists of the kernel.  links is one pointer field of  *)
(* every node, as a function that maps NULL to itself.                     *)
(***************************************************************************)
EXTENDS Naturals, FiniteSets, Sequences

CONSTANT NULL   \* the null pointer

\* Where x leads after 0, 1, 2, ... links.  A list without a cycle has come
\* to its end after Cardinality(DOMAIN links) of them.
Walk(links, x) ==
  LET n == Cardinality(DOMAIN links)
      at[k \in 1..n] == IF k = 1 THEN x ELSE links[at[k - 1]]
  IN  at

\* The nodes met on the way, in order, ...
Chain(links, x) ==
  LET at == Walk(links, x)
  IN  [k \in {j \in DOMAIN at : at[j] # NULL} |-> at[k]]

\* ... and the first of them that is in S; NULL when there is none.
FirstOf(links, x, S) ==
  LET at == Walk(links, x)
      hits == {k \in DOMAIN at : at[k] \in S}
  IN  IF hits = {} THEN NULL ELSE at[CHOOSE k \in hits : \A j \in hits : k <= j]

=============================================================================
