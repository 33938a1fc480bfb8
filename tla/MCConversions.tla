--------------------------- MODULE MCConversions ---------------------------
(***************************************************************************)
(* Constants of the runs of Conversions: all ints of 8 bits, and all       *)
(* strings of at most four of a digit, another digit, the signs, a space   *)
(* and a letter.                                                           *)
(***************************************************************************)
EXTENDS Conversions

AllInts == -128 .. 127
Letter == 49
ShortStrings == UNION {[1..n -> {1, 7, Minus, Plus, Space, Letter}] : n \in 0..4}

=============================================================================
