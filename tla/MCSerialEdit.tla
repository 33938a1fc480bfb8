---------------------------- MODULE MCSerialEdit ----------------------------
(***************************************************************************)
(* Constants of the run of SerialEdit: one buffer that is cleared.         *)
(***************************************************************************)
EXTENDS SerialEdit

OneSize == [b \in Buffer |-> Capacity + 1]

ASSUME EditOnlyHolds == EditOnly

=============================================================================
