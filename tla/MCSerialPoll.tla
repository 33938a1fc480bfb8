---------------------------- MODULE MCSerialPoll ----------------------------
(***************************************************************************)
(* Constants of the runs of SerialPoll: the buffers comhand and            *)
(* set_pcb_priority read into, with fewer characters.                      *)
(***************************************************************************)
EXTENDS SerialPoll

EqualSizes == [b \in Buffer |-> 4]
ShortLines == [b \in Buffer |-> 3]

=============================================================================
