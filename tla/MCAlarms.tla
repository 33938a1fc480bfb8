------------------------------ MODULE MCAlarms ------------------------------
(***************************************************************************)
(* Constants of the runs of Alarms: two times of the day and one that is   *)
(* none, and messages that fit the array and that are too long for it.     *)
(***************************************************************************)
EXTENDS Alarms

SomeTimes == {<<0, 0, 1>>, <<0, 1, 0>>, <<24, 0, 0>>}
FewMessages == {<<1>>, <<2, 2, 2>>}

=============================================================================
