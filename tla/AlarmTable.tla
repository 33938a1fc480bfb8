----------------------------- MODULE AlarmTable -----------------------------
(***************************************************************************)
(* What the table of alarms promises: it is a bag of at most MAX_ALARMS,   *)
(* each a time and the message entered for it, and an answer is true of    *)
(* the table and of the time in the command.  Only a command takes an      *)
(* alarm out.                                                              *)
(***************************************************************************)
EXTENDS Naturals, BagsExt, FiniteSets

CONSTANTS Times, Messages, MAX_ALARMS

VARIABLES table, answer

\* The copies in a bag, told apart by a number.
Copies(B) == UNION {{a} \X (1 .. B[a]) : a \in DOMAIN B}
Size == Cardinality(Copies(table))

Init == table = << >> /\ answer = <<"none">>

Set(time, message) ==
  /\ Size < MAX_ALARMS
  /\ table' = BagAdd(table, <<time, message>>)
  /\ answer' = <<"set", time>>

Full(time) ==
  /\ Size = MAX_ALARMS
  /\ answer' = <<"full", time>>
  /\ UNCHANGED table

At(time) == {a \in DOMAIN table : a[1] = time}

Remove(time) ==
  /\ \E a \in At(time) : table' = BagRemove(table, a)
  /\ answer' = <<"removed", time>>

NotFound(time) ==
  /\ At(time) = {}
  /\ answer' = <<"not found", time>>
  /\ UNCHANGED table

Next ==
  \/ \E t \in Times, m \in Messages : Set(t, m)
  \/ \E t \in Times : Full(t) \/ Remove(t) \/ NotFound(t)

Spec == Init /\ [][Next]_<<table, answer>>

=============================================================================
