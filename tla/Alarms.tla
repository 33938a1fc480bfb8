------------------------------- MODULE Alarms -------------------------------
(***************************************************************************)
(* user/alarm.c and the commands "set alarm" and "remove alarm" of         *)
(* user/comhand.c.  A message is a sequence of characters other than 0;    *)
(* a time is <<hour, minute, second>>.                                     *)
(***************************************************************************)
EXTENDS Integers, Sequences, SequencesExt

CONSTANTS MAX_ALARMS,
          MsgSize,    \* sizeof message, the terminator included
          Times,      \* the times that are entered
          Messages    \* the messages that are entered

ASSUME AlarmsAssumption ==
  /\ MAX_ALARMS \in Nat \ {0}
  /\ MsgSize \in Nat \ {0}
  /\ Messages \subseteq Seq(1 .. 255)

VARIABLES alarms,     \* slots, with the message as it was entered as a history variable
          numAlarms,
          processes,  \* processes made by setAlarm
          panicked,   \* the processor is halted
          answer      \* to the last command, and its time

vars == <<alarms, numAlarms, processes, panicked, answer>>

-----------------------------------------------------------------------------

Slots == 0 .. MAX_ALARMS - 1
Used == 0 .. numAlarms - 1

\* What strlen and WRITE make of the array: all before the first 0.
Text(message) ==
  LET n == Min({i \in DOMAIN message : message[i] = 0})
  IN  [i \in 1..n |-> message[i - 1]]

\* The array is in zeroed memory.
Init ==
  /\ alarms = [i \in Slots |-> [time |-> <<0, 0, 0>>, message |-> [c \in 0 .. MsgSize - 1 |-> 0],
                                entered |-> << >>]]
  /\ numAlarms = 0
  /\ processes = 0
  /\ panicked = FALSE
  /\ answer = <<"none">>

-----------------------------------------------------------------------------

findAlarmIndex(time) ==
  LET found == {i \in Used : alarms[i].time = time}
  IN  IF found = {} THEN -1 ELSE Min(found)

\* The characters before the terminator are copied, but not the terminator.
Copied(message, entered) ==
  [c \in 0 .. MsgSize - 1 |->
    IF c = MsgSize - 1 THEN 0
    ELSE IF c < Len(entered) THEN entered[c + 1] ELSE message[c]]

createAlarm(time, message) ==
  IF numAlarms >= MAX_ALARMS
  THEN UNCHANGED <<alarms, numAlarms>>
  ELSE /\ alarms' = [alarms EXCEPT ![numAlarms] =
                      [time |-> time, message |-> Copied(@.message, message), entered |-> message]]
       /\ numAlarms' = numAlarms + 1

\* Mutant: the last alarm is not moved.
removeAlarm_hole(index) ==
  IF index \notin Used
  THEN UNCHANGED <<alarms, numAlarms>>
  ELSE numAlarms' = numAlarms - 1 /\ UNCHANGED alarms

\* Mutant: the message of the last alarm is not moved with it.
removeAlarm_message(index) ==
  IF index \notin Used
  THEN UNCHANGED <<alarms, numAlarms>>
  ELSE /\ numAlarms' = numAlarms - 1
       /\ alarms' = [alarms EXCEPT ![index].time = alarms[numAlarms - 1].time,
                                   ![index].entered = alarms[numAlarms - 1].entered]

removeAlarm(index) ==
  IF index \notin Used
  THEN UNCHANGED <<alarms, numAlarms>>
  ELSE /\ numAlarms' = numAlarms - 1
       /\ alarms' = IF index < numAlarms' THEN [alarms EXCEPT ![index] = alarms[numAlarms']]
                    ELSE alarms

\* "full" is an error message that is followed by "Alarm set." all the same.
set_alarm(time, message) ==
  /\ ~panicked
  /\ createAlarm(time, message)
  /\ answer' = <<IF numAlarms >= MAX_ALARMS THEN "full" ELSE "set", time>>
  /\ UNCHANGED <<processes, panicked>>

remove_alarm(time) ==
  /\ ~panicked
  /\ LET index == findAlarmIndex(time)
     IN  IF index = -1
         THEN answer' = <<"not found", time>> /\ UNCHANGED <<alarms, numAlarms>>
         ELSE answer' = <<"removed", time>> /\ removeAlarm(index)
  /\ UNCHANGED <<processes, panicked>>

\* A process that runs checkAlarm, if the time is one of the day.  Part of the
\* interface, although no command calls it.  The result of pcb_setup is not
\* checked: with no memory left the context is written through the field stackPtr
\* of NULL, which on clean memory holds 0, so the write is to page 0.
\* Bound: two such processes.
setAlarm(time) ==
  /\ ~panicked /\ processes < 2
  /\ \/ /\ time \in (0..23) \X (0..59) \X (0..59)
        /\ \/ processes' = processes + 1 /\ UNCHANGED panicked
           \/ panicked' = TRUE /\ UNCHANGED processes
     \/ /\ time \notin (0..23) \X (0..59) \X (0..59)
        /\ UNCHANGED <<processes, panicked>>
  /\ UNCHANGED <<alarms, numAlarms, answer>>

\* Whatever the clock says, it ends in a page fault before the table changes.  With
\* an alarm of this time, WRITE is given the number of the hour for the address of
\* its buffer: page 0, which is not mapped.  With none, the function returns, with
\* no EXIT, to the 0 that its cleared stack holds.
checkAlarm ==
  /\ ~panicked /\ processes > 0
  /\ panicked' = TRUE
  /\ UNCHANGED <<alarms, numAlarms, processes, answer>>

\* Nothing follows kpanic.
kpanic == panicked /\ UNCHANGED vars

Next ==
  \/ \E t \in Times, m \in Messages : set_alarm(t, m)
  \/ \E t \in Times : remove_alarm(t)
  \/ \E t \in Times : setAlarm(t)
  \/ checkAlarm
  \/ kpanic

Spec == Init /\ [][Next]_vars

-----------------------------------------------------------------------------

\* The stored alarms, whatever their slots.
Stored ==
  LET kinds == {<<alarms[i].time, alarms[i].entered>> : i \in Used}
      Count(a) == Cardinality({i \in Used : <<alarms[i].time, alarms[i].entered>> = a})
  IN  [a \in kinds |-> Count(a)]

Table == INSTANCE AlarmTable WITH table <- Stored

\* Moving the last alarm into the place of the removed one loses none and
\* doubles none: the array is a bag of alarms, "remove alarm" takes out one of the
\* time it was given, "not found" is answered only when there is none, and nothing
\* else takes one out.
Implements == Table!Spec

Cut(entered) == SubSeq(entered, 1, Min({Len(entered), MsgSize - 1}))

\* The message of a stored alarm begins with what was entered for it, also after
\* it was moved to another slot, and ends within the array.
TextBegins ==
  \A i \in Used :
    /\ alarms[i].message[MsgSize - 1] = 0
    /\ IsPrefix(Cut(alarms[i].entered), Text(alarms[i].message))

=============================================================================
