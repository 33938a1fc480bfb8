---------------------------- MODULE AlarmsProofs ----------------------------
(***************************************************************************)
(* The array of alarms is the bag that AlarmTable promises, and the        *)
(* messages stay with their alarms, for any size of the array and of a     *)
(* message, and any times.                                                 *)
(***************************************************************************)
EXTENDS Alarms, SequenceLemmas, FiniteSetTheorems

-----------------------------------------------------------------------------

(***************************************************************************)
(* Slots.                                                                  *)
(***************************************************************************)

Char == 1 .. 255

\* A message of the array: of what is behind the copied text, nothing is known.
Array == [0 .. MsgSize - 1 -> Int]

\* The text of a slot begins with what was entered, and ends.
Holds(a) ==
  /\ a.message \in Array /\ a.entered \in Seq(Char)
  /\ a.message[MsgSize - 1] = 0
  /\ \A c \in 0 .. MsgSize - 2 : c < Len(a.entered) => a.message[c] = a.entered[c + 1]

\* The slots are written from the front, and those that are used hold.
SlotsInv ==
  /\ numAlarms \in 0 .. MAX_ALARMS
  /\ DOMAIN alarms = Slots /\ alarms = [s \in Slots |-> alarms[s]]
  /\ \A s \in Slots : alarms[s].message \in Array
  /\ \A s \in Used : Holds(alarms[s])

\* The bounds of the slots.
LEMMA SlotNumbers ==
  ASSUME SlotsInv
  PROVE  /\ MAX_ALARMS \in Nat \ {0} /\ MsgSize \in Nat \ {0} /\ numAlarms \in Nat
         /\ Used \subseteq Nat /\ Used \subseteq Slots
  BY AlarmsAssumption DEF SlotsInv, Used, Slots

\* findAlarmIndex: the first used slot with that time, or -1 when there is none.
LEMMA IndexFound ==
  ASSUME SlotsInv, NEW time
  PROVE  \/ findAlarmIndex(time) \in Used /\ alarms[findAlarmIndex(time)].time = time
         \/ findAlarmIndex(time) = -1 /\ \A s \in Used : alarms[s].time # time
PROOF
<1> DEFINE found == {s \in Used : alarms[s].time = time}
<1>1. found \in SUBSET Nat
  BY SlotNumbers
<1>2. CASE found = {}
  BY <1>2 DEF findAlarmIndex
<1>3. CASE found # {}
  <2>1. \E x \in found : \A y \in found : x <= y
    BY <1>1, <1>3, LeastNumber
  <2>2. Min(found) \in found
    BY <2>1 DEF Min
  <2> QED
    BY <1>3, <2>2 DEF findAlarmIndex
<1> QED
  BY <1>2, <1>3

\* What createAlarm does when there is a slot.
LEMMA AlarmAdded ==
  ASSUME SlotsInv, NEW time, NEW m \in Messages, createAlarm(time, m), numAlarms < MAX_ALARMS
  PROVE  /\ SlotsInv' /\ numAlarms' = numAlarms + 1
         /\ \A s \in Used : alarms'[s] = alarms[s]
         /\ alarms'[numAlarms].time = time /\ alarms'[numAlarms].entered = m
PROOF
<1>0. MAX_ALARMS \in Nat \ {0} /\ MsgSize \in Nat \ {0} /\ numAlarms \in Nat /\ m \in Seq(Char)
  BY SlotNumbers, AlarmsAssumption DEF Char
<1> PICK old, msg, new :
      /\ old = alarms[numAlarms].message /\ msg = Copied(old, m)
      /\ new = [time |-> time, message |-> msg, entered |-> m]
  OBVIOUS
<1>1. numAlarms' = numAlarms + 1 /\ alarms' = [alarms EXCEPT ![numAlarms] = new]
  BY <1>0 DEF createAlarm
<1>2. numAlarms \in Slots
  BY <1>0 DEF Slots
<1>3. alarms'[numAlarms] = new /\ \A s \in Slots : s # numAlarms => alarms'[s] = alarms[s]
  BY <1>1, <1>2 DEF SlotsInv
<1>4. DOMAIN alarms' = Slots /\ alarms' = [s \in Slots |-> alarms'[s]]
  BY <1>1 DEF SlotsInv
<1>5. Holds(new)
  <2>1. old \in Array
    BY <1>2 DEF SlotsInv
  <2>2. Len(m) \in Nat /\ \A c \in 1 .. Len(m) : m[c] \in Int
    <3>1. Len(m) \in Nat /\ \A c \in 1 .. Len(m) : m[c] \in Char
      BY <1>0, LenProperties, ElementOfSeq
    <3>2. Char \subseteq Int
      BY DEF Char
    <3> QED
      BY ONLY <3>1, <3>2
  <2>3. \A c \in 0 .. MsgSize - 1 :
          msg[c] = IF c = MsgSize - 1 THEN 0 ELSE IF c < Len(m) THEN m[c + 1] ELSE old[c]
    BY DEF Copied
  <2>4. msg \in Array
    <3>1. ASSUME NEW c \in 0 .. MsgSize - 1 PROVE msg[c] \in Int
      <4>1. old[c] \in Int
        BY <2>1 DEF Array
      <4>2. c < Len(m) => m[c + 1] \in Int
        BY <2>2
      <4> QED
        BY ONLY <2>3, <4>1, <4>2, c \in 0 .. MsgSize - 1
    <3>2. msg = [c \in 0 .. MsgSize - 1 |-> msg[c]]
      BY DEF Copied
    <3> QED
      BY <3>1, <3>2 DEF Array
  <2>5. msg[MsgSize - 1] = 0
    BY <1>0, <2>3
  <2>6. \A c \in 0 .. MsgSize - 2 : c < Len(m) => msg[c] = m[c + 1]
    BY <1>0, <2>2, <2>3
  <2>7. new.message = msg /\ new.entered = m
    OBVIOUS
  <2> QED
    BY <1>0, <2>4, <2>5, <2>6, <2>7 DEF Holds
<1>6. Used' = Used \cup {numAlarms} /\ Used \subseteq Slots /\ numAlarms \notin Used
  BY <1>0, <1>1, SlotNumbers DEF Used
<1>7. \A s \in Used' : Holds(alarms'[s])
  BY <1>3, <1>5, <1>6 DEF SlotsInv
<1>8. \A s \in Slots : alarms'[s].message \in Array
  BY <1>3, <1>5 DEF SlotsInv, Holds
<1>9. numAlarms' \in 0 .. MAX_ALARMS
  BY <1>0, <1>1
<1>10. SlotsInv'
  BY <1>4, <1>7, <1>8, <1>9 DEF SlotsInv
<1> QED
  BY <1>1, <1>3, <1>6, <1>10

\* What removeAlarm does to a used slot: the last alarm takes its place.
LEMMA AlarmRemoved ==
  ASSUME SlotsInv, NEW index \in Used, removeAlarm(index)
  PROVE  /\ SlotsInv' /\ numAlarms' = numAlarms - 1
         /\ \A s \in Used' : alarms'[s] = IF s = index THEN alarms[numAlarms - 1] ELSE alarms[s]
PROOF
<1>0. MAX_ALARMS \in Nat \ {0} /\ numAlarms \in Nat /\ numAlarms <= MAX_ALARMS /\ index \in Nat
      /\ index < numAlarms
  BY SlotNumbers DEF SlotsInv, Used
<1>1. /\ numAlarms' = numAlarms - 1
      /\ alarms' = IF index < numAlarms' THEN [alarms EXCEPT ![index] = alarms[numAlarms']]
                   ELSE alarms
  BY DEF removeAlarm
<1>2. numAlarms' \in Used /\ numAlarms' \in Slots /\ index \in Slots
  BY <1>0, <1>1 DEF Used, Slots
<1>3. DOMAIN alarms' = Slots /\ alarms' = [s \in Slots |-> alarms'[s]]
  BY <1>1 DEF SlotsInv
<1>4. \A s \in Slots : \/ alarms'[s] = alarms[s]
                       \/ s = index /\ alarms'[s] = alarms[numAlarms']
  BY <1>1, <1>2 DEF SlotsInv
<1>5. Used' \subseteq Used /\ Used \subseteq Slots
  BY <1>0, <1>1 DEF Used, Slots
<1>6. \A s \in Used' : alarms'[s] = IF s = index THEN alarms[numAlarms'] ELSE alarms[s]
  <2> SUFFICES ASSUME NEW s \in Used'
               PROVE  alarms'[s] = IF s = index THEN alarms[numAlarms'] ELSE alarms[s]
    OBVIOUS
  <2>1. s \in Slots /\ s < numAlarms'
    BY <1>0, <1>1, <1>5 DEF Used
  <2>2. CASE s = index
    BY <1>1, <1>2, <2>1, <2>2 DEF SlotsInv
  <2>3. CASE s # index
    BY <1>4, <2>1, <2>3
  <2> QED
    BY <2>2, <2>3
<1>7. \A s \in Used' : Holds(alarms'[s])
  BY <1>2, <1>5, <1>6 DEF SlotsInv
<1>8. \A s \in Slots : alarms'[s].message \in Array
  BY <1>2, <1>4 DEF SlotsInv
<1>9. numAlarms' \in 0 .. MAX_ALARMS
  BY <1>0, <1>1
<1>10. SlotsInv'
  BY <1>3, <1>7, <1>8, <1>9 DEF SlotsInv
<1> QED
  BY <1>1, <1>6, <1>10

\* The array in zeroed memory has no used slot.
LEMMA SlotsInit == Init => SlotsInv
PROOF
<1> SUFFICES ASSUME Init PROVE SlotsInv
  OBVIOUS
<1>1. MAX_ALARMS \in Nat \ {0} /\ MsgSize \in Nat \ {0} /\ numAlarms = 0
  BY AlarmsAssumption DEF Init
<1>2. Used = {}
  BY <1>1 DEF Used
<1>3. \A s \in Slots : alarms[s].message = [c \in 0 .. MsgSize - 1 |-> 0]
  BY DEF Init
<1>4. [c \in 0 .. MsgSize - 1 |-> 0] \in Array
  BY DEF Array
<1>5. DOMAIN alarms = Slots /\ alarms = [s \in Slots |-> alarms[s]]
  BY DEF Init
<1> QED
  BY <1>1, <1>2, <1>3, <1>4, <1>5 DEF SlotsInv

\* What a step does to the array: nothing, an alarm more, or one less.
Adds(time, m) ==
  /\ numAlarms < MAX_ALARMS /\ m \in Messages /\ createAlarm(time, m)
Removes(index) ==
  /\ index \in Used /\ removeAlarm(index)
Keeps == UNCHANGED <<alarms, numAlarms>>

\* The outcome of every step of comhand and of the process that checks alarms,
\* with the answer it gives.
LEMMA StepOutcome ==
  ASSUME SlotsInv, [Next]_vars
  PROVE  \/ \E t \in Times, m \in Messages : Adds(t, m) /\ answer' = <<"set", t>>
         \/ \E t \in Times : Keeps /\ numAlarms = MAX_ALARMS /\ answer' = <<"full", t>>
         \/ \E t \in Times : /\ \E s \in Used : alarms[s].time = t /\ Removes(s)
                             /\ answer' = <<"removed", t>>
         \/ \E t \in Times : /\ Keeps /\ \A s \in Used : alarms[s].time # t
                             /\ answer' = <<"not found", t>>
         \/ Keeps /\ answer' = answer
PROOF
<1>0. MAX_ALARMS \in Nat /\ numAlarms \in Nat /\ numAlarms <= MAX_ALARMS /\ -1 \notin Used
  BY SlotNumbers DEF SlotsInv, Used
<1>1. ASSUME NEW t \in Times, NEW m \in Messages, set_alarm(t, m)
      PROVE  \/ Adds(t, m) /\ answer' = <<"set", t>>
             \/ Keeps /\ numAlarms = MAX_ALARMS /\ answer' = <<"full", t>>
  <2>1. CASE numAlarms < MAX_ALARMS
    BY <1>0, <1>1, <2>1 DEF set_alarm, Adds
  <2>2. CASE ~(numAlarms < MAX_ALARMS)
    <3>1. numAlarms >= MAX_ALARMS /\ numAlarms = MAX_ALARMS
      BY <1>0, <2>2
    <3> QED
      BY <1>1, <3>1 DEF set_alarm, createAlarm, Keeps
  <2> QED
    BY <2>1, <2>2
<1>2. ASSUME NEW t \in Times, remove_alarm(t)
      PROVE  \/ /\ \E s \in Used : alarms[s].time = t /\ Removes(s)
                /\ answer' = <<"removed", t>>
             \/ /\ Keeps /\ \A s \in Used : alarms[s].time # t
                /\ answer' = <<"not found", t>>
  <2> PICK index : index = findAlarmIndex(t)
    OBVIOUS
  <2>1. \/ index \in Used /\ alarms[index].time = t
        \/ index = -1 /\ \A s \in Used : alarms[s].time # t
    BY IndexFound
  <2>2. CASE index \in Used /\ alarms[index].time = t
    BY <1>0, <1>2, <2>2 DEF remove_alarm, Removes
  <2>3. CASE index = -1 /\ \A s \in Used : alarms[s].time # t
    BY <1>2, <2>3 DEF remove_alarm, Keeps
  <2> QED
    BY <2>1, <2>2, <2>3
<1>3. CASE checkAlarm \/ kpanic \/ UNCHANGED vars \/ \E t \in Times : setAlarm(t)
  BY <1>3 DEF checkAlarm, kpanic, vars, setAlarm, Keeps
<1> QED
  BY <1>1, <1>2, <1>3 DEF Next

\* Every step keeps the slots as they should be.
LEMMA SlotsNext == SlotsInv /\ [Next]_vars => SlotsInv'
PROOF
<1> SUFFICES ASSUME SlotsInv, [Next]_vars PROVE SlotsInv'
  OBVIOUS
<1>1. \/ \E t, m : Adds(t, m)
      \/ \E s : Removes(s)
      \/ Keeps
  BY StepOutcome
<1>2. CASE \E t, m : Adds(t, m)
  BY <1>2, AlarmAdded DEF Adds
<1>3. CASE \E s : Removes(s)
  BY <1>3, AlarmRemoved DEF Removes
<1>4. CASE Keeps
  BY <1>4 DEF Keeps, SlotsInv, Used
<1> QED
  BY <1>1, <1>2, <1>3, <1>4

-----------------------------------------------------------------------------

(***************************************************************************)
(* Messages.                                                               *)
(***************************************************************************)

\* The text of a slot that holds begins with what was entered, as far as it
\* fits.
LEMMA HoldsText ==
  ASSUME NEW a, Holds(a), MsgSize \in Nat \ {0}
  PROVE  IsPrefix(Cut(a.entered), Text(a.message))
PROOF
<1> PICK e, g : e = a.entered /\ g = a.message
  OBVIOUS
<1>1. /\ g \in Array /\ e \in Seq(Char) /\ g[MsgSize - 1] = 0
      /\ \A c \in 0 .. MsgSize - 2 : c < Len(e) => g[c] = e[c + 1]
  BY DEF Holds
<1>2. Len(e) \in Nat /\ \A c \in 1 .. Len(e) : e[c] \in Char
  BY <1>1, LenProperties, ElementOfSeq
<1>3. PICK k : k = Min({Len(e), MsgSize - 1})
  OBVIOUS
<1>4. k \in Nat /\ k <= Len(e) /\ k <= MsgSize - 1
  <2>1. \A p, q \in Nat : Min({p, q}) = IF p <= q THEN p ELSE q
    BY DEF Min
  <2>2. MsgSize - 1 \in Nat
    OBVIOUS
  <2> QED
    BY <1>2, <1>3, <2>1, <2>2
<1>5. PICK n : n = Min({c \in DOMAIN g : g[c] = 0})
  OBVIOUS
<1>6. n \in 0 .. MsgSize - 1 /\ g[n] = 0
  <2> DEFINE Z == {c \in DOMAIN g : g[c] = 0}
  <2>1. DOMAIN g = 0 .. MsgSize - 1
    BY <1>1 DEF Array
  <2>2. Z \in SUBSET Nat /\ Z # {}
    BY <1>1, <2>1
  <2>3. \E x \in Z : \A y \in Z : x <= y
    BY <2>2, LeastNumber
  <2>4. Min(Z) \in Z
    BY <2>3 DEF Min
  <2> QED
    BY <1>5, <2>1, <2>4
<1>7. \A c \in 0 .. k - 1 : g[c] = e[c + 1] /\ g[c] # 0
  <2> SUFFICES ASSUME NEW c \in 0 .. k - 1 PROVE g[c] = e[c + 1] /\ g[c] # 0
    OBVIOUS
  <2>1. c \in 0 .. MsgSize - 2 /\ c < Len(e) /\ c + 1 \in 1 .. Len(e)
    BY <1>2, <1>4
  <2>2. e[c + 1] \in Char /\ g[c] = e[c + 1]
    BY <1>1, <1>2, <2>1
  <2> QED
    BY <2>2 DEF Char
<1>8. k <= n
  BY <1>4, <1>6, <1>7
<1> PICK u, v : u = Cut(e) /\ v = Text(g)
  OBVIOUS
<1>9. u \in Seq(Char) /\ Len(u) = k /\ \A c \in 1 .. k : u[c] = e[c]
  <2>1. u = SubSeq(e, 1, k)
    BY <1>3 DEF Cut
  <2>2. \A c \in 1 .. k : e[c] \in Char
    BY <1>2, <1>4
  <2>3. /\ SubSeq(e, 1, k) \in Seq(Char)
        /\ Len(SubSeq(e, 1, k)) = IF 1 <= k THEN k - 1 + 1 ELSE 0
        /\ \A c \in 1 .. k - 1 + 1 : SubSeq(e, 1, k)[c] = e[1 + c - 1]
    BY <1>4, <2>2, SubSeqProperties
  <2> QED
    BY <1>4, <2>1, <2>3
<1>10. v \in Seq(Int) /\ Len(v) = n /\ \A c \in 1 .. n : v[c] = g[c - 1]
  <2>1. v = [c \in 1 .. n |-> g[c - 1]]
    BY <1>5 DEF Text
  <2>2. \A c \in 1 .. n : g[c - 1] \in Int
    BY <1>1, <1>6 DEF Array
  <2>3. v \in [1 .. n -> Int] /\ n \in Nat
    BY <1>6, <2>1, <2>2
  <2>4. v \in Seq(Int) /\ Len(v) = n
    BY <2>3
  <2> QED
    BY <2>1, <2>4
<1>11. \A c \in 1 .. k : u[c] = v[c]
  BY <1>4, <1>6, <1>7, <1>8, <1>9, <1>10
<1>12. SubSeq(u, 1, k) = SubSeq(v, 1, k)
  <2>1. SubSeq(u, 1, k) = [c \in 1 .. k |-> u[c]]
    BY <1>4 DEF SubSeq
  <2>2. SubSeq(v, 1, k) = [c \in 1 .. k |-> v[c]]
    BY <1>4 DEF SubSeq
  <2> QED
    BY <1>11, <2>1, <2>2
<1> QED
  BY <1>8, <1>9, <1>10, <1>12 DEF IsPrefix

\* For any size of the array and of a message: whatever is set, removed and
\* moved, the message of a stored alarm begins with what was entered for it and
\* ends within its array.
THEOREM MessagesKept == Spec => []TextBegins
<1>1. SlotsInv => TextBegins
  <2> SUFFICES ASSUME SlotsInv, NEW s \in Used
               PROVE  /\ alarms[s].message[MsgSize - 1] = 0
                      /\ IsPrefix(Cut(alarms[s].entered), Text(alarms[s].message))
    BY DEF TextBegins
  <2>1. Holds(alarms[s]) /\ MsgSize \in Nat \ {0}
    BY SlotNumbers DEF SlotsInv
  <2> QED
    BY <2>1, HoldsText DEF Holds
<1> QED
  BY <1>1, SlotsInit, SlotsNext, PTL DEF Spec

-----------------------------------------------------------------------------

(***************************************************************************)
(* Bags.                                                                   *)
(***************************************************************************)

IsBag(B) == B \in [DOMAIN B -> Nat \ {0}]
CountIn(B, a) == IF a \in DOMAIN B THEN B[a] ELSE 0

\* A bag with one x more than another is what BagAdd makes of that one.
LEMMA OneMore ==
  ASSUME NEW B, NEW C, NEW x, IsBag(B), IsBag(C),
         \A a : CountIn(C, a) = IF a = x THEN CountIn(B, a) + 1 ELSE CountIn(B, a)
  PROVE  C = Table!BagAdd(B, x)
PROOF
<1>1. \A a : (a \in DOMAIN C <=> CountIn(C, a) # 0) /\ (a \in DOMAIN B <=> CountIn(B, a) # 0)
  BY DEF IsBag, CountIn
<1>2. \A a : CountIn(B, a) \in Nat
  BY DEF IsBag, CountIn
<1>3. DOMAIN C = DOMAIN B \cup {x}
  <2>1. ASSUME NEW a PROVE a \in DOMAIN C <=> a \in DOMAIN B \/ a = x
    <3>1. CountIn(B, a) + 1 # 0
      BY <1>2
    <3> QED
      BY <1>1, <3>1
  <2> QED
    BY <2>1
<1>4. \A a \in DOMAIN C : C[a] = IF a = x THEN CountIn(B, a) + 1 ELSE B[a]
  BY <1>3 DEF CountIn
<1>5. C = [a \in DOMAIN C |-> C[a]]
  BY DEF IsBag
<1>6. CASE x \in DOMAIN B
  <2>1. DOMAIN C = DOMAIN B /\ CountIn(B, x) = B[x]
    BY <1>3, <1>6 DEF CountIn
  <2>2. C = [a \in DOMAIN B |-> IF a = x THEN B[a] + 1 ELSE B[a]]
    BY <1>4, <1>5, <2>1
  <2> QED
    BY <1>6, <2>2 DEF Table!BagAdd
<1>7. CASE x \notin DOMAIN B
  <2>1. CountIn(B, x) = 0
    BY <1>7 DEF CountIn
  <2>2. C = [a \in DOMAIN B \cup {x} |-> IF a = x THEN 1 ELSE B[a]]
    BY <1>3, <1>4, <1>5, <2>1
  <2> QED
    BY <1>7, <2>2 DEF Table!BagAdd
<1> QED
  BY <1>6, <1>7

\* A bag with one x less is what BagRemove makes of the other.
LEMMA OneLess ==
  ASSUME NEW B, NEW C, NEW x, IsBag(B), IsBag(C), x \in DOMAIN B,
         \A a : CountIn(C, a) = IF a = x THEN CountIn(B, a) - 1 ELSE CountIn(B, a)
  PROVE  C = Table!BagRemove(B, x)
PROOF
<1>1. \A a : (a \in DOMAIN C <=> CountIn(C, a) # 0) /\ (a \in DOMAIN B <=> CountIn(B, a) # 0)
  BY DEF IsBag, CountIn
<1>2. CountIn(B, x) = B[x] /\ B[x] \in Nat \ {0} /\ CountIn(C, x) = B[x] - 1
  BY DEF IsBag, CountIn
<1>3. \A a : a # x => (a \in DOMAIN C <=> a \in DOMAIN B)
  BY <1>1
<1>4. \A a \in DOMAIN C : a # x => C[a] = B[a]
  BY <1>3 DEF CountIn
<1>5. C = [a \in DOMAIN C |-> C[a]]
  BY DEF IsBag
<1>6. CASE B[x] = 1
  <2>1. DOMAIN C = DOMAIN B \ {x}
    BY <1>1, <1>2, <1>3, <1>6
  <2>2. C = [a \in DOMAIN B \ {x} |-> B[a]]
    BY <1>4, <1>5, <2>1
  <2> QED
    BY <1>6, <2>2 DEF Table!BagRemove
<1>7. CASE B[x] # 1
  <2>0. B[x] - 1 # 0
    BY <1>2, <1>7
  <2>1. DOMAIN C = DOMAIN B
    BY <1>1, <1>2, <1>3, <2>0
  <2>2. C[x] = B[x] - 1
    BY <1>2, <2>1 DEF CountIn
  <2>3. C = [a \in DOMAIN B |-> IF a = x THEN B[a] - 1 ELSE B[a]]
    BY <1>4, <1>5, <2>1, <2>2
  <2> QED
    BY <1>7, <2>3 DEF Table!BagRemove
<1> QED
  BY <1>6, <1>7

\* A copy is a member and a number up to its count.
LEMMA CopyOf ==
  ASSUME NEW B, IsBag(B), NEW z
  PROVE  z \in Table!Copies(B) <=> \E a, k : z = <<a, k>> /\ k \in 1 .. CountIn(B, a)
PROOF
<1>1. z \in Table!Copies(B) <=> \E a \in DOMAIN B : \E k \in 1 .. B[a] : z = <<a, k>>
  <2>1. \A a : z \in {a} \X (1 .. B[a]) <=> \E k \in 1 .. B[a] : z = <<a, k>>
    OBVIOUS
  <2>2. z \in Table!Copies(B) <=> \E a \in DOMAIN B : z \in {a} \X (1 .. B[a])
    <3> DEFINE Of(a) == {a} \X (1 .. B[a])
    <3>1. Table!Copies(B) = UNION {Of(a) : a \in DOMAIN B}
      BY DEF Table!Copies, Of
    <3> HIDE DEF Of
    <3>2. z \in Table!Copies(B) <=> \E a \in DOMAIN B : z \in Of(a)
      BY ONLY <3>1
    <3> QED
      BY <3>2 DEF Of
  <2> QED
    BY ONLY <2>1, <2>2
<1>2. \A a : a \notin DOMAIN B => 1 .. CountIn(B, a) = {}
  BY DEF CountIn
<1>3. \A a \in DOMAIN B : CountIn(B, a) = B[a]
  BY DEF CountIn
<1> QED
  BY <1>1, <1>2, <1>3

\* With one x more there is one copy more.
LEMMA CopiesMore ==
  ASSUME NEW B, NEW C, NEW x, IsBag(B), IsBag(C),
         \A a : CountIn(C, a) = IF a = x THEN CountIn(B, a) + 1 ELSE CountIn(B, a)
  PROVE  /\ IsFiniteSet(Table!Copies(B)) <=> IsFiniteSet(Table!Copies(C))
         /\ IsFiniteSet(Table!Copies(B)) =>
              Cardinality(Table!Copies(C)) = Cardinality(Table!Copies(B)) + 1
PROOF
<1>1. \A a : CountIn(B, a) \in Nat
  BY DEF IsBag, CountIn
<1>2. PICK new : new = <<x, CountIn(B, x) + 1>>
  OBVIOUS
<1>3. \A z : z \in Table!Copies(C) <=> z \in Table!Copies(B) \/ z = new
  <2> SUFFICES ASSUME NEW z PROVE z \in Table!Copies(C) <=> z \in Table!Copies(B) \/ z = new
    OBVIOUS
  <2>1. \A a, k : k \in 1 .. CountIn(C, a) <=>
                    k \in 1 .. CountIn(B, a) \/ (a = x /\ k = CountIn(B, x) + 1)
    BY <1>1
  <2>2. z \in Table!Copies(C) <=> \E a, k : z = <<a, k>> /\ k \in 1 .. CountIn(C, a)
    BY CopyOf
  <2>3. z \in Table!Copies(B) <=> \E a, k : z = <<a, k>> /\ k \in 1 .. CountIn(B, a)
    BY CopyOf
  <2> QED
    BY ONLY <1>2, <2>1, <2>2, <2>3
<1>4. Table!Copies(C) = Table!Copies(B) \cup {new}
  BY <1>3
<1>5. new \notin Table!Copies(B)
  <2>1. \A a, k : new = <<a, k>> => a = x /\ k = CountIn(B, x) + 1
    BY <1>2
  <2>2. CountIn(B, x) + 1 \notin 1 .. CountIn(B, x)
    BY <1>1
  <2> QED
    BY <2>1, <2>2, CopyOf
<1>6. IsFiniteSet(Table!Copies(C)) => IsFiniteSet(Table!Copies(B))
  <2>1. Table!Copies(B) \in SUBSET Table!Copies(C)
    BY <1>4
  <2> QED
    BY <2>1, FS_Subset
<1> QED
  BY <1>4, <1>5, <1>6, FS_AddElement

-----------------------------------------------------------------------------

(***************************************************************************)
(* The array as a bag.                                                     *)
(***************************************************************************)

\* The alarm in slot s of A, the slots among the first n that hold alarm a, and
\* the bag of the alarms in the first n slots.
KindIn(A, s) == <<A[s].time, A[s].entered>>
SlotsOf(A, n, a) == {s \in 0 .. n - 1 : KindIn(A, s) = a}
BagOf(A, n) == [a \in {KindIn(A, s) : s \in 0 .. n - 1} |-> Cardinality(SlotsOf(A, n, a))]

\* Stored is the bag of the used slots.
LEMMA StoredIs ==
  Stored = BagOf(alarms, numAlarms) /\ Stored' = BagOf(alarms', numAlarms')
  BY DEF Stored, BagOf, KindIn, SlotsOf, Used

\* Finitely many slots hold an alarm.
LEMMA SlotsFinite ==
  ASSUME NEW A, NEW n \in Nat, NEW a
  PROVE  IsFiniteSet(SlotsOf(A, n, a)) /\ Cardinality(SlotsOf(A, n, a)) \in Nat
PROOF
<1>1. IsFiniteSet(0 .. n - 1)
  BY FS_Interval
<1>2. SlotsOf(A, n, a) \in SUBSET (0 .. n - 1)
  BY DEF SlotsOf
<1> QED
  BY <1>1, <1>2, FS_Subset, FS_CardinalityType

\* The count of an alarm is the number of its slots.
LEMMA BagOfCounts ==
  ASSUME NEW A, NEW n \in Nat
  PROVE  /\ IsBag(BagOf(A, n))
         /\ \A a : CountIn(BagOf(A, n), a) = Cardinality(SlotsOf(A, n, a))
         /\ \A s \in 0 .. n - 1 : KindIn(A, s) \in DOMAIN BagOf(A, n)
         /\ \A a \in DOMAIN BagOf(A, n) : \E s \in 0 .. n - 1 : a = KindIn(A, s)
PROOF
<1> DEFINE K == {KindIn(A, s) : s \in 0 .. n - 1}
<1>1. \A a : a \in K <=> SlotsOf(A, n, a) # {}
  BY DEF SlotsOf
<1>2. \A a : a \in K <=> Cardinality(SlotsOf(A, n, a)) # 0
  BY <1>1, SlotsFinite, FS_EmptySet
<1>3. \A a \in K : Cardinality(SlotsOf(A, n, a)) \in Nat \ {0}
  BY <1>2, SlotsFinite
<1>4. DOMAIN BagOf(A, n) = K /\ \A a \in K : BagOf(A, n)[a] = Cardinality(SlotsOf(A, n, a))
  BY DEF BagOf
<1>5. BagOf(A, n) \in [K -> Nat \ {0}]
  BY <1>3 DEF BagOf
<1>6. IsBag(BagOf(A, n))
  BY <1>4, <1>5 DEF IsBag
<1>7. ASSUME NEW a PROVE CountIn(BagOf(A, n), a) = Cardinality(SlotsOf(A, n, a))
  <2>1. CASE a \in K
    BY <1>4, <2>1 DEF CountIn
  <2>2. CASE a \notin K
    BY <1>2, <1>4, <2>2 DEF CountIn
  <2> QED
    BY <2>1, <2>2
<1> QED
  BY <1>4, <1>6, <1>7

\* A slot more, behind the others.
LEMMA AddCounts ==
  ASSUME NEW A, NEW B, NEW n \in Nat, \A s \in 0 .. n - 1 : B[s] = A[s], NEW a
  PROVE  Cardinality(SlotsOf(B, n + 1, a)) =
           IF a = KindIn(B, n) THEN Cardinality(SlotsOf(A, n, a)) + 1
           ELSE Cardinality(SlotsOf(A, n, a))
PROOF
<1>1. \A s \in 0 .. n - 1 : KindIn(B, s) = KindIn(A, s)
  BY DEF KindIn
<1>2. 0 .. (n + 1) - 1 = (0 .. n - 1) \cup {n} /\ n \notin 0 .. n - 1
  OBVIOUS
<1>3. CASE a = KindIn(B, n)
  <2>1. SlotsOf(B, n + 1, a) = SlotsOf(A, n, a) \cup {n} /\ n \notin SlotsOf(A, n, a)
    BY <1>1, <1>2, <1>3 DEF SlotsOf
  <2> QED
    BY <1>3, <2>1, SlotsFinite, FS_AddElement
<1>4. CASE a # KindIn(B, n)
  <2>1. SlotsOf(B, n + 1, a) = SlotsOf(A, n, a)
    BY <1>1, <1>2, <1>4 DEF SlotsOf
  <2> QED
    BY <1>4, <2>1
<1> QED
  BY <1>3, <1>4

\* The last alarm in the place of the one that is removed: no other alarm is
\* lost or doubled, whether or not the two are equal or the same.
LEMMA RemoveCounts ==
  ASSUME NEW A, NEW B, NEW n \in Nat \ {0}, NEW index \in 0 .. n - 1,
         \A s \in 0 .. n - 2 : B[s] = IF s = index THEN A[n - 1] ELSE A[s], NEW a
  PROVE  Cardinality(SlotsOf(B, n - 1, a)) =
           IF a = KindIn(A, index) THEN Cardinality(SlotsOf(A, n, a)) - 1
           ELSE Cardinality(SlotsOf(A, n, a))
PROOF
<1> PICK l, S, T : l = n - 1 /\ S = SlotsOf(A, n, a) /\ T = SlotsOf(B, n - 1, a)
  OBVIOUS
<1>0. l \in Nat /\ 0 .. n - 1 = (0 .. l - 1) \cup {l} /\ l \notin 0 .. l - 1 /\ n - 2 = l - 1
      /\ index \in (0 .. l - 1) \cup {l}
  OBVIOUS
<1>1. \A s \in 0 .. l - 1 : KindIn(B, s) = IF s = index THEN KindIn(A, l) ELSE KindIn(A, s)
  BY <1>0 DEF KindIn
<1>2. IsFiniteSet(S) /\ Cardinality(S) \in Nat
  BY SlotsFinite
<1>3. /\ \A s : s \in S <=> s \in (0 .. l - 1) \cup {l} /\ KindIn(A, s) = a
      /\ \A s : s \in T <=> s \in 0 .. l - 1 /\ KindIn(B, s) = a
  BY <1>0 DEF SlotsOf
<1>4. CASE a = KindIn(A, l) /\ a = KindIn(A, index)
  <2>1. T = S \ {l} /\ l \in S
    BY <1>0, <1>1, <1>3, <1>4
  <2> QED
    BY <1>2, <1>4, <2>1, FS_RemoveElement
<1>5. CASE a = KindIn(A, l) /\ a # KindIn(A, index)
  <2>1. T = (S \ {l}) \cup {index} /\ l \in S /\ index \notin S \ {l}
    BY <1>0, <1>1, <1>3, <1>5
  <2>2. PICK U : U = S \ {l}
    OBVIOUS
  <2>3. IsFiniteSet(U) /\ Cardinality(U) = Cardinality(S) - 1
    BY ONLY <1>2, <2>1, <2>2, FS_RemoveElement
  <2>4. T = U \cup {index} /\ index \notin U
    BY ONLY <2>1, <2>2
  <2>5. Cardinality(U \cup {index}) = Cardinality(U) + 1
    BY ONLY <2>3, <2>4, FS_AddElement
  <2>6. Cardinality(T) = Cardinality(S)
    BY ONLY <1>2, <2>3, <2>4, <2>5
  <2> QED
    BY <1>5, <2>6
<1>6. CASE a # KindIn(A, l) /\ a = KindIn(A, index)
  <2>1. T = S \ {index} /\ index \in S
    BY <1>0, <1>1, <1>3, <1>6
  <2> QED
    BY <1>2, <1>6, <2>1, FS_RemoveElement
<1>7. CASE a # KindIn(A, l) /\ a # KindIn(A, index)
  <2>1. T = S
    BY <1>0, <1>1, <1>3, <1>7
  <2> QED
    BY <1>7, <2>1
<1> QED
  BY <1>4, <1>5, <1>6, <1>7

\* The bag has as many copies as there are used slots.
SizeInv ==
  /\ IsFiniteSet(Table!Copies(Stored))
  /\ Cardinality(Table!Copies(Stored)) = numAlarms

\* createAlarm adds one alarm to the bag.
LEMMA StoredAdded ==
  ASSUME SlotsInv, SizeInv, NEW time, NEW m, Adds(time, m)
  PROVE  Stored' = Table!BagAdd(Stored, <<time, m>>) /\ SizeInv'
PROOF
<1> PICK A, B, n, P, Q, x :
      /\ A = alarms /\ B = alarms' /\ n = numAlarms /\ P = Stored /\ Q = Stored'
      /\ x = <<time, m>>
  OBVIOUS
<1>1. /\ n \in Nat /\ numAlarms' = n + 1 /\ \A s \in 0 .. n - 1 : B[s] = A[s]
      /\ KindIn(B, n) = x
  <2>1. /\ numAlarms' = numAlarms + 1 /\ \A s \in Used : alarms'[s] = alarms[s]
        /\ alarms'[numAlarms].time = time /\ alarms'[numAlarms].entered = m
    BY AlarmAdded DEF Adds
  <2> QED
    BY <2>1, SlotNumbers DEF Used, KindIn
<1>2. P = BagOf(A, n) /\ Q = BagOf(B, n + 1) /\ n + 1 \in Nat
  BY <1>1, StoredIs
<1>3. IsBag(P) /\ IsBag(Q)
  BY <1>1, <1>2, BagOfCounts
<1>4. \A a : CountIn(Q, a) = IF a = x THEN CountIn(P, a) + 1 ELSE CountIn(P, a)
  <2> SUFFICES ASSUME NEW a
               PROVE  CountIn(Q, a) = IF a = x THEN CountIn(P, a) + 1 ELSE CountIn(P, a)
    OBVIOUS
  <2>1. /\ CountIn(P, a) = Cardinality(SlotsOf(A, n, a))
        /\ CountIn(Q, a) = Cardinality(SlotsOf(B, n + 1, a))
    BY <1>1, <1>2, BagOfCounts
  <2>2. Cardinality(SlotsOf(B, n + 1, a)) =
          IF a = x THEN Cardinality(SlotsOf(A, n, a)) + 1 ELSE Cardinality(SlotsOf(A, n, a))
    <3>1. Cardinality(SlotsOf(B, n + 1, a)) =
            IF a = KindIn(B, n) THEN Cardinality(SlotsOf(A, n, a)) + 1
            ELSE Cardinality(SlotsOf(A, n, a))
      BY ONLY <1>1, AddCounts
    <3> QED
      BY ONLY <1>1, <3>1
  <2> QED
    BY ONLY <2>1, <2>2
<1>5. Q = Table!BagAdd(P, x)
  BY ONLY <1>3, <1>4, OneMore
<1>6. IsFiniteSet(Table!Copies(P)) /\ Cardinality(Table!Copies(P)) = n
  BY DEF SizeInv
<1>7. IsFiniteSet(Table!Copies(Q)) /\ Cardinality(Table!Copies(Q)) = n + 1
  BY ONLY <1>3, <1>4, <1>6, CopiesMore
<1> QED
  BY <1>1, <1>5, <1>7 DEF SizeInv

\* removeAlarm takes the alarm of its slot out of the bag.
LEMMA StoredRemoved ==
  ASSUME SlotsInv, SizeInv, NEW index, Removes(index)
  PROVE  /\ KindIn(alarms, index) \in DOMAIN Stored
         /\ Stored' = Table!BagRemove(Stored, KindIn(alarms, index))
         /\ SizeInv'
PROOF
<1> PICK A, B, n, P, Q, x :
      /\ A = alarms /\ B = alarms' /\ n = numAlarms /\ P = Stored /\ Q = Stored'
      /\ x = KindIn(alarms, index)
  OBVIOUS
<1>1. /\ n \in Nat \ {0} /\ numAlarms' = n - 1 /\ n - 1 \in Nat /\ index \in 0 .. n - 1
      /\ \A s \in 0 .. n - 2 : B[s] = IF s = index THEN A[n - 1] ELSE A[s]
  <2>1. /\ index \in Used /\ numAlarms' = numAlarms - 1
        /\ \A s \in Used' : alarms'[s] = IF s = index THEN alarms[numAlarms - 1] ELSE alarms[s]
    BY AlarmRemoved DEF Removes
  <2>2. n \in Nat
    BY SlotNumbers
  <2>3. index \in 0 .. n - 1 /\ n \in Nat \ {0} /\ n - 1 \in Nat /\ (n - 1) - 1 = n - 2
    BY <2>1, <2>2 DEF Used
  <2>4. Used' = 0 .. n - 2
    BY <2>1, <2>3 DEF Used
  <2> QED
    BY <2>1, <2>3, <2>4
<1>2. P = BagOf(A, n) /\ Q = BagOf(B, n - 1) /\ n \in Nat
  BY <1>1, StoredIs
<1>3. IsBag(P) /\ IsBag(Q) /\ x \in DOMAIN P
  BY <1>1, <1>2, BagOfCounts
<1>4. \A a : CountIn(Q, a) = IF a = x THEN CountIn(P, a) - 1 ELSE CountIn(P, a)
  <2> SUFFICES ASSUME NEW a
               PROVE  CountIn(Q, a) = IF a = x THEN CountIn(P, a) - 1 ELSE CountIn(P, a)
    OBVIOUS
  <2>1. /\ CountIn(P, a) = Cardinality(SlotsOf(A, n, a))
        /\ CountIn(Q, a) = Cardinality(SlotsOf(B, n - 1, a))
    BY <1>1, <1>2, BagOfCounts
  <2>2. Cardinality(SlotsOf(B, n - 1, a)) =
          IF a = x THEN Cardinality(SlotsOf(A, n, a)) - 1 ELSE Cardinality(SlotsOf(A, n, a))
    BY <1>1, RemoveCounts
  <2> QED
    BY ONLY <2>1, <2>2
<1>5. Q = Table!BagRemove(P, x)
  BY ONLY <1>3, <1>4, OneLess
<1>6. IsFiniteSet(Table!Copies(P)) /\ Cardinality(Table!Copies(P)) = n
  BY DEF SizeInv
<1>7. \A a : CountIn(P, a) = IF a = x THEN CountIn(Q, a) + 1 ELSE CountIn(Q, a)
  <2>1. \A a : CountIn(P, a) \in Nat
    BY <1>3 DEF IsBag, CountIn
  <2> QED
    BY ONLY <1>4, <2>1
<1>8. /\ IsFiniteSet(Table!Copies(Q)) <=> IsFiniteSet(Table!Copies(P))
      /\ IsFiniteSet(Table!Copies(Q)) =>
           Cardinality(Table!Copies(P)) = Cardinality(Table!Copies(Q)) + 1
  BY ONLY <1>3, <1>7, CopiesMore
<1>9. IsFiniteSet(Table!Copies(Q)) /\ Cardinality(Table!Copies(Q)) = n - 1
  <2>1. Cardinality(Table!Copies(Q)) \in Nat
    BY <1>6, <1>8, FS_CardinalityType
  <2> QED
    BY <1>1, <1>6, <1>8, <2>1
<1> QED
  BY <1>1, <1>3, <1>5, <1>9 DEF SizeInv

\* The empty array is the empty bag.
LEMMA StoredInit == Init => Table!Init /\ SizeInv
PROOF
<1> SUFFICES ASSUME Init PROVE Table!Init /\ SizeInv
  OBVIOUS
<1>1. numAlarms = 0 /\ answer = <<"none">>
  BY DEF Init
<1>2. {KindIn(alarms, s) : s \in 0 .. numAlarms - 1} = {}
  BY <1>1
<1>3. Stored = << >> /\ DOMAIN Stored = {}
  BY <1>2, StoredIs DEF BagOf
<1>4. Table!Copies(Stored) = {}
  BY <1>3 DEF Table!Copies
<1>5. SizeInv
  BY <1>1, <1>4, FS_EmptySet DEF SizeInv
<1> QED
  BY <1>1, <1>3, <1>5 DEF Table!Init

\* Every step of the array is a step of the bag, or leaves it as it is.
LEMMA StoredNext ==
  ASSUME SlotsInv, SizeInv, [Next]_vars
  PROVE  SizeInv' /\ [Table!Next]_<<Stored, answer>>
PROOF
<1>0. Table!Size = numAlarms
  BY DEF SizeInv, Table!Size, Table!Cardinality, Cardinality
<1>1. ASSUME NEW t \in Times, NEW m \in Messages, Adds(t, m), answer' = <<"set", t>>
      PROVE  SizeInv' /\ Table!Next
  <2>1. Stored' = Table!BagAdd(Stored, <<t, m>>) /\ SizeInv'
    BY <1>1, StoredAdded
  <2>2. Table!Set(t, m)
    BY <1>0, <1>1, <2>1 DEF Table!Set, Adds
  <2> QED
    BY <2>1, <2>2 DEF Table!Next
<1>2. ASSUME Keeps PROVE SizeInv' /\ Stored' = Stored
  <2>1. Stored' = Stored /\ numAlarms' = numAlarms
    BY <1>2, StoredIs DEF Keeps
  <2> QED
    BY <2>1 DEF SizeInv
<1>3. ASSUME NEW t \in Times, Keeps, numAlarms = MAX_ALARMS, answer' = <<"full", t>>
      PROVE  SizeInv' /\ Table!Next
  <2>1. Table!Full(t)
    BY <1>0, <1>2, <1>3 DEF Table!Full
  <2> QED
    BY <1>2, <1>3, <2>1 DEF Table!Next
<1>4. ASSUME NEW s \in Used, Removes(s)
      PROVE  /\ SizeInv' /\ KindIn(alarms, s) \in DOMAIN Stored
             /\ Stored' = Table!BagRemove(Stored, KindIn(alarms, s))
  BY <1>4, StoredRemoved
<1>5. ASSUME NEW t \in Times, NEW s \in Used, alarms[s].time = t, Removes(s),
             answer' = <<"removed", t>>
      PROVE  SizeInv' /\ Table!Next
  <2>1. KindIn(alarms, s) \in Table!At(t)
    BY <1>4, <1>5 DEF Table!At, KindIn
  <2>2. Table!Remove(t)
    BY <1>4, <1>5, <2>1 DEF Table!Remove
  <2> QED
    BY <1>4, <1>5, <2>2 DEF Table!Next
<1>6. ASSUME NEW t \in Times, Keeps, \A s \in Used : alarms[s].time # t,
             answer' = <<"not found", t>>
      PROVE  SizeInv' /\ Table!Next
  <2>1. \A a \in DOMAIN Stored : \E s \in Used : a = KindIn(alarms, s)
    <3>1. numAlarms \in Nat
      BY SlotNumbers
    <3> QED
      BY <3>1, StoredIs, BagOfCounts DEF Used
  <2>2. \A s \in Used : KindIn(alarms, s)[1] = alarms[s].time
    BY DEF KindIn
  <2>3. Table!At(t) = {}
    BY <1>6, <2>1, <2>2 DEF Table!At
  <2>4. Table!NotFound(t)
    BY <1>2, <1>6, <2>3 DEF Table!NotFound
  <2> QED
    BY <1>2, <1>6, <2>4 DEF Table!Next
<1>7. ASSUME Keeps, answer' = answer PROVE SizeInv' /\ UNCHANGED <<Stored, answer>>
  BY <1>2, <1>7
<1> QED
  BY StepOutcome, <1>1, <1>3, <1>5, <1>6, <1>7

\* For any number of slots, times and messages: moving the last alarm into the
\* place of a removed one loses none and doubles none, "remove alarm" takes out one
\* alarm of the time it was given and nothing else does, and the answers are true of
\* the table.
THEOREM ImplementsTable == Spec => Implements
<1>1. Init => SlotsInv /\ SizeInv /\ Table!Init
  BY SlotsInit, StoredInit
<1>2. SlotsInv /\ SizeInv /\ [Next]_vars
        => (SlotsInv /\ SizeInv)' /\ [Table!Next]_<<Stored, answer>>
  BY SlotsNext, StoredNext
<1> QED
  BY <1>1, <1>2, PTL DEF Spec, Implements, Table!Spec

=============================================================================
