----------------------------- MODULE SerialPoll -----------------------------
(***************************************************************************)
(* kernel/serial.c, serial_poll: a line is edited in the caller's buffer   *)
(* while bytes arrive at the UART, and the lines entered are remembered in *)
(* a doubly linked list.  A buffer is the place on a stack where a caller  *)
(* has its array; what lies behind the array belongs to somebody else.     *)
(***************************************************************************)
EXTENDS Integers, SequencesExt, LinkedLists

CONSTANTS Char,      \* printable characters, space included
          Keys,      \* the keys the user presses, Char and names as below
          Ahead,     \* bound: bytes that have not been read
          Buffer,    \* the callers' buffers
          Size,      \* what a caller passes as len: Buffer -> Nat
          Extent,    \* how far the model looks behind the start of a buffer
          Zeroed,    \* buffers that are declared with = {0}
          BUFFER_LIST_MAX,
          Undefined, \* an int that was never assigned
          Uninit,    \* what it can hold when it is used
          Terminals  \* of "prompt": the bytes of a key arrive at once, and no line
                     \* begins with an arrow key; "slow": they may arrive apart

Arrows == {"up", "down", "left", "right"}
Others == {"delete", "enter", "backspace"}

ASSUME SerialPollAssumption ==
  /\ NULL \notin Nat
  /\ Char \cap ({"ESC", "CR", "DEL"} \cup Arrows \cup Others) = {}
  /\ Keys \subseteq Char \cup Arrows \cup Others
  /\ Size \in [Buffer -> Nat \ {0, 1}]
  /\ Extent \in Nat /\ \A b \in Buffer : Size[b] <= Extent
  /\ Zeroed \subseteq Buffer
  /\ BUFFER_LIST_MAX \in Nat \ {0, 1}
  /\ Undefined \notin Int /\ Uninit \subseteq Int
  /\ Terminals \subseteq {"prompt", "slow"}

NUL == "NUL"
Junk == "junk"          \* whatever the stack held

VARIABLES mem,    \* the buffers' contents: Buffer -> [0..Extent-1 -> characters]
          dest,   \* the buffer the caller passed
          ed,     \* serial_poll's locals
          pc,     \* "caller", "poll", inside an escape sequence, or "stop"
          fifo,   \* bytes the UART holds, <<key, place in its sequence>>
          wire,   \* bytes on their way
          terminal,  \* one of Terminals
          node, bufferHead, bufferTail, bufferListLength,  \* the history
          entered \* what the last calls returned, the newest first

history == <<node, bufferHead, bufferTail, bufferListLength, entered>>
vars == <<mem, dest, ed, pc, fifo, wire, terminal, node, bufferHead, bufferTail,
          bufferListLength, entered>>

-----------------------------------------------------------------------------

(***************************************************************************)
(* The terminal and the UART (external).                                   *)
(***************************************************************************)

\* The bytes a terminal sends for a key.
Bytes(k) ==
  CASE k = "up" -> <<"ESC", "[", "A">>
    [] k = "down" -> <<"ESC", "[", "B">>
    [] k = "right" -> <<"ESC", "[", "C">>
    [] k = "left" -> <<"ESC", "[", "D">>
    [] k = "delete" -> <<"ESC", "[", "3", "~">>
    [] k = "enter" -> <<"CR">>
    [] k = "backspace" -> <<"DEL">>
    [] OTHER -> <<k>>

Sent(k) == [i \in DOMAIN Bytes(k) |-> <<k, i>>]

\* At the prompt, an arrow key is pressed in a line with an edit before it.
Press(k) ==
  /\ Len(fifo) + Len(wire) < Ahead
  /\ k \in Arrows /\ terminal = "prompt" =>
       pc = "poll" /\ fifo \o wire = << >> /\ ed.tempIndex # Undefined
  /\ IF terminal = "slow" THEN wire' = wire \o Sent(k) /\ UNCHANGED fifo
     ELSE fifo' = fifo \o Sent(k) /\ UNCHANGED wire
  /\ UNCHANGED <<mem, dest, ed, pc, terminal, history>>

Arrive ==
  /\ wire # << >>
  /\ fifo' = Append(fifo, Head(wire))
  /\ wire' = Tail(wire)
  /\ UNCHANGED <<mem, dest, ed, pc, terminal, history>>

\* The receive buffer reads as 0 when nothing has arrived.
inb == IF fifo = << >> THEN NUL ELSE Bytes(Head(fifo)[1])[Head(fifo)[2]]
Read == fifo' = (IF fifo = << >> THEN fifo ELSE Tail(fifo)) /\ UNCHANGED wire

-----------------------------------------------------------------------------

(***************************************************************************)
(* The callers.                                                            *)
(***************************************************************************)

Fresh(b) == [buffer |-> b, bufferCount |-> 0, index |-> 0,
             tempIndex |-> Undefined, currBuffer |-> NULL]

Init ==
  /\ mem = [b \in Buffer |-> [i \in 0..(Extent - 1) |-> Junk]]
  /\ dest \in Buffer
  /\ ed = Fresh(dest)
  /\ pc = "caller" /\ fifo = << >> /\ wire = << >> /\ terminal \in Terminals
  /\ node = << >> /\ bufferHead = NULL /\ bufferTail = NULL
  /\ bufferListLength = 0 /\ entered = << >>

\* sys_req(READ, COM1, b, sizeof(b)).
Call(b) ==
  /\ pc = "caller"
  /\ dest' = b /\ ed' = Fresh(b) /\ pc' = "poll"
  /\ mem' = IF b \notin Zeroed THEN mem
            ELSE [mem EXCEPT ![b] = [i \in DOMAIN @ |-> IF i < Size[b] THEN NUL ELSE @[i]]]
  /\ UNCHANGED <<fifo, wire, terminal, history>>

-----------------------------------------------------------------------------

(***************************************************************************)
(* One key.                                                                *)
(***************************************************************************)

\* The end of the loop's body: the line is drawn, and the cursor restored
\* from tempIndex.  The loop ends when the buffer is full.
Redraw(e) ==
  /\ \E i \in IF e.tempIndex = Undefined THEN Uninit ELSE {e.tempIndex} :
       ed' = [e EXCEPT !.index = i, !.tempIndex = i]
  /\ pc' = IF e.bufferCount < Size[dest] - 1 THEN "poll" ELSE "stop"
  /\ UNCHANGED <<dest, terminal, history>>

\* Mutant: the cursor stays in front of the character that was entered.
insert_behind(c) ==
  LET n == ed.bufferCount + 1
  IN  /\ mem' = [mem EXCEPT ![ed.buffer] = [j \in DOMAIN @ |->
                   IF j = ed.index THEN c
                   ELSE IF ed.index < j /\ j < n THEN @[j - 1] ELSE @[j]]]
      /\ Redraw([ed EXCEPT !.bufferCount = n, !.tempIndex = ed.index])

\* A character: the rest of the line moves to the right.
insert(c) ==
  LET n == ed.bufferCount + 1
  IN  /\ mem' = [mem EXCEPT ![ed.buffer] = [j \in DOMAIN @ |->
                   IF j = ed.index THEN c
                   ELSE IF ed.index < j /\ j < n THEN @[j - 1] ELSE @[j]]]
      /\ Redraw([ed EXCEPT !.bufferCount = n, !.tempIndex = ed.index + 1])

\* Mutant: the character behind the end is not cleared.
remove_not_cleared(i) ==
  LET n == ed.bufferCount
  IN  /\ mem' = [mem EXCEPT ![ed.buffer] = [j \in DOMAIN @ |->
                   IF i <= j /\ j < n - 1 THEN @[j + 1] ELSE @[j]]]
      /\ Redraw([ed EXCEPT !.bufferCount = n - 1, !.tempIndex = i])

\* The characters behind place i move to the left.
remove(i) ==
  LET n == ed.bufferCount
  IN  /\ mem' = [mem EXCEPT ![ed.buffer] = [j \in DOMAIN @ |->
                   IF i <= j /\ j < n THEN @[j + 1]
                   ELSE IF j = n THEN NUL ELSE @[j]]]
      /\ Redraw([ed EXCEPT !.bufferCount = n - 1, !.tempIndex = i])

\* Mutant: backspace at the start of the line.
backspace_unchecked == remove(ed.index - 1)

backspace ==
  IF ed.index > 0 THEN remove(ed.index - 1)
  ELSE Redraw([ed EXCEPT !.tempIndex = 0]) /\ UNCHANGED mem

\* Mutant: delete takes the character in front of the cursor.
delete_front == backspace

delete ==
  IF ed.index < ed.bufferCount THEN remove(ed.index)
  ELSE Redraw([ed EXCEPT !.tempIndex = ed.index]) /\ UNCHANGED mem

\* Mutant: the cursor stays where it was.
Recall_cursor_kept(n) ==
  /\ Redraw([ed EXCEPT !.buffer = node[n].bufferText,
                       !.bufferCount = node[n].bufferSize,
                       !.currBuffer = n])
  /\ UNCHANGED mem

\* The line becomes the one that history node n remembers.
Recall(n) ==
  /\ Redraw([ed EXCEPT !.buffer = node[n].bufferText,
                       !.bufferCount = node[n].bufferSize,
                       !.tempIndex = node[n].bufferSize,
                       !.currBuffer = n])
  /\ UNCHANGED mem

Ignored == Redraw(ed) /\ UNCHANGED mem

up ==
  LET older == IF ed.currBuffer = NULL THEN bufferHead ELSE node[ed.currBuffer].nextBuffer
  IN  IF older = NULL THEN Ignored ELSE Recall(older)

\* Behind the newest line there is an empty one; buffer stays where it was.
down ==
  LET newer == node[ed.currBuffer].prevBuffer
  IN  IF ed.currBuffer = NULL THEN Ignored
      ELSE IF newer # NULL THEN Recall(newer)
      ELSE /\ mem' = [mem EXCEPT ![ed.buffer] = [j \in DOMAIN @ |->
                        IF j < ed.bufferCount THEN NUL ELSE @[j]]]
           /\ Redraw([ed EXCEPT !.currBuffer = NULL, !.tempIndex = 0, !.bufferCount = 0])

\* Mutant: the cursor may move behind the end.
right_unchecked == Redraw([ed EXCEPT !.tempIndex = ed.index + 1]) /\ UNCHANGED mem

right ==
  IF ed.index = ed.bufferCount THEN Ignored
  ELSE Redraw([ed EXCEPT !.tempIndex = @ + 1]) /\ UNCHANGED mem

left ==
  IF ed.index = 0 THEN Ignored
  ELSE Redraw([ed EXCEPT !.tempIndex = @ - 1]) /\ UNCHANGED mem

\* Within an escape sequence the line status is not asked for.
Within(place) ==
  /\ pc' = place
  /\ UNCHANGED <<mem, dest, ed, terminal, history>>

\* Mutant: carriage return does not set stop.
PollByte_no_stop ==
  /\ pc = "poll" /\ fifo # << >>
  /\ Read
  /\ CASE inb = "CR" -> Within("poll")
       [] inb = "DEL" -> backspace
       [] inb = "ESC" -> Within("esc")
       [] OTHER -> insert(inb)

\* The first byte of a key, when the line status says there is one.
PollByte ==
  /\ pc = "poll" /\ fifo # << >>
  /\ Read
  /\ CASE inb = "CR" -> Within("stop")
       [] inb = "DEL" -> backspace
       [] inb = "ESC" -> Within("esc")
       [] OTHER -> insert(inb)

EscByte ==
  /\ pc = "esc"
  /\ Read
  /\ IF inb = "[" THEN Within("bracket") ELSE Ignored

BracketByte ==
  /\ pc = "bracket"
  /\ Read
  /\ CASE inb = "3" -> Within("three")
       [] inb = "A" -> up
       [] inb = "B" -> down
       [] inb = "C" -> right
       [] inb = "D" -> left
       [] OTHER -> Ignored

ThreeByte ==
  /\ pc = "three"
  /\ Read
  /\ IF inb = "~" THEN delete ELSE Ignored

-----------------------------------------------------------------------------

(***************************************************************************)
(* The end of the line: it is added to the history.                        *)
(***************************************************************************)

\* A node sys_alloc_mem returns (module ProcessHeap has the full heap).
sys_alloc_mem == CHOOSE n \in 1..(BUFFER_LIST_MAX + 1) : n \notin DOMAIN node

\* The nodes with the new one.
With(new) == [n \in DOMAIN node \cup {sys_alloc_mem} |->
                IF n = sys_alloc_mem THEN new ELSE node[n]]

\* Mutant: the new tail still points to the node that was freed.
add_node_tail_kept(new) ==
  IF bufferListLength = BUFFER_LIST_MAX
  THEN /\ bufferTail' = node[bufferTail].prevBuffer
       /\ node' = [n \in DOMAIN With(new) \ {bufferTail} |->
                     [With(new) EXCEPT ![bufferHead].prevBuffer = sys_alloc_mem][n]]
       /\ UNCHANGED bufferListLength
  ELSE /\ bufferTail' = IF bufferListLength = 0 THEN sys_alloc_mem ELSE bufferTail
       /\ node' = IF bufferListLength = 0 THEN With(new)
                  ELSE [With(new) EXCEPT ![bufferHead].prevBuffer = sys_alloc_mem]
       /\ bufferListLength' = bufferListLength + 1

\* The list is full, empty, or neither.
add_node(new) ==
  IF bufferListLength = BUFFER_LIST_MAX
  THEN /\ bufferTail' = node[bufferTail].prevBuffer
       /\ node' = [n \in DOMAIN With(new) \ {bufferTail} |->
                     [With(new) EXCEPT ![node[bufferTail].prevBuffer].nextBuffer = NULL,
                                       ![bufferHead].prevBuffer = sys_alloc_mem][n]]
       /\ UNCHANGED bufferListLength
  ELSE /\ bufferTail' = IF bufferListLength = 0 THEN sys_alloc_mem ELSE bufferTail
       /\ node' = IF bufferListLength = 0 THEN With(new)
                  ELSE [With(new) EXCEPT ![bufferHead].prevBuffer = sys_alloc_mem]
       /\ bufferListLength' = bufferListLength + 1

\* The caller gets bufferCount.
Return ==
  /\ pc = "stop"
  /\ add_node([bufferText |-> ed.buffer, bufferSize |-> ed.bufferCount,
               nextBuffer |-> bufferHead, prevBuffer |-> NULL])
  /\ bufferHead' = sys_alloc_mem
  /\ entered' = SubSeq(<<ed.bufferCount>> \o entered, 1, Min({BUFFER_LIST_MAX, Len(entered) + 1}))
  /\ pc' = "caller"
  /\ UNCHANGED <<mem, dest, ed, fifo, wire, terminal>>

-----------------------------------------------------------------------------

Poll == PollByte \/ EscByte \/ BracketByte \/ ThreeByte

Next ==
  \/ \E k \in Keys : Press(k)
  \/ Arrive
  \/ \E b \in Buffer : Call(b)
  \/ PollByte \/ EscByte \/ BracketByte \/ ThreeByte
  \/ Return

Spec == Init /\ [][Next]_vars

\* The loop goes round as long as nothing stops it, bytes that were sent
\* arrive, and callers ask for another line some time.
FairSpec ==
  /\ Spec
  /\ WF_vars(Poll) /\ WF_vars(Return) /\ WF_vars(Arrive)
  /\ WF_vars(\E b \in Buffer : Call(b))

-----------------------------------------------------------------------------

NextBuffer == [n \in 1..(BUFFER_LIST_MAX + 1) \cup {NULL} |->
                 IF n \in DOMAIN node THEN node[n].nextBuffer ELSE NULL]
Remembered == Chain(NextBuffer, bufferHead)

\* The history is a list without a loop, of at most BUFFER_LIST_MAX nodes,
\* exactly those that are allocated; prev is next reversed, and it ends at the
\* tail: taking the oldest node off leaves no pointer to it.  It has the lengths
\* that the last calls returned, and a line that was recalled is still in it.
HistoryWellFormed ==
  /\ Len(Remembered) = bufferListLength
  /\ Range(Remembered) = DOMAIN node
  /\ bufferListLength <= BUFFER_LIST_MAX
  /\ bufferListLength > 0 => bufferTail = Last(Remembered)
  /\ \A i \in DOMAIN Remembered :
       node[Remembered[i]].prevBuffer = IF i = 1 THEN NULL ELSE Remembered[i - 1]
  /\ [i \in DOMAIN Remembered |-> node[Remembered[i]].bufferSize] = entered
  /\ pc # "caller" => ed.currBuffer \in DOMAIN node \cup {NULL}

\* The cursor is in the line: also after recalling another line, and after
\* the keys at its two ends.  An arrow as the first key moves it anywhere.
CursorInLine == terminal = "prompt" => 0 <= ed.index /\ ed.index <= ed.bufferCount

\* A line that is handed to the caller ends with a NUL in the buffer.
LineTerminated == pc = "caller" /\ bufferListLength > 0 => mem[ed.buffer][ed.bufferCount] = NUL

\* An enter that was pressed ends a line.
EnterReturns ==
  (pc = "poll" /\ \E i \in DOMAIN fifo : fifo[i][1] = "enter") ~> pc = "caller"

Stored(n) == [i \in 1..node[n].bufferSize |-> mem[node[n].bufferText][i - 1]]

\* The history stores the lines that were entered: while a node is in the list
\* its text stays as it is.
HistoryText == [][\A n \in DOMAIN node \cap DOMAIN node' : Stored(n)' = Stored(n)]_vars

=============================================================================
