---------------------------- MODULE SerialProofs ----------------------------
(***************************************************************************)
(* serial_poll, for any buffers, keys and length of the history: the list  *)
(* of lines stays sound, the cursor stays in the line, and with the keys   *)
(* that edit it implements the line editor.                                *)
(***************************************************************************)
EXTENDS SerialEdit, LinkedListProofs

-----------------------------------------------------------------------------

(***************************************************************************)
(* The history.                                                            *)
(***************************************************************************)

Node == 1..(BUFFER_LIST_MAX + 1)
NodeType == [bufferText : Buffer, bufferSize : Int,
             nextBuffer : Node \cup {NULL}, prevBuffer : Node \cup {NULL}]

\* The nodes that are allocated are those of s, linked in that order, and they
\* have the lengths of the lines entered.
Remembers(s) ==
  /\ s \in Seq(Node)
  /\ \A i, j \in 1..Len(s) : s[i] = s[j] => i = j
  /\ \A n : n \in DOMAIN node <=> \E i \in 1..Len(s) : s[i] = n
  /\ Len(s) = bufferListLength /\ Len(s) <= BUFFER_LIST_MAX
  /\ bufferHead = IF Len(s) = 0 THEN NULL ELSE s[1]
  /\ Len(s) > 0 => bufferTail = s[Len(s)]
  /\ \A i \in 1..Len(s) :
       /\ node[s[i]] \in NodeType
       /\ node[s[i]].nextBuffer = IF i < Len(s) THEN s[i + 1] ELSE NULL
       /\ node[s[i]].prevBuffer = IF i > 1 THEN s[i - 1] ELSE NULL
       /\ node[s[i]].bufferSize = entered[i]
  /\ entered \in Seq(Int) /\ Len(entered) = Len(s)

EdType == [buffer : Buffer, bufferCount : Int, index : Int,
           tempIndex : Int \cup {Undefined}, currBuffer : Node \cup {NULL}]

\* The cursor has no value only in a line that is untouched, and a line that was
\* recalled is in the history.
Edits(e) ==
  /\ e \in EdType
  /\ \/ e.tempIndex = e.index
     \/ e.tempIndex = Undefined /\ e.index = 0 /\ e.bufferCount = 0
Recalled(e) == e.currBuffer \in DOMAIN node \cup {NULL}

HistoryInv ==
  /\ \E s : Remembers(s)
  /\ node = [n \in DOMAIN node |-> node[n]]
  /\ Edits(ed) /\ dest \in Buffer
  /\ pc # "caller" => Recalled(ed)

\* What a walk along the history finds.
LEMMA RememberedIs ==
  ASSUME NEW s, Remembers(s)
  PROVE  Remembered = s
<1>1. AreLinks(NextBuffer)
  <2>1. BUFFER_LIST_MAX + 1 \in Nat /\ NULL \notin Node
    BY SerialPollAssumption DEF Node
  <2>2. IsFiniteSet(Node \cup {NULL})
    <3>1. IsFiniteSet(Node)
      BY <2>1, FS_Interval DEF Node
    <3>. QED
      BY <3>1, FS_AddElement
  <2>3. NULL \notin DOMAIN node
    BY <2>1 DEF Remembers
  <2>. QED
    BY <2>2, <2>3 DEF AreLinks, NextBuffer, Node
<1>2. IsListFrom(NextBuffer, bufferHead, s)
  <2>1. NULL \notin Node /\ DOMAIN NextBuffer = Node \cup {NULL}
    BY SerialPollAssumption DEF Node, NextBuffer
  <2>2. s \in Seq(DOMAIN NextBuffer \ {NULL})
    <3>1. DOMAIN NextBuffer \ {NULL} = Node
      BY <2>1
    <3>. QED
      BY <3>1 DEF Remembers
  <2>3. \A i \in 1..Len(s) : NextBuffer[s[i]] = node[s[i]].nextBuffer
    <3>1. \A i \in 1..Len(s) : s[i] \in Node /\ s[i] \in DOMAIN node
      BY DEF Remembers
    <3>. QED
      BY <3>1 DEF NextBuffer, Node
  <2>4. s = << >> <=> Len(s) = 0
    BY DEF Remembers
  <2>. QED
    BY <2>2, <2>3, <2>4 DEF IsListFrom, Remembers
<1>. QED
  BY <1>1, <1>2, ChainIsList DEF Remembered

\* What the invariant says of the history.
LEMMA HistorySound == HistoryInv => HistoryWellFormed
<1> SUFFICES ASSUME HistoryInv PROVE HistoryWellFormed
  OBVIOUS
<1>1. PICK s : Remembers(s)
  BY DEF HistoryInv
<1>2. Remembered = s
  BY <1>1, RememberedIs
<1>3. Len(s) \in Nat /\ DOMAIN s = 1..Len(s)
  BY <1>1 DEF Remembers
<1>4. Range(s) = DOMAIN node
  <2>1. \A n : n \in DOMAIN node <=> \E i \in 1..Len(s) : s[i] = n
    BY <1>1 DEF Remembers
  <2>. QED
    BY <1>3, <2>1 DEF Range
<1>5. [i \in DOMAIN s |-> node[s[i]].bufferSize] = entered
  <2>1. DOMAIN entered = 1..Len(s) /\ entered = [i \in DOMAIN entered |-> entered[i]]
    BY <1>1, <1>3 DEF Remembers
  <2>. QED
    BY <1>1, <1>3, <2>1 DEF Remembers
<1>6. bufferListLength > 0 => bufferTail = Last(s)
  BY <1>1, <1>3 DEF Remembers, Last
<1>7. \A i \in DOMAIN s : node[s[i]].prevBuffer = IF i = 1 THEN NULL ELSE s[i - 1]
  BY <1>1, <1>3 DEF Remembers
<1>. QED
  BY <1>1, <1>2, <1>3, <1>4, <1>5, <1>6, <1>7
  DEF HistoryWellFormed, Remembers, HistoryInv, Recalled

-----------------------------------------------------------------------------

\* No line has been entered yet.
LEMMA HistoryInit == Init => HistoryInv
<1> SUFFICES ASSUME Init PROVE HistoryInv
  OBVIOUS
<1>1. Remembers(<< >>)
  BY SerialPollAssumption DEF Init, Remembers
<1>2. Edits(ed) /\ dest \in Buffer
  BY DEF Init, Fresh, Edits, EdType
<1>3. node = [n \in DOMAIN node |-> node[n]] /\ pc = "caller"
  BY DEF Init
<1>. QED
  BY <1>1, <1>2, <1>3 DEF HistoryInv

\* The end of the loop's body: the cursor gets a value and the line stays.
LEMMA Redrawn ==
  ASSUME NEW e \in EdType, Redraw(e)
  PROVE  /\ ed' \in EdType
         /\ ed'.buffer = e.buffer /\ ed'.bufferCount = e.bufferCount
         /\ ed'.currBuffer = e.currBuffer
         /\ ed'.tempIndex = ed'.index
         /\ e.tempIndex # Undefined => ed'.index = e.tempIndex
         /\ pc' = IF e.bufferCount < Size[dest] - 1 THEN "poll" ELSE "stop"
         /\ UNCHANGED <<dest, terminal, history>>
<1>1. PICK i \in Int : /\ ed' = [e EXCEPT !.index = i, !.tempIndex = i]
                       /\ e.tempIndex # Undefined => i = e.tempIndex
  <2>1. e.tempIndex # Undefined => e.tempIndex \in Int
    BY DEF EdType
  <2>. QED
    BY <2>1, SerialPollAssumption DEF Redraw
<1>2. e = [buffer |-> e.buffer, bufferCount |-> e.bufferCount, index |-> e.index,
           tempIndex |-> e.tempIndex, currBuffer |-> e.currBuffer]
  BY DEF EdType
<1>3. ed' = [buffer |-> e.buffer, bufferCount |-> e.bufferCount, index |-> i,
             tempIndex |-> i, currBuffer |-> e.currBuffer]
  BY <1>1, <1>2
<1>. QED
  BY <1>1, <1>3 DEF EdType, Redraw

\* A value of serial_poll's variables from which the line is redrawn: a line
\* with a cursor that was recalled from the history, or not at all.
Shown(e) == e \in EdType /\ Recalled(e)

\* What a key, or a byte of one, may do to the line and to the history.
Keeps ==
  /\ Edits(ed') /\ dest' = dest
  /\ Recalled(ed')
  /\ pc' # "caller"
  /\ UNCHANGED history

\* Redrawing a line keeps that.
LEMMA RedrawKeeps ==
  ASSUME NEW e, Shown(e), Redraw(e)
  PROVE  Keeps
<1>1. e \in EdType /\ Recalled(e)
  BY DEF Shown
<1>2. /\ ed' \in EdType /\ ed'.tempIndex = ed'.index /\ ed'.currBuffer = e.currBuffer
      /\ pc' \in {"poll", "stop"}
      /\ UNCHANGED <<dest, terminal, history>>
  BY <1>1, Redrawn
<1>3. Edits(ed') /\ Recalled(ed')
  BY <1>1, <1>2 DEF Edits, Recalled
<1>. QED
  BY <1>2, <1>3 DEF Keeps

\* So does waiting for the next byte of a key.
LEMMA WithinKeeps ==
  ASSUME HistoryInv, NEW p \in {"poll", "esc", "bracket", "three", "stop"}, pc # "caller", Within(p)
  PROVE  Keeps
  BY DEF HistoryInv, Within, Keeps, Edits, Recalled

\* The values the code computes are of that kind.
LEMMA ShownNow ==
  ASSUME HistoryInv, pc # "caller"
  PROVE  /\ Shown(ed)
         /\ \A i \in Int : Shown([ed EXCEPT !.tempIndex = i])
         /\ \A c, i \in Int : Shown([ed EXCEPT !.bufferCount = c, !.tempIndex = i])
         /\ \A c, i \in Int : Shown([ed EXCEPT !.currBuffer = NULL, !.tempIndex = i, !.bufferCount = c])
<1>1. ed \in EdType /\ Recalled(ed)
  BY DEF HistoryInv, Edits
<1>. QED
  BY <1>1 DEF Shown, EdType, Recalled

\* A node of the history, its neighbours in the list, and the newest one.
LEMMA NodeFacts ==
  ASSUME HistoryInv
  PROVE  /\ DOMAIN node \subseteq Node
         /\ bufferHead \in DOMAIN node \cup {NULL}
         /\ \A n \in DOMAIN node : /\ node[n] \in NodeType
                                   /\ node[n].nextBuffer \in DOMAIN node \cup {NULL}
                                   /\ node[n].prevBuffer \in DOMAIN node \cup {NULL}
<1>1. PICK s : Remembers(s)
  BY DEF HistoryInv
<1>2. Len(s) \in Nat /\ \A i \in 1..Len(s) : s[i] \in Node /\ s[i] \in DOMAIN node
  BY <1>1 DEF Remembers
<1>3. bufferHead \in DOMAIN node \cup {NULL}
  BY <1>1, <1>2 DEF Remembers
<1>4. ASSUME NEW n \in DOMAIN node
      PROVE  /\ n \in Node /\ node[n] \in NodeType
             /\ node[n].nextBuffer \in DOMAIN node \cup {NULL}
             /\ node[n].prevBuffer \in DOMAIN node \cup {NULL}
  <2>1. PICK i \in 1..Len(s) : s[i] = n
    BY <1>1 DEF Remembers
  <2>2. /\ node[n] \in NodeType
        /\ node[n].nextBuffer = IF i < Len(s) THEN s[i + 1] ELSE NULL
        /\ node[n].prevBuffer = IF i > 1 THEN s[i - 1] ELSE NULL
    BY <1>1, <2>1 DEF Remembers
  <2>. QED
    BY <1>2, <2>1, <2>2
<1>. QED
  BY <1>3, <1>4

\* Recalling a line.
LEMMA RecallKeeps ==
  ASSUME HistoryInv, NEW n \in DOMAIN node, Recall(n)
  PROVE  Keeps
<1> DEFINE e == [ed EXCEPT !.buffer = node[n].bufferText, !.bufferCount = node[n].bufferSize,
                           !.tempIndex = node[n].bufferSize, !.currBuffer = n]
<1>1. node[n] \in NodeType /\ n \in Node
  BY NodeFacts
<1>2. ed \in EdType
  BY DEF HistoryInv, Edits
<1>3. e \in EdType /\ e.currBuffer = n
  BY <1>1, <1>2 DEF EdType, NodeType
<1>4. Shown(e)
  BY <1>3 DEF Shown, Recalled
<1>5. Redraw(e)
  BY DEF Recall
<1> HIDE DEF e
<1>. QED
  BY <1>4, <1>5, RedrawKeeps

\* The keys.
LEMMA KeysKeep ==
  ASSUME HistoryInv, pc # "caller"
  PROVE  /\ Ignored => Keeps
         /\ \A c : insert(c) => Keeps
         /\ backspace => Keeps
         /\ delete => Keeps
         /\ left => Keeps
         /\ right => Keeps
<1>1. ed \in EdType /\ ed.bufferCount \in Int /\ ed.index \in Int
      /\ (ed.index # 0 \/ ed.index # ed.bufferCount => ed.tempIndex = ed.index)
  BY DEF HistoryInv, Edits, EdType
<1>2. Ignored => Keeps
  BY ShownNow, RedrawKeeps DEF Ignored
<1>3. ASSUME NEW c, insert(c) PROVE Keeps
  <2>1. Redraw([ed EXCEPT !.bufferCount = ed.bufferCount + 1, !.tempIndex = ed.index + 1])
    BY <1>3 DEF insert
  <2>2. Shown([ed EXCEPT !.bufferCount = ed.bufferCount + 1, !.tempIndex = ed.index + 1])
    <3>1. ed.bufferCount + 1 \in Int /\ ed.index + 1 \in Int
      BY <1>1
    <3>. QED
      BY ONLY <3>1, ShownNow, HistoryInv, pc # "caller"
  <2>. QED
    BY <2>1, <2>2, RedrawKeeps
<1>4. ASSUME NEW i \in Int, remove(i) PROVE Keeps
  <2>1. Redraw([ed EXCEPT !.bufferCount = ed.bufferCount - 1, !.tempIndex = i])
    BY <1>4 DEF remove
  <2>2. Shown([ed EXCEPT !.bufferCount = ed.bufferCount - 1, !.tempIndex = i])
    <3>1. ed.bufferCount - 1 \in Int
      BY <1>1
    <3>. QED
      BY ONLY <3>1, i \in Int, ShownNow, HistoryInv, pc # "caller"
  <2>. QED
    BY <2>1, <2>2, RedrawKeeps
<1>5. ASSUME NEW i \in Int, Redraw([ed EXCEPT !.tempIndex = i]) PROVE Keeps
  <2>1. Shown([ed EXCEPT !.tempIndex = i])
    BY ShownNow
  <2>. QED
    BY <1>5, <2>1, RedrawKeeps
<1>6. backspace => Keeps
  <2>1. ed.index - 1 \in Int /\ 0 \in Int
    BY <1>1
  <2>. QED
    BY <1>4, <1>5, <2>1 DEF backspace
<1>7. delete => Keeps
  BY <1>1, <1>4, <1>5 DEF delete
<1>8. ASSUME left PROVE Keeps
  <2>1. CASE ed.index = 0
    BY <1>2, <1>8, <2>1 DEF left
  <2>2. CASE ed.index # 0
    <3>1. Redraw([ed EXCEPT !.tempIndex = ed.index - 1])
      BY <1>1, <1>8, <2>2 DEF left
    <3>. QED
      BY <1>1, <1>5, <3>1
  <2>. QED
    BY <2>1, <2>2
<1>9. ASSUME right PROVE Keeps
  <2>1. CASE ed.index = ed.bufferCount
    BY <1>2, <1>9, <2>1 DEF right
  <2>2. CASE ed.index # ed.bufferCount
    <3>1. Redraw([ed EXCEPT !.tempIndex = ed.index + 1])
      BY <1>1, <1>9, <2>2 DEF right
    <3>. QED
      BY <1>1, <1>5, <3>1
  <2>. QED
    BY <2>1, <2>2
<1>. QED
  BY <1>2, <1>3, <1>6, <1>7, <1>8, <1>9

\* The keys of the history.
LEMMA HistoryKeysKeep ==
  ASSUME HistoryInv, pc # "caller"
  PROVE  (up => Keeps) /\ (down => Keeps)
<1>1. Recalled(ed)
  BY DEF HistoryInv
<1>2. NULL \notin DOMAIN node
  BY NodeFacts, SerialPollAssumption DEF Node
<1>3. ASSUME up PROVE Keeps
  <2>1. PICK older \in DOMAIN node \cup {NULL} : IF older = NULL THEN Ignored ELSE Recall(older)
    BY <1>1, <1>3, NodeFacts DEF up, Recalled
  <2>. QED
    BY <2>1, KeysKeep, RecallKeeps
<1>4. ASSUME down PROVE Keeps
  <2>1. CASE ed.currBuffer = NULL
    BY <1>4, <2>1, KeysKeep DEF down
  <2>2. CASE ed.currBuffer # NULL /\ node[ed.currBuffer].prevBuffer # NULL
    <3>1. node[ed.currBuffer].prevBuffer \in DOMAIN node
      BY <1>1, <2>2, NodeFacts DEF Recalled
    <3>2. Recall(node[ed.currBuffer].prevBuffer)
      BY <1>4, <2>2 DEF down
    <3>. QED
      BY <3>1, <3>2, RecallKeeps
  <2>3. CASE ed.currBuffer # NULL /\ node[ed.currBuffer].prevBuffer = NULL
    <3>1. Redraw([ed EXCEPT !.currBuffer = NULL, !.tempIndex = 0, !.bufferCount = 0])
      BY <1>4, <2>3 DEF down
    <3>2. Shown([ed EXCEPT !.currBuffer = NULL, !.tempIndex = 0, !.bufferCount = 0])
      <4>1. 0 \in Int
        OBVIOUS
      <4>. QED
        BY ONLY <4>1, ShownNow, HistoryInv, pc # "caller"
    <3>. QED
      BY <3>1, <3>2, RedrawKeeps
  <2>. QED
    BY <2>1, <2>2, <2>3
<1>. QED
  BY <1>3, <1>4

\* The bytes of a key.
LEMMA BytesKeep ==
  ASSUME HistoryInv, Poll
  PROVE  Keeps
<1>1. pc # "caller"
  BY DEF Poll, PollByte, EscByte, BracketByte, ThreeByte
<1>2. \A p \in {"stop", "esc", "bracket", "three"} : Within(p) => Keeps
  BY <1>1, WithinKeeps
<1>3. /\ Ignored => Keeps
      /\ \A c : insert(c) => Keeps
      /\ (backspace => Keeps) /\ (delete => Keeps)
      /\ (left => Keeps) /\ (right => Keeps) /\ (up => Keeps) /\ (down => Keeps)
  BY <1>1, KeysKeep, HistoryKeysKeep
<1>. QED
  BY <1>2, <1>3 DEF Poll, PollByte, EscByte, BracketByte, ThreeByte

\* There is always a node for the next line: one more than the history holds.
LEMMA NewNode ==
  ASSUME HistoryInv
  PROVE  sys_alloc_mem \in Node /\ sys_alloc_mem \notin DOMAIN node
<1>1. PICK s : Remembers(s)
  BY DEF HistoryInv
<1>2. Len(s) \in Nat /\ BUFFER_LIST_MAX \in Nat /\ Len(s) <= BUFFER_LIST_MAX
  BY <1>1, SerialPollAssumption DEF Remembers
<1>3. \E n \in Node : n \notin DOMAIN node
  <2> SUFFICES ASSUME \A n \in Node : n \in DOMAIN node PROVE FALSE
    OBVIOUS
  <2>1. s \in [1..Len(s) -> Node]
    BY <1>1 DEF Remembers
  <2>2. \A n \in Node : \E i \in 1..Len(s) : s[i] = n
    BY <1>1 DEF Remembers
  <2>3. s \in Surjection(1..Len(s), Node)
    BY <2>1, <2>2 DEF Surjection
  <2>4. IsFiniteSet(1..Len(s)) /\ Cardinality(1..Len(s)) = Len(s)
    <3>1. 1 \in Int /\ Len(s) \in Int
      BY <1>2
    <3>2. /\ IsFiniteSet(1..Len(s))
          /\ Cardinality(1..Len(s)) = IF 1 > Len(s) THEN 0 ELSE Len(s) - 1 + 1
      BY ONLY <3>1, FS_Interval
    <3>. QED
      BY <1>2, <3>2
  <2>5. Cardinality(Node) = BUFFER_LIST_MAX + 1
    BY <1>2, FS_Interval DEF Node
  <2>6. Cardinality(Node) <= Cardinality(1..Len(s))
    BY <2>3, <2>4, FS_Surjection
  <2>. QED
    BY <1>2, <2>4, <2>5, <2>6
<1>. QED
  BY <1>3 DEF sys_alloc_mem, Node

\* The node of the line that was entered, in front of list s; of a full list
\* the last node is dropped.
Kept(s) == IF Len(s) = BUFFER_LIST_MAX THEN BUFFER_LIST_MAX - 1 ELSE Len(s)
InFront(n, s) == [i \in 1..(Kept(s) + 1) |-> IF i = 1 THEN n ELSE s[i - 1]]

LEMMA InFrontFacts ==
  ASSUME HistoryInv, NEW s, Remembers(s), NEW n \in Node, n \notin DOMAIN node
  PROVE  /\ Kept(s) \in Nat /\ Len(InFront(n, s)) = Kept(s) + 1
         /\ Kept(s) <= Len(s) /\ Kept(s) + 1 <= BUFFER_LIST_MAX
         /\ InFront(n, s) \in Seq(Node)
         /\ InFront(n, s)[1] = n
         /\ \A i \in 2..(Kept(s) + 1) : InFront(n, s)[i] = s[i - 1]
         /\ \A i, j \in 1..(Kept(s) + 1) : InFront(n, s)[i] = InFront(n, s)[j] => i = j
<1>1. /\ Len(s) \in Nat /\ Len(s) <= BUFFER_LIST_MAX /\ BUFFER_LIST_MAX \in Nat \ {0, 1}
      /\ \A i \in 1..Len(s) : s[i] \in Node /\ s[i] # n
      /\ \A i, j \in 1..Len(s) : s[i] = s[j] => i = j
  BY SerialPollAssumption DEF Remembers
<1>2. Kept(s) \in Nat /\ Kept(s) <= Len(s) /\ Kept(s) + 1 <= BUFFER_LIST_MAX
  BY <1>1 DEF Kept
<1>3. \A i \in 1..(Kept(s) + 1) : i # 1 => i - 1 \in 1..Len(s)
  BY <1>1, <1>2
<1>4. InFront(n, s) \in Seq(Node) /\ Len(InFront(n, s)) = Kept(s) + 1
  <2>1. InFront(n, s) \in [1..(Kept(s) + 1) -> Node]
    BY <1>1, <1>3 DEF InFront
  <2>. QED
    BY <1>2, <2>1
<1>5. /\ InFront(n, s)[1] = n
      /\ \A i \in 2..(Kept(s) + 1) : InFront(n, s)[i] = s[i - 1]
  BY <1>2 DEF InFront
<1>6. ASSUME NEW i \in 1..(Kept(s) + 1), NEW j \in 1..(Kept(s) + 1),
             InFront(n, s)[i] = InFront(n, s)[j]
      PROVE  i = j
  <2>1. InFront(n, s)[i] = IF i = 1 THEN n ELSE s[i - 1]
    BY DEF InFront
  <2>2. InFront(n, s)[j] = IF j = 1 THEN n ELSE s[j - 1]
    BY DEF InFront
  <2>3. CASE i # 1 /\ j # 1
    <3>1. i - 1 \in 1..Len(s) /\ j - 1 \in 1..Len(s) /\ s[i - 1] = s[j - 1]
      BY <1>3, <1>6, <2>1, <2>2, <2>3
    <3>2. i - 1 = j - 1
      BY <1>1, <3>1
    <3>. QED
      BY <3>2
  <2>4. CASE i = 1 \/ j = 1
    BY <1>1, <1>3, <1>6, <2>1, <2>2, <2>4
  <2>. QED
    BY <2>3, <2>4
<1>. QED
  BY <1>2, <1>4, <1>5, <1>6

\* A node r with other links.
Links(r, next, prev) == [bufferText |-> r.bufferText, bufferSize |-> r.bufferSize,
                         nextBuffer |-> next, prevBuffer |-> prev]

\* The assignments of add_node in W, which has the nodes D: node a becomes the
\* last one, and n comes in front of node b.
SetBoth(W, a, b, n) == [W EXCEPT ![a].nextBuffer = NULL, ![b].prevBuffer = n]
SetPrev(W, b, n) == [W EXCEPT ![b].prevBuffer = n]
NextIn(W, a, x) == IF x = a THEN NULL ELSE W[x].nextBuffer
PrevIn(W, b, n, x) == IF x = b THEN n ELSE W[x].prevBuffer
Nodes(D, W) == W \in [D -> NodeType]

LEMMA Relinked ==
  ASSUME NEW D, NEW W, Nodes(D, W), NEW a \in D, NEW b \in D, NEW n \in Node, NEW x \in D
  PROVE  /\ SetBoth(W, a, b, n)[x] = Links(W[x], NextIn(W, a, x), PrevIn(W, b, n, x))
         /\ SetPrev(W, b, n)[x] = Links(W[x], W[x].nextBuffer, PrevIn(W, b, n, x))
<1>1. W \in [D -> NodeType] /\ \A y \in D : W[y] \in NodeType
  BY DEF Nodes
<1>2. \A y \in D : W[y] = [bufferText |-> W[y].bufferText, bufferSize |-> W[y].bufferSize,
                           nextBuffer |-> W[y].nextBuffer, prevBuffer |-> W[y].prevBuffer]
  BY <1>1 DEF NodeType
<1> DEFINE V == [W EXCEPT ![a].nextBuffer = NULL]
<1>3. /\ DOMAIN V = D
      /\ \A y \in D : V[y] = IF y = a THEN [W[a] EXCEPT !.nextBuffer = NULL] ELSE W[y]
  BY <1>1
<1>4. \A y \in D : V[y] = Links(W[y], IF y = a THEN NULL ELSE W[y].nextBuffer, W[y].prevBuffer)
  BY <1>2, <1>3 DEF Links
<1>5. [W EXCEPT ![b].prevBuffer = n][x] = IF x = b THEN [W[b] EXCEPT !.prevBuffer = n] ELSE W[x]
  BY <1>1
<1>6. [W EXCEPT ![a].nextBuffer = NULL, ![b].prevBuffer = n] = [V EXCEPT ![b].prevBuffer = n]
  BY <1>1
<1> HIDE DEF V
<1>7. [V EXCEPT ![b].prevBuffer = n][x] = IF x = b THEN [V[b] EXCEPT !.prevBuffer = n] ELSE V[x]
  BY <1>3
<1>8. [V EXCEPT ![b].prevBuffer = n][x] =
        Links(W[x], IF x = a THEN NULL ELSE W[x].nextBuffer, IF x = b THEN n ELSE W[x].prevBuffer)
  <2>1. V[x] = [bufferText |-> W[x].bufferText, bufferSize |-> W[x].bufferSize,
                nextBuffer |-> IF x = a THEN NULL ELSE W[x].nextBuffer,
                prevBuffer |-> W[x].prevBuffer]
    BY <1>4 DEF Links
  <2>2. CASE x = b
    <3>1. [V EXCEPT ![b].prevBuffer = n][x] = [V[x] EXCEPT !.prevBuffer = n]
      BY <1>7, <2>2
    <3>2. [V[x] EXCEPT !.prevBuffer = n] =
            [bufferText |-> W[x].bufferText, bufferSize |-> W[x].bufferSize,
             nextBuffer |-> IF x = a THEN NULL ELSE W[x].nextBuffer, prevBuffer |-> n]
      BY <2>1
    <3>. QED
      BY <2>2, <3>1, <3>2 DEF Links
  <2>3. CASE x # b
    BY <1>7, <2>1, <2>3 DEF Links
  <2>. QED
    BY <2>2, <2>3
<1>9. SetPrev(W, b, n)[x] = Links(W[x], W[x].nextBuffer, PrevIn(W, b, n, x))
  <2>1. W[x] = [bufferText |-> W[x].bufferText, bufferSize |-> W[x].bufferSize,
                nextBuffer |-> W[x].nextBuffer, prevBuffer |-> W[x].prevBuffer]
    BY <1>2
  <2>2. CASE x = b
    <3>1. [W[x] EXCEPT !.prevBuffer = n] =
            [bufferText |-> W[x].bufferText, bufferSize |-> W[x].bufferSize,
             nextBuffer |-> W[x].nextBuffer, prevBuffer |-> n]
      BY <2>1
    <3>. QED
      BY <1>5, <2>2, <3>1 DEF Links, SetPrev, PrevIn
  <2>3. CASE x # b
    BY <1>5, <2>1, <2>3 DEF Links, SetPrev, PrevIn
  <2>. QED
    BY <2>2, <2>3
<1>. QED
  BY <1>6, <1>8, <1>9 DEF SetBoth, NextIn, PrevIn

\* What Return leaves of the history s: the nodes kept, with their links.
Added(n, s) ==
  /\ \A x : x \in DOMAIN node' <=> x = n \/ \E i \in 1..Kept(s) : s[i] = x
  /\ node' = [x \in DOMAIN node' |-> node'[x]]
  /\ node'[n] = [bufferText |-> ed.buffer, bufferSize |-> ed.bufferCount,
                 nextBuffer |-> bufferHead, prevBuffer |-> NULL]
  /\ \A i \in 1..Kept(s) :
       node'[s[i]] = Links(node[s[i]], IF i < Kept(s) THEN s[i + 1] ELSE NULL,
                                       IF i > 1 THEN s[i - 1] ELSE n)
  /\ bufferTail' = IF Kept(s) = 0 THEN n ELSE s[Kept(s)]
  /\ bufferListLength' = Kept(s) + 1

LEMMA ReturnAdds ==
  ASSUME HistoryInv, Return, NEW s, Remembers(s)
  PROVE  Added(sys_alloc_mem, s)
<1> DEFINE new == [bufferText |-> ed.buffer, bufferSize |-> ed.bufferCount,
                   nextBuffer |-> bufferHead, prevBuffer |-> NULL]
<1>1. PICK n : n = sys_alloc_mem
  OBVIOUS
<1>2. n \in Node /\ n \notin DOMAIN node
  BY <1>1, NewNode
<1>3. new \in NodeType
  <2>1. ed \in EdType /\ DOMAIN node \subseteq Node /\ bufferHead \in DOMAIN node \cup {NULL}
    BY NodeFacts DEF HistoryInv, Edits
  <2>. QED
    BY <2>1 DEF NodeType, EdType
<1>4. PICK W : W = With(new)
  OBVIOUS
<1>5. /\ W \in [DOMAIN node \cup {n} -> NodeType]
      /\ W[n] = new
      /\ \A x \in DOMAIN node : W[x] = node[x]
  <2>1. W = [x \in DOMAIN node \cup {n} |-> IF x = n THEN new ELSE node[x]]
    BY <1>1, <1>4 DEF With
  <2>2. \A x \in DOMAIN node : node[x] \in NodeType
    BY NodeFacts
  <2> HIDE DEF new
  <2>. QED
    BY <1>2, <1>3, <2>1, <2>2
<1>50. PICK D : D = DOMAIN node \cup {n} /\ Nodes(D, W)
  BY <1>5 DEF Nodes
<1>6. /\ Len(s) \in Nat /\ Len(s) <= BUFFER_LIST_MAX /\ BUFFER_LIST_MAX \in Nat \ {0, 1}
      /\ Len(s) = bufferListLength
      /\ \A i \in 1..Len(s) : s[i] \in DOMAIN node
      /\ \A x \in DOMAIN node : \E i \in 1..Len(s) : s[i] = x
      /\ \A i, j \in 1..Len(s) : s[i] = s[j] => i = j
      /\ \A i \in 1..Len(s) :
           /\ node[s[i]].nextBuffer = IF i < Len(s) THEN s[i + 1] ELSE NULL
           /\ node[s[i]].prevBuffer = IF i > 1 THEN s[i - 1] ELSE NULL
      /\ bufferHead = IF Len(s) = 0 THEN NULL ELSE s[1]
      /\ Len(s) > 0 => bufferTail = s[Len(s)]
  BY SerialPollAssumption DEF Remembers
<1>7. add_node(new)
  BY DEF Return
<1> HIDE DEF new
<1>8. CASE Len(s) = BUFFER_LIST_MAX
  <2>1. PICK a, b, t : a = s[Len(s) - 1] /\ b = s[1] /\ t = s[Len(s)]
    OBVIOUS
  <2>2. a \in DOMAIN node /\ b \in DOMAIN node /\ t \in DOMAIN node
    BY <1>6, <1>8, <2>1
  <2>3. bufferHead = b /\ bufferTail = t /\ node[t].prevBuffer = a
    BY <1>6, <1>8, <2>1
  <2>4. /\ bufferTail' = a
        /\ node' = [x \in DOMAIN W \ {t} |->
                      [W EXCEPT ![a].nextBuffer = NULL, ![b].prevBuffer = n][x]]
        /\ bufferListLength' = bufferListLength
    BY <1>1, <1>4, <1>6, <1>7, <1>8, <2>3 DEF add_node
  <2>5. Kept(s) = Len(s) - 1
    BY <1>8 DEF Kept
  <2>6. DOMAIN node' = (DOMAIN node \cup {n}) \ {t}
    BY <1>5, <2>4
  <2>7. \A x \in DOMAIN node' :
          node'[x] = Links(W[x], NextIn(W, a, x), PrevIn(W, b, n, x))
    <3> TAKE x \in DOMAIN node'
    <3>1. x \in D /\ a \in D /\ b \in D /\ n \in Node /\ Nodes(D, W)
      BY <1>2, <1>50, <2>2, <2>6
    <3>2. node'[x] = SetBoth(W, a, b, n)[x]
      BY <2>4 DEF SetBoth
    <3>3. SetBoth(W, a, b, n)[x] = Links(W[x], NextIn(W, a, x), PrevIn(W, b, n, x))
      BY ONLY <3>1, Relinked
    <3>. QED
      BY ONLY <3>2, <3>3
  <2>8. \A x : x \in DOMAIN node' <=> x = n \/ \E i \in 1..Kept(s) : s[i] = x
    BY <1>2, <1>6, <1>8, <2>1, <2>2, <2>5, <2>6
  <2>9. node'[n] = new
    <3>1. n \in DOMAIN node' /\ n # a /\ n # b
      BY <1>2, <2>2, <2>8
    <3>. QED
      BY <1>5, <2>7, <3>1 DEF Links, NextIn, PrevIn, new
  <2>10. ASSUME NEW i \in 1..Kept(s)
         PROVE  node'[s[i]] = Links(node[s[i]], IF i < Kept(s) THEN s[i + 1] ELSE NULL,
                                               IF i > 1 THEN s[i - 1] ELSE n)
    <3>1. i \in 1..Len(s) /\ i < Len(s) /\ s[i] \in DOMAIN node' /\ s[i] \in DOMAIN node
      BY <1>6, <2>5, <2>8
    <3>2. (s[i] = a <=> i = Kept(s)) /\ (s[i] = b <=> i = 1)
      <4>1. Len(s) - 1 \in 1..Len(s) /\ 1 \in 1..Len(s)
        BY <1>6, <1>8
      <4>2. \A j, l \in 1..Len(s) : s[j] = s[l] => j = l
        BY <1>6
      <4>3. (s[i] = s[Len(s) - 1] <=> i = Len(s) - 1) /\ (s[i] = s[1] <=> i = 1)
        BY ONLY <3>1, <4>1, <4>2
      <4>. QED
        BY <2>1, <2>5, <4>3
    <3>3. W[s[i]] = node[s[i]]
      BY <1>5, <3>1
    <3>. QED
      <4>1. node'[s[i]] = Links(node[s[i]], NextIn(W, a, s[i]), PrevIn(W, b, n, s[i]))
        BY <2>7, <3>1, <3>3
      <4>2. NextIn(W, a, s[i]) = IF i < Kept(s) THEN s[i + 1] ELSE NULL
        BY <1>6, <2>5, <3>1, <3>2, <3>3 DEF NextIn
      <4>3. PrevIn(W, b, n, s[i]) = IF i > 1 THEN s[i - 1] ELSE n
        BY <1>6, <2>5, <3>1, <3>2, <3>3 DEF PrevIn
      <4>. QED
        BY <4>1, <4>2, <4>3
  <2>11. bufferTail' = s[Kept(s)] /\ Kept(s) # 0 /\ bufferListLength' = Kept(s) + 1
    <3>1. Kept(s) # 0 /\ bufferListLength' = Kept(s) + 1
      <4>1. bufferListLength' = Len(s)
        BY <1>6, <2>4
      <4>2. Len(s) \in Nat /\ Len(s) >= 2
        BY <1>6, <1>8
      <4>. QED
        BY <2>5, <4>1, <4>2
    <3>. QED
      BY <2>1, <2>4, <2>5, <3>1
  <2>12. node' = [x \in DOMAIN node' |-> node'[x]]
    BY <2>4
  <2>. QED
    BY <1>1, <2>8, <2>9, <2>10, <2>11, <2>12 DEF Added, new
<1>9. CASE Len(s) = 0
  <2>1. /\ bufferTail' = n /\ node' = W /\ bufferListLength' = 1
    BY <1>1, <1>4, <1>6, <1>7, <1>9 DEF add_node
  <2>2. Kept(s) = 0
    BY <1>6, <1>9 DEF Kept
  <2>3. DOMAIN node' = {n}
    BY <1>5, <1>6, <1>9, <2>1
  <2>4. node' = [x \in DOMAIN node' |-> node'[x]]
    BY <1>5, <2>1
  <2>. QED
    BY <1>1, <1>5, <2>1, <2>2, <2>3, <2>4 DEF Added, new
<1>10. CASE Len(s) # 0 /\ Len(s) # BUFFER_LIST_MAX
  <2>1. PICK b : b = s[1]
    OBVIOUS
  <2>2. b \in DOMAIN node /\ bufferHead = b
    BY <1>6, <1>10, <2>1
  <2>3. /\ bufferTail' = bufferTail
        /\ node' = [W EXCEPT ![b].prevBuffer = n]
        /\ bufferListLength' = bufferListLength + 1
    BY <1>1, <1>4, <1>6, <1>7, <1>10, <2>2 DEF add_node
  <2>4. Kept(s) = Len(s)
    BY <1>10 DEF Kept
  <2>5. DOMAIN node' = DOMAIN node \cup {n}
    BY <1>5, <2>3
  <2>6. \A x \in DOMAIN node' :
          node'[x] = Links(W[x], W[x].nextBuffer, PrevIn(W, b, n, x))
    <3> TAKE x \in DOMAIN node'
    <3>1. x \in D /\ b \in D /\ n \in Node /\ Nodes(D, W)
      BY <1>2, <1>50, <2>2, <2>5
    <3>2. node'[x] = SetPrev(W, b, n)[x]
      BY <2>3 DEF SetPrev
    <3>3. SetPrev(W, b, n)[x] = Links(W[x], W[x].nextBuffer, PrevIn(W, b, n, x))
      BY ONLY <3>1, Relinked
    <3>. QED
      BY ONLY <3>2, <3>3
  <2>7. \A x : x \in DOMAIN node' <=> x = n \/ \E i \in 1..Kept(s) : s[i] = x
    BY <1>6, <2>4, <2>5
  <2>8. node'[n] = new
    <3>1. n \in DOMAIN node' /\ n # b
      BY <1>2, <2>2, <2>7
    <3>. QED
      BY <1>5, <2>6, <3>1 DEF Links, PrevIn, new
  <2>9. ASSUME NEW i \in 1..Kept(s)
        PROVE  node'[s[i]] = Links(node[s[i]], IF i < Kept(s) THEN s[i + 1] ELSE NULL,
                                              IF i > 1 THEN s[i - 1] ELSE n)
    <3>1. i \in 1..Len(s) /\ s[i] \in DOMAIN node' /\ s[i] \in DOMAIN node
      BY <1>6, <2>4, <2>7
    <3>2. s[i] = b <=> i = 1
      BY <1>6, <1>10, <2>1, <3>1
    <3>3. W[s[i]] = node[s[i]]
      BY <1>5, <3>1
    <3>. QED
      <4>1. node'[s[i]] = Links(node[s[i]], node[s[i]].nextBuffer, PrevIn(W, b, n, s[i]))
        BY <2>6, <3>1, <3>3
      <4>2. node[s[i]].nextBuffer = IF i < Kept(s) THEN s[i + 1] ELSE NULL
        BY <1>6, <2>4, <3>1
      <4>3. PrevIn(W, b, n, s[i]) = IF i > 1 THEN s[i - 1] ELSE n
        BY <1>6, <3>1, <3>2, <3>3 DEF PrevIn
      <4>. QED
        BY <4>1, <4>2, <4>3
  <2>10. bufferTail' = s[Kept(s)] /\ Kept(s) # 0 /\ bufferListLength' = Kept(s) + 1
    BY <1>6, <1>10, <2>3, <2>4
  <2>11. node' = [x \in DOMAIN node' |-> node'[x]]
    BY <2>3
  <2>. QED
    BY <1>1, <2>7, <2>8, <2>9, <2>10, <2>11 DEF Added, new
<1>. QED
  BY <1>8, <1>9, <1>10

\* The lengths of the last lines, with the new one in front.
LEMMA ReturnEntered ==
  ASSUME HistoryInv, Return, NEW s, Remembers(s)
  PROVE  /\ entered' \in Seq(Int) /\ Len(entered') = Kept(s) + 1
         /\ entered'[1] = ed.bufferCount
         /\ \A i \in 2..(Kept(s) + 1) : entered'[i] = entered[i - 1]
<1>1. /\ Len(s) \in Nat /\ Len(s) <= BUFFER_LIST_MAX /\ BUFFER_LIST_MAX \in Nat \ {0, 1}
      /\ entered \in Seq(Int) /\ Len(entered) = Len(s)
      /\ ed.bufferCount \in Int
  BY SerialPollAssumption DEF Remembers, HistoryInv, Edits, EdType
<1>2. Min({BUFFER_LIST_MAX, Len(entered) + 1}) = Kept(s) + 1
  <2>1. CASE Len(s) = BUFFER_LIST_MAX
    <3>1. Kept(s) + 1 = BUFFER_LIST_MAX
      BY <1>1, <2>1 DEF Kept
    <3>. QED
      BY <1>1, <2>1, <3>1 DEF Min
  <2>2. CASE Len(s) # BUFFER_LIST_MAX
    <3>1. Kept(s) + 1 = Len(s) + 1 /\ Len(s) + 1 <= BUFFER_LIST_MAX
      BY <1>1, <2>2 DEF Kept
    <3>. QED
      BY <1>1, <2>2, <3>1 DEF Min
  <2>. QED
    BY <2>1, <2>2
<1>3. Kept(s) \in Nat /\ Kept(s) + 1 <= Len(s) + 1
  BY <1>1 DEF Kept
<1>4. PICK l : l = <<ed.bufferCount>> \o entered
  OBVIOUS
<1>5. /\ l \in Seq(Int) /\ Len(l) = Len(s) + 1
      /\ l[1] = ed.bufferCount
      /\ \A i \in 2..(Len(s) + 1) : l[i] = entered[i - 1]
  BY <1>1, <1>4
<1>6. entered' = SubSeq(l, 1, Kept(s) + 1)
  BY <1>2, <1>4 DEF Return
<1>7. entered' = [i \in 1..(Kept(s) + 1) |-> l[i]]
  BY <1>3, <1>5, <1>6
<1>8. \A i \in 1..(Kept(s) + 1) : l[i] \in Int
  BY <1>3, <1>5
<1>9. entered' \in Seq(Int) /\ Len(entered') = Kept(s) + 1
  BY <1>3, <1>7, <1>8
<1>. QED
  BY <1>3, <1>5, <1>7, <1>9

\* Returning a line puts it in front of the history.
LEMMA ReturnRemembers ==
  ASSUME HistoryInv, Return, NEW s, Remembers(s)
  PROVE  \E t : Remembers(t)'
<1>1. PICK n : n = sys_alloc_mem
  OBVIOUS
<1>2. n \in Node /\ n \notin DOMAIN node
  BY <1>1, NewNode
<1>3. Added(n, s)
  BY <1>1, ReturnAdds
<1>4. PICK t : t = InFront(n, s)
  OBVIOUS
<1>5. PICK k : k = Kept(s)
  OBVIOUS
<1>6. /\ k \in Nat /\ Len(t) = k + 1 /\ k <= Len(s) /\ k + 1 <= BUFFER_LIST_MAX
      /\ t \in Seq(Node)
      /\ t[1] = n /\ \A i \in 2..(k + 1) : t[i] = s[i - 1]
      /\ \A i, j \in 1..(k + 1) : t[i] = t[j] => i = j
  BY <1>2, <1>4, <1>5, InFrontFacts
<1>7. /\ entered' \in Seq(Int) /\ Len(entered') = k + 1
      /\ entered'[1] = ed.bufferCount
      /\ \A i \in 2..(k + 1) : entered'[i] = entered[i - 1]
  BY <1>5, ReturnEntered
<1>8. /\ Len(s) \in Nat
      /\ \A i \in 1..Len(s) : /\ s[i] \in Node /\ node[s[i]] \in NodeType
                              /\ node[s[i]].bufferSize = entered[i]
      /\ bufferHead = IF Len(s) = 0 THEN NULL ELSE s[1]
  BY DEF Remembers
<1>9. \A x : x \in DOMAIN node' <=> \E i \in 1..(k + 1) : t[i] = x
  <2>1. \A x : x \in DOMAIN node' <=> x = n \/ \E i \in 1..k : s[i] = x
    BY <1>3, <1>5 DEF Added
  <2>2. ASSUME NEW x, x \in DOMAIN node' PROVE \E i \in 1..(k + 1) : t[i] = x
    <3>1. CASE x = n
      BY <1>6, <3>1
    <3>2. CASE \E i \in 1..k : s[i] = x
      <4>1. PICK i \in 1..k : s[i] = x
        BY <3>2
      <4>2. i + 1 \in 2..(k + 1) /\ i + 1 \in 1..(k + 1) /\ (i + 1) - 1 = i
        BY <1>6
      <4>3. t[i + 1] = s[(i + 1) - 1]
        BY ONLY <1>6, <4>2
      <4>. QED
        BY <4>1, <4>2, <4>3
    <3>. QED
      BY <2>1, <2>2, <3>1, <3>2
  <2>3. ASSUME NEW i \in 1..(k + 1) PROVE t[i] \in DOMAIN node'
    <3>1. CASE i = 1
      BY <1>6, <2>1, <3>1
    <3>2. CASE i # 1
      <4>1. i \in 2..(k + 1) /\ i - 1 \in 1..k
        BY <1>6, <3>2
      <4>. QED
        BY <1>6, <2>1, <4>1
    <3>. QED
      BY <3>1, <3>2
  <2>. QED
    BY <2>2, <2>3
<1>10. bufferHead' = t[1] /\ bufferListLength' = k + 1
  <2>1. bufferHead' = n
    BY <1>1 DEF Return
  <2>. QED
    BY <1>3, <1>5, <1>6, <2>1 DEF Added
<1>11. bufferTail' = t[k + 1]
  <2>1. bufferTail' = IF k = 0 THEN n ELSE s[k]
    BY <1>3, <1>5 DEF Added
  <2>2. k # 0 => t[k + 1] = s[k]
    BY <1>6
  <2>. QED
    BY <1>6, <2>1, <2>2
<1>12. ASSUME NEW i \in 1..(k + 1)
       PROVE  /\ node'[t[i]] \in NodeType
              /\ node'[t[i]].nextBuffer = IF i < k + 1 THEN t[i + 1] ELSE NULL
              /\ node'[t[i]].prevBuffer = IF i > 1 THEN t[i - 1] ELSE NULL
              /\ node'[t[i]].bufferSize = entered'[i]
  <2>1. CASE i = 1
    <3>1. node'[n] = [bufferText |-> ed.buffer, bufferSize |-> ed.bufferCount,
                      nextBuffer |-> bufferHead, prevBuffer |-> NULL]
      BY <1>3 DEF Added
    <3>2. bufferHead = IF k = 0 THEN NULL ELSE t[2]
      <4>1. Len(s) = 0 <=> k = 0
        BY <1>5, <1>8, SerialPollAssumption DEF Kept
      <4>. QED
        BY <1>6, <1>8, <4>1
    <3>3. ed \in EdType /\ bufferHead \in Node \cup {NULL}
      BY NodeFacts DEF HistoryInv, Edits
    <3>4. node'[n] \in NodeType
      BY <3>1, <3>3 DEF NodeType, EdType
    <3>. QED
      BY <1>6, <1>7, <2>1, <3>1, <3>2, <3>4
  <2>2. CASE i # 1
    <3>1. PICK j : j = i - 1
      OBVIOUS
    <3>2. j \in 1..k /\ i = j + 1 /\ j \in 1..Len(s)
      BY <1>6, <1>8, <2>2, <3>1
    <3>3. t[i] = s[j] /\ (j > 1 => t[i - 1] = s[j - 1]) /\ (j = 1 => t[i - 1] = n)
          /\ (j < k => t[i + 1] = s[j + 1]) /\ entered'[i] = entered[j]
      <4>1. i \in 2..(k + 1) /\ i - 1 = j
        BY <1>6, <3>2
      <4>2. t[i] = s[j] /\ entered'[i] = entered[j]
        BY <1>6, <1>7, <4>1
      <4>3. ASSUME j > 1 PROVE t[i - 1] = s[j - 1]
        <5>1. j \in 2..(k + 1)
          BY <1>6, <3>2, <4>3
        <5>. QED
          BY <1>6, <4>1, <5>1
      <4>4. ASSUME j < k PROVE t[i + 1] = s[j + 1]
        <5>1. i + 1 \in 2..(k + 1) /\ (i + 1) - 1 = j + 1
          BY <1>6, <3>2, <4>4
        <5>2. t[i + 1] = s[(i + 1) - 1]
          BY ONLY <1>6, <5>1
        <5>. QED
          BY <5>1, <5>2
      <4>5. j = 1 => t[i - 1] = n
        BY <1>6, <4>1
      <4>. QED
        BY <4>2, <4>3, <4>4, <4>5
    <3>4. node'[s[j]] = Links(node[s[j]], IF j < k THEN s[j + 1] ELSE NULL,
                                          IF j > 1 THEN s[j - 1] ELSE n)
      BY <1>3, <1>5, <3>2 DEF Added
    <3>5. PICK next \in Node \cup {NULL} : next = IF j < k THEN s[j + 1] ELSE NULL
      <4>1. j < k => j + 1 \in 1..Len(s)
        BY <1>6, <1>8, <3>2
      <4>2. j < k => s[j + 1] \in Node
        BY <1>8, <4>1
      <4>. QED
        BY <4>2
    <3>6. PICK prev \in Node \cup {NULL} : prev = IF j > 1 THEN s[j - 1] ELSE n
      BY <1>2, <1>6, <1>8, <3>2
    <3>7. node[s[j]] \in NodeType /\ node[s[j]].bufferSize = entered[j]
      BY <1>8, <3>2
    <3>8. /\ node'[s[j]] \in NodeType /\ node'[s[j]].nextBuffer = next
          /\ node'[s[j]].prevBuffer = prev /\ node'[s[j]].bufferSize = entered[j]
      BY <3>4, <3>5, <3>6, <3>7 DEF Links, NodeType
    <3>. QED
      BY <1>6, <2>2, <3>2, <3>3, <3>5, <3>6, <3>8
  <2>. QED
    BY <2>1, <2>2
<1>13. Remembers(t)'
  BY <1>6, <1>7, <1>9, <1>10, <1>11, <1>12 DEF Remembers, Node, NodeType
<1>. QED
  BY <1>13

\* A step of the user, of the line or of a caller.
LEMMA OtherSteps ==
  ASSUME HistoryInv,
         (\E k \in Keys : Press(k)) \/ Arrive \/ (\E b \in Buffer : Call(b)) \/ UNCHANGED vars
  PROVE  HistoryInv'
<1>1. UNCHANGED history
  BY DEF Press, Arrive, Call, vars, history
<1>2. PICK s : Remembers(s)
  BY DEF HistoryInv
<1>3. UNCHANGED <<node, bufferHead, bufferTail, bufferListLength, entered>>
  BY <1>1 DEF history
<1>4. Remembers(s)' /\ (node = [n \in DOMAIN node |-> node[n]])'
  BY <1>2, <1>3 DEF Remembers, HistoryInv
<1>5. (Edits(ed) /\ dest \in Buffer /\ (pc # "caller" => Recalled(ed)))'
  <2>1. CASE \E b \in Buffer : Call(b)
    <3>1. PICK b \in Buffer : dest' = b /\ ed' = Fresh(b)
      BY <2>1 DEF Call
    <3>2. Edits(ed)' /\ Recalled(ed)'
      BY <3>1 DEF Fresh, Edits, EdType, Recalled
    <3>. QED
      BY <3>1, <3>2
  <2>2. CASE (\E k \in Keys : Press(k)) \/ Arrive \/ UNCHANGED vars
    <3>1. UNCHANGED <<ed, dest, pc>>
      BY <2>2 DEF Press, Arrive, vars
    <3>. QED
      BY <1>3, <3>1 DEF HistoryInv, Edits, EdType, Recalled, Node
  <2>. QED
    BY <2>1, <2>2
<1>. QED
  BY <1>4, <1>5 DEF HistoryInv

\* Every step keeps the history sound.
LEMMA HistoryNext == HistoryInv /\ [Next]_vars => HistoryInv'
<1> SUFFICES ASSUME HistoryInv, [Next]_vars PROVE HistoryInv'
  OBVIOUS
<1>1. ASSUME Poll PROVE HistoryInv'
  <2>1. Keeps
    BY <1>1, BytesKeep
  <2>2. PICK s : Remembers(s)
    BY DEF HistoryInv
  <2>3. UNCHANGED <<node, bufferHead, bufferTail, bufferListLength, entered>>
    BY <2>1 DEF Keeps, history
  <2>4. Remembers(s)' /\ (node = [n \in DOMAIN node |-> node[n]])'
    BY <2>2, <2>3 DEF Remembers, HistoryInv
  <2>5. (Edits(ed) /\ dest \in Buffer /\ Recalled(ed))'
    BY <2>1, <2>3 DEF Keeps, HistoryInv, Edits, EdType, Recalled, Node
  <2>. QED
    BY <2>4, <2>5 DEF HistoryInv
<1>2. ASSUME Return PROVE HistoryInv'
  <2>1. PICK s : Remembers(s)
    BY DEF HistoryInv
  <2>2. PICK t : Remembers(t)'
    BY <1>2, <2>1, ReturnRemembers
  <2>3. (node = [n \in DOMAIN node |-> node[n]])'
    <3>1. Added(sys_alloc_mem, s)
      BY <1>2, <2>1, ReturnAdds
    <3>. QED
      BY <3>1 DEF Added
  <2>4. (Edits(ed) /\ dest \in Buffer /\ pc = "caller")'
    BY <1>2 DEF Return, HistoryInv, Edits, EdType, Node
  <2>. QED
    BY <2>2, <2>3, <2>4 DEF HistoryInv
<1>. QED
  BY <1>1, <1>2, OtherSteps DEF Next, Poll

\* The history of lines stays a sound list, of the lengths that were returned,
\* however many lines are entered and recalled: the oldest node is freed and
\* nothing points to it.
THEOREM HistorySafe == Spec => []HistoryWellFormed
<1>1. Spec => []HistoryInv
  BY HistoryInit, HistoryNext, PTL DEF Spec
<1>. QED
  BY <1>1, HistorySound, PTL

-----------------------------------------------------------------------------

(***************************************************************************)
(* Keys that arrive whole.                                                 *)
(***************************************************************************)

\* The bytes of the keys.
LEMMA BytesOf ==
  /\ Bytes("up") = <<"ESC", "[", "A">> /\ Bytes("down") = <<"ESC", "[", "B">>
  /\ Bytes("right") = <<"ESC", "[", "C">> /\ Bytes("left") = <<"ESC", "[", "D">>
  /\ Bytes("delete") = <<"ESC", "[", "3", "~">>
  /\ Bytes("enter") = <<"CR">> /\ Bytes("backspace") = <<"DEL">>
  /\ \A k \in Char : Bytes(k) = <<k>> /\ k \notin {"ESC", "CR", "DEL"}
<1>1. \A k \in Char : k \notin {"ESC", "CR", "DEL", "up", "down", "left", "right",
                                "delete", "enter", "backspace"}
  BY SerialPollAssumption DEF Arrows, Others
<1>. QED
  BY <1>1 DEF Bytes

\* The keys that send an escape sequence.
IsEsc(k) == k \in Arrows \cup {"delete"}

\* The bytes of f are those of keys, in order, from some byte of the first key
\* on and without a gap.
Whole(f) ==
  /\ f \in Seq(Keys \X Nat)
  /\ \A i \in 1..Len(f) : f[i][2] \in 1..Len(Bytes(f[i][1]))
  /\ \A i \in 1..Len(f) : ~IsLast(f[i]) => i < Len(f) /\ f[i + 1] = <<f[i][1], f[i][2] + 1>>
  /\ \A i \in 1..Len(f) : IsLast(f[i]) /\ i < Len(f) => f[i + 1][2] = 1

\* Which byte of a key is read next at each place of serial_poll.
Place == [caller |-> 1, poll |-> 1, stop |-> 1, esc |-> 2, bracket |-> 3, three |-> 4]

\* At the prompt the bytes of a key are there as soon as its first one is; an
\* arrow is only pressed in a line with a cursor, and read at once.
BytesInv ==
  /\ pc \in DOMAIN Place
  /\ wire = << >>
  /\ Whole(fifo)
  /\ fifo = << >> => Place[pc] = 1
  /\ fifo # << >> => fifo[1][2] = Place[pc]
  /\ \A i \in 1..Len(fifo) : fifo[i][1] \in Arrows =>
       /\ pc \in {"poll", "esc", "bracket"} /\ ed.tempIndex # Undefined
       /\ fifo[1][1] \in Arrows /\ i + fifo[1][2] <= 4

\* What the bytes of a key are, by kind.
LEMMA KeyBytes ==
  ASSUME NEW k \in Keys
  PROVE  /\ k \in Char \cup Arrows \cup Others
         /\ Len(Bytes(k)) \in Nat \ {0}
         /\ k \in Arrows => Len(Bytes(k)) = 3
         /\ k = "delete" => Len(Bytes(k)) = 4
         /\ IsEsc(k) => Bytes(k)[1] = "ESC" /\ Bytes(k)[2] = "["
         /\ ~IsEsc(k) => Len(Bytes(k)) = 1 /\ Bytes(k)[1] # "ESC"
<1>1. k \in Char \cup Arrows \cup Others
  BY SerialPollAssumption
<1>2. k \in Char => k \notin Arrows \cup Others
  BY SerialPollAssumption
<1>. QED
  BY <1>1, <1>2, BytesOf DEF IsEsc, Arrows, Others

\* The rest of the bytes, when one has been read.
LEMMA WholeTail ==
  ASSUME NEW f, Whole(f), f # << >>
  PROVE  /\ Whole(Tail(f)) /\ Len(Tail(f)) = Len(f) - 1
         /\ \A i \in 1..Len(Tail(f)) : Tail(f)[i] = f[i + 1]
         /\ Len(f) \in Nat \ {0}
<1>1. f \in Seq(Keys \X Nat) /\ Len(f) \in Nat \ {0}
  BY DEF Whole
<1>2. PICK g : g = Tail(f)
  OBVIOUS
<1>3. /\ g \in Seq(Keys \X Nat) /\ Len(g) = Len(f) - 1
      /\ \A i \in 1..Len(g) : g[i] = f[i + 1]
  BY <1>1, <1>2
<1>4. ASSUME NEW i \in 1..Len(g)
      PROVE  /\ g[i][2] \in 1..Len(Bytes(g[i][1]))
             /\ ~IsLast(g[i]) => i < Len(g) /\ g[i + 1] = <<g[i][1], g[i][2] + 1>>
             /\ IsLast(g[i]) /\ i < Len(g) => g[i + 1][2] = 1
  <2>0. PICK n : n = Len(f)
    OBVIOUS
  <2>a. n \in Nat \ {0} /\ Len(g) = n - 1 /\ i \in 1..(n - 1)
    BY ONLY <1>1, <1>3, <2>0, i \in 1..Len(g)
  <2>b. i + 1 \in 1..n /\ (i < n - 1 <=> i + 1 < n)
    BY ONLY <2>a
  <2>1. i + 1 \in 1..Len(f) /\ g[i] = f[i + 1]
    BY ONLY <1>3, <2>0, <2>b, i \in 1..Len(g)
  <2>2. i < Len(g) <=> i + 1 < Len(f)
    BY ONLY <2>0, <2>a, <2>b
  <2>3. i < Len(g) => g[i + 1] = f[(i + 1) + 1]
    <3>1. i < Len(g) => i + 1 \in 1..Len(g)
      BY <1>1, <1>3
    <3>. QED
      BY ONLY <1>3, <3>1
  <2>4. /\ f[i + 1][2] \in 1..Len(Bytes(f[i + 1][1]))
        /\ ~IsLast(f[i + 1]) => i + 1 < Len(f) /\ f[(i + 1) + 1] = <<f[i + 1][1], f[i + 1][2] + 1>>
        /\ IsLast(f[i + 1]) /\ i + 1 < Len(f) => f[(i + 1) + 1][2] = 1
    BY <2>1 DEF Whole
  <2>. QED
    BY <2>1, <2>2, <2>3, <2>4
<1>5. Whole(g)
  BY <1>3, <1>4 DEF Whole
<1>. QED
  BY <1>1, <1>2, <1>3, <1>5

\* The bytes, when those of another key have been added.
LEMMA WholeSent ==
  ASSUME NEW f, Whole(f), NEW k \in Keys
  PROVE  /\ Whole(f \o Sent(k))
         /\ Len(f) \in Nat /\ Len(f \o Sent(k)) = Len(f) + Len(Bytes(k))
         /\ \A i \in 1..Len(f) : (f \o Sent(k))[i] = f[i]
         /\ \A i \in 1..Len(Bytes(k)) : (f \o Sent(k))[Len(f) + i] = <<k, i>>
<1>1. f \in Seq(Keys \X Nat) /\ Len(f) \in Nat
  BY DEF Whole
<1>2. PICK n : n = Len(Bytes(k))
  OBVIOUS
<1>3. n \in Nat \ {0}
  BY <1>2, KeyBytes
<1>4. DOMAIN Bytes(k) = 1..n
  <2>1. CASE k \in Char
    <3>1. Bytes(k) = <<k>>
      BY <2>1, BytesOf
    <3>. QED
      BY <1>2, <3>1
  <2>2. CASE k \in {"up", "down", "left", "right"}
    <3>1. \E c : Bytes(k) = <<"ESC", "[", c>>
      BY <2>2, BytesOf
    <3>. QED
      BY <1>2, <3>1
  <2>3. CASE k \in Others
    <3>1. \/ Bytes(k) = <<"ESC", "[", "3", "~">>
          \/ Bytes(k) = <<"CR">>
          \/ Bytes(k) = <<"DEL">>
      BY <2>3, BytesOf DEF Others
    <3>. QED
      BY <1>2, <3>1
  <2>. QED
    BY <2>1, <2>2, <2>3, KeyBytes DEF Arrows
<1>5. Sent(k) = [i \in 1..n |-> <<k, i>>]
  BY <1>4 DEF Sent
<1>6. Sent(k) \in Seq(Keys \X Nat) /\ Len(Sent(k)) = n
  BY <1>3, <1>5
<1>7. PICK g : g = f \o Sent(k)
  OBVIOUS
<1>8. /\ g \in Seq(Keys \X Nat) /\ Len(g) = Len(f) + n
      /\ \A i \in 1..Len(f) : g[i] = f[i]
      /\ \A i \in (Len(f) + 1)..(Len(f) + n) : g[i] = <<k, i - Len(f)>>
  BY <1>1, <1>3, <1>5, <1>6, <1>7
<1>9. ASSUME NEW i \in 1..Len(g)
      PROVE  /\ g[i][2] \in 1..Len(Bytes(g[i][1]))
             /\ ~IsLast(g[i]) => i < Len(g) /\ g[i + 1] = <<g[i][1], g[i][2] + 1>>
             /\ IsLast(g[i]) /\ i < Len(g) => g[i + 1][2] = 1
  <2>1. CASE i \in 1..Len(f) /\ i < Len(f)
    <3>1. g[i] = f[i] /\ g[i + 1] = f[i + 1] /\ i < Len(g)
      <4>1. i + 1 \in 1..Len(f) /\ i < Len(f) + n
        BY <1>1, <1>3, <2>1
      <4>. QED
        BY ONLY <1>8, <2>1, <4>1
    <3>. QED
      BY <2>1, <3>1 DEF Whole
  <2>2. CASE i = Len(f)
    <3>1. i \in 1..Len(f) /\ g[i] = f[i] /\ i < Len(g)
      BY <1>1, <1>3, <1>8, <2>2
    <3>2. IsLast(f[i]) /\ f[i][2] \in 1..Len(Bytes(f[i][1]))
      BY <2>2, <3>1 DEF Whole
    <3>3. g[i + 1] = <<k, 1>>
      <4>1. i + 1 \in (Len(f) + 1)..(Len(f) + n) /\ (i + 1) - Len(f) = 1
        BY <1>1, <1>3, <2>2
      <4>2. g[i + 1] = <<k, (i + 1) - Len(f)>>
        BY ONLY <1>8, <4>1
      <4>. QED
        BY <4>1, <4>2
    <3>. QED
      BY <3>1, <3>2, <3>3
  <2>3. CASE i \in (Len(f) + 1)..(Len(f) + n)
    <3>1. g[i] = <<k, i - Len(f)>> /\ i - Len(f) \in 1..n
      BY <1>1, <1>3, <1>8, <2>3
    <3>2. IsLast(g[i]) <=> i = Len(f) + n
      <4>1. IsLast(g[i]) <=> i - Len(f) = n
        BY <1>2, <3>1 DEF IsLast
      <4>. QED
        BY <1>1, <1>3, <2>3, <4>1
    <3>3. i < Len(f) + n => g[i + 1] = <<k, (i + 1) - Len(f)>> /\ (i + 1) - Len(f) = (i - Len(f)) + 1
      <4>1. i < Len(f) + n => i + 1 \in (Len(f) + 1)..(Len(f) + n)
        BY <1>1, <1>3, <2>3
      <4>2. (i + 1) - Len(f) = (i - Len(f)) + 1
        BY <1>1, <2>3
      <4>. QED
        BY ONLY <1>8, <4>1, <4>2
    <3>. QED
      BY <1>2, <1>3, <1>8, <2>3, <3>1, <3>2, <3>3
  <2>4. \/ i \in 1..Len(f) /\ i < Len(f)
        \/ i = Len(f)
        \/ i \in (Len(f) + 1)..(Len(f) + n)
    <3>1. i \in 1..(Len(f) + n)
      BY <1>8
    <3>. QED
      BY ONLY <1>1, <1>3, <3>1
  <2>. QED
    BY <2>1, <2>2, <2>3, <2>4
<1>10. Whole(g)
  BY <1>8, <1>9 DEF Whole
<1>11. \A i \in 1..n : g[Len(f) + i] = <<k, i>>
  <2> TAKE i \in 1..n
  <2>1. Len(f) + i \in (Len(f) + 1)..(Len(f) + n) /\ (Len(f) + i) - Len(f) = i
    BY <1>1, <1>3
  <2>2. g[Len(f) + i] = <<k, (Len(f) + i) - Len(f)>>
    BY ONLY <1>8, <2>1
  <2>. QED
    BY <2>1, <2>2
<1>. QED
  BY <1>1, <1>2, <1>7, <1>8, <1>10, <1>11

\* What reading the last byte of key k does.
KeyDone(k) ==
  \/ k \in Char /\ insert(k)
  \/ k = "backspace" /\ backspace
  \/ k = "enter" /\ Within("stop")
  \/ k = "delete" /\ delete
  \/ k = "up" /\ up
  \/ k = "down" /\ down
  \/ k = "left" /\ left
  \/ k = "right" /\ right

\* The place serial_poll goes to behind the first bytes of an escape sequence.
Deeper == [poll |-> "esc", esc |-> "bracket", bracket |-> "three"]

\* When keys arrive whole, each byte is taken as a part of the key it is a part of.
LEMMA KeyRead ==
  ASSUME BytesInv, Poll
  PROVE  /\ fifo # << >> /\ fifo' = Tail(fifo) /\ wire' = << >>
         /\ fifo[1][1] \in Keys /\ fifo[1][2] = Place[pc]
         /\ pc \in {"poll", "esc", "bracket", "three"}
         /\ IsLast(fifo[1]) => KeyDone(fifo[1][1])
         /\ ~IsLast(fifo[1]) => /\ IsEsc(fifo[1][1]) /\ pc \in DOMAIN Deeper /\ Within(Deeper[pc])
                                /\ pc = "bracket" => fifo[1][1] = "delete"
<1>1. pc \in {"poll", "esc", "bracket", "three"} /\ (pc = "poll" => fifo # << >>) /\ Read
  BY DEF Poll, PollByte, EscByte, BracketByte, ThreeByte
<1>2. fifo # << >> /\ fifo \in Seq(Keys \X Nat) /\ Len(fifo) \in Nat \ {0}
  BY <1>1 DEF BytesInv, Place, Whole
<1>3. PICK k, p : fifo[1] = <<k, p>> /\ k \in Keys
  BY <1>2
<1>4. fifo[1][1] = k /\ fifo[1][2] = p /\ p = Place[pc]
  BY <1>2, <1>3 DEF BytesInv
<1>5. inb = Bytes(k)[p]
  BY <1>2, <1>4 DEF inb
<1>6. p \in 1..Len(Bytes(k)) /\ (IsLast(fifo[1]) <=> p = Len(Bytes(k)))
  BY <1>2, <1>4 DEF BytesInv, Whole, IsLast
<1>7. fifo' = Tail(fifo) /\ wire' = << >>
  BY <1>1, <1>2 DEF Read, BytesInv
<1>8. CASE pc = "poll"
  <2>1. p = 1 /\ PollByte
    BY <1>4, <1>8 DEF Place, Poll, PollByte, EscByte, BracketByte, ThreeByte
  <2>2. CASE IsEsc(k)
    <3>1. inb = "ESC" /\ Len(Bytes(k)) \in {3, 4}
      BY <1>3, <1>5, <2>1, <2>2, KeyBytes DEF IsEsc
    <3>2. Within("esc")
      BY <2>1, <3>1 DEF PollByte
    <3>3. ~IsLast(fifo[1])
      BY <1>6, <2>1, <3>1
    <3>4. pc \in DOMAIN Deeper /\ Deeper[pc] = "esc"
      BY <1>8 DEF Deeper
    <3>. QED
      BY <1>1, <1>2, <1>3, <1>4, <1>7, <1>8, <2>2, <3>2, <3>3, <3>4
  <2>3. CASE ~IsEsc(k)
    <3>1. IsLast(fifo[1]) /\ inb # "ESC" /\ k \in Char \cup {"enter", "backspace"}
      BY <1>3, <1>5, <1>6, <2>1, <2>3, KeyBytes DEF IsEsc, Others
    <3>2. CASE k \in Char
      <4>1. inb = k /\ k \notin {"ESC", "CR", "DEL"}
        BY <1>5, <2>1, <3>2, BytesOf
      <4>2. insert(k)
        BY <2>1, <4>1 DEF PollByte
      <4>. QED
        BY <1>1, <1>2, <1>3, <1>4, <1>7, <3>1, <3>2, <4>2 DEF KeyDone
    <3>3. CASE k = "enter"
      <4>1. inb = "CR"
        BY <1>5, <2>1, <3>3, BytesOf
      <4>2. Within("stop")
        BY <2>1, <4>1 DEF PollByte
      <4>. QED
        BY <1>1, <1>2, <1>3, <1>4, <1>7, <3>1, <3>3, <4>2 DEF KeyDone
    <3>4. CASE k = "backspace"
      <4>1. inb = "DEL"
        BY <1>5, <2>1, <3>4, BytesOf
      <4>2. backspace
        BY <2>1, <4>1 DEF PollByte
      <4>. QED
        BY <1>1, <1>2, <1>3, <1>4, <1>7, <3>1, <3>4, <4>2 DEF KeyDone
    <3>. QED
      BY <3>1, <3>2, <3>3, <3>4
  <2>. QED
    BY <2>2, <2>3
<1>9. CASE pc = "esc"
  <2>1. p = 2 /\ EscByte
    BY <1>4, <1>9 DEF Place, Poll, PollByte, EscByte, BracketByte, ThreeByte
  <2>2. IsEsc(k) /\ Len(Bytes(k)) \in {3, 4} /\ inb = "["
    BY <1>3, <1>5, <1>6, <2>1, KeyBytes DEF IsEsc
  <2>3. Within("bracket")
    BY <2>1, <2>2 DEF EscByte
  <2>4. ~IsLast(fifo[1])
    BY <1>6, <2>1, <2>2
  <2>5. pc \in DOMAIN Deeper /\ Deeper[pc] = "bracket"
    BY <1>9 DEF Deeper
  <2>. QED
    BY <1>1, <1>2, <1>3, <1>4, <1>7, <1>9, <2>2, <2>3, <2>4, <2>5
<1>10. CASE pc = "bracket"
  <2>1. p = 3 /\ BracketByte
    BY <1>4, <1>10 DEF Place, Poll, PollByte, EscByte, BracketByte, ThreeByte
  <2>2. IsEsc(k)
    <3>1. ~IsEsc(k) => Len(Bytes(k)) = 1
      BY <1>3, KeyBytes
    <3>. QED
      BY <1>6, <2>1, <3>1
  <2>3. CASE k = "delete"
    <3>1. ~IsLast(fifo[1]) /\ inb = "3"
      <4>1. Bytes(k) = <<"ESC", "[", "3", "~">>
        BY <2>3, BytesOf
      <4>2. Len(Bytes(k)) = 4 /\ Bytes(k)[3] = "3"
        BY <4>1
      <4>. QED
        BY <1>5, <1>6, <2>1, <4>2
    <3>2. Within("three")
      BY <2>1, <3>1 DEF BracketByte
    <3>. QED
      BY <1>1, <1>2, <1>3, <1>4, <1>7, <1>10, <2>2, <2>3, <3>1, <3>2 DEF Deeper
  <2>4. CASE k \in Arrows
    <3>1. IsLast(fifo[1])
      BY <1>3, <1>6, <2>1, <2>4, KeyBytes
    <3>2. /\ k = "up" => inb = "A"
          /\ k = "down" => inb = "B"
          /\ k = "right" => inb = "C"
          /\ k = "left" => inb = "D"
      BY <1>5, <2>1, BytesOf
    <3>3. (k = "up" => up) /\ (k = "down" => down) /\ (k = "left" => left) /\ (k = "right" => right)
      BY <2>1, <3>2 DEF BracketByte
    <3>4. KeyDone(k)
      BY <2>4, <3>3 DEF KeyDone, Arrows
    <3>. QED
      BY <1>1, <1>2, <1>3, <1>4, <1>7, <3>1, <3>4
  <2>. QED
    BY <2>2, <2>3, <2>4 DEF IsEsc
<1>11. CASE pc = "three"
  <2>1. p = 4 /\ ThreeByte
    BY <1>4, <1>11 DEF Place, Poll, PollByte, EscByte, BracketByte, ThreeByte
  <2>2. k = "delete" /\ IsLast(fifo[1])
    <3>1. /\ ~IsEsc(k) => Len(Bytes(k)) = 1
          /\ k \in Arrows => Len(Bytes(k)) = 3
          /\ k = "delete" => Len(Bytes(k)) = 4
      BY <1>3, KeyBytes
    <3>2. k = "delete"
      <4>0. PICK n \in Nat : n = Len(Bytes(k)) /\ 4 \in 1..n
        BY <1>3, <1>6, <2>1, KeyBytes
      <4>1. n # 1 /\ n # 3
        BY ONLY <4>0
      <4>2. IsEsc(k)
        BY <3>1, <4>0, <4>1
      <4>3. k \notin Arrows
        BY <3>1, <4>0, <4>1
      <4>. QED
        BY <4>2, <4>3 DEF IsEsc
    <3>. QED
      BY <1>6, <2>1, <3>1, <3>2
  <2>3. inb = "~"
    BY <1>5, <2>1, <2>2, BytesOf
  <2>4. delete
    BY <2>1, <2>3 DEF ThreeByte
  <2>. QED
    BY <1>1, <1>2, <1>3, <1>4, <1>7, <2>2, <2>4 DEF KeyDone
<1>. QED
  BY <1>1, <1>8, <1>9, <1>10, <1>11

-----------------------------------------------------------------------------

(***************************************************************************)
(* The cursor.                                                             *)
(***************************************************************************)

CursorAt == ed.bufferCount \in Nat /\ ed.index \in 0..ed.bufferCount

PromptInv ==
  terminal = "prompt" =>
    /\ BytesInv
    /\ CursorAt
    /\ \A n \in DOMAIN node : node[n].bufferSize \in Nat

\* Redrawing a line with its cursor in it.
LEMMA RedrawCursor ==
  ASSUME NEW e \in EdType, e.bufferCount \in Nat, e.tempIndex \in 0..e.bufferCount, Redraw(e)
  PROVE  CursorAt' /\ pc' \in {"poll", "stop"} /\ UNCHANGED <<terminal, history>>
<1>1. e.tempIndex # Undefined
  BY SerialPollAssumption
<1>2. /\ ed'.bufferCount = e.bufferCount /\ ed'.index = e.tempIndex
      /\ pc' \in {"poll", "stop"} /\ UNCHANGED <<dest, terminal, history>>
  BY <1>1, Redrawn
<1>. QED
  BY <1>2 DEF CursorAt

\* Assigning the length of the line and the cursor.
SetLine(e, c, i) == [e EXCEPT !.bufferCount = c, !.tempIndex = i]
ClearLine(e, c, i) == [e EXCEPT !.currBuffer = NULL, !.tempIndex = i, !.bufferCount = c]

LEMMA LineSet ==
  ASSUME NEW e \in EdType, NEW c \in Int, NEW i \in Int
  PROVE  /\ SetLine(e, c, i) \in EdType /\ SetLine(e, c, i).bufferCount = c
         /\ SetLine(e, c, i).tempIndex = i /\ SetLine(e, c, i).buffer = e.buffer
  BY DEF EdType, SetLine

LEMMA LineCleared ==
  ASSUME NEW e \in EdType, NEW c \in Int, NEW i \in Int
  PROVE  /\ ClearLine(e, c, i) \in EdType
         /\ ClearLine(e, c, i).bufferCount = c /\ ClearLine(e, c, i).tempIndex = i
  BY DEF EdType, ClearLine

\* A key leaves the cursor in the line.
LEMMA KeyDoneCursor ==
  ASSUME HistoryInv, pc # "caller", CursorAt,
         \A n \in DOMAIN node : node[n].bufferSize \in Nat,
         NEW k, KeyDone(k), k \in Arrows => ed.tempIndex # Undefined
  PROVE  CursorAt' /\ pc' \in {"poll", "stop"} /\ UNCHANGED <<terminal, history>>
<1> DEFINE Goal == CursorAt' /\ pc' \in {"poll", "stop"} /\ UNCHANGED <<terminal, history>>
<1>1. ed \in EdType /\ ed.bufferCount \in Nat /\ ed.index \in 0..ed.bufferCount
  BY DEF HistoryInv, Edits, CursorAt
<1>2. ASSUME NEW i, NEW c, c \in Nat, i \in 0..c,
             Redraw([ed EXCEPT !.bufferCount = c, !.tempIndex = i])
      PROVE  Goal
  <2>1. PICK e : e = SetLine(ed, c, i) /\ Redraw(e)
    BY <1>2 DEF SetLine
  <2>2. e \in EdType /\ e.bufferCount = c /\ e.tempIndex = i
    <3>1. c \in Int /\ i \in Int
      BY <1>2
    <3>. QED
      BY <1>1, <2>1, <3>1, LineSet
  <2>. QED
    BY <1>2, <2>1, <2>2, RedrawCursor
<1>3. ASSUME NEW i, i \in 0..ed.bufferCount, Redraw([ed EXCEPT !.tempIndex = i])
      PROVE  Goal
  <2>1. PICK e : e = [ed EXCEPT !.tempIndex = i]
    OBVIOUS
  <2>2. e \in EdType /\ e.bufferCount = ed.bufferCount /\ e.tempIndex = i
    BY <1>1, <1>3, <2>1 DEF EdType
  <2>. QED
    BY <1>1, <1>3, <2>1, <2>2, RedrawCursor
<1>4. ASSUME NEW n \in DOMAIN node, Recall(n) PROVE Goal
  <2>1. PICK e : e = [ed EXCEPT !.buffer = node[n].bufferText, !.bufferCount = node[n].bufferSize,
                                !.tempIndex = node[n].bufferSize, !.currBuffer = n]
    OBVIOUS
  <2>2. node[n] \in NodeType /\ n \in Node /\ node[n].bufferSize \in Nat
    BY NodeFacts
  <2>3. e \in EdType /\ e.bufferCount = node[n].bufferSize /\ e.tempIndex = node[n].bufferSize
    BY <1>1, <2>1, <2>2 DEF EdType, NodeType
  <2>4. Redraw(e)
    BY <1>4, <2>1 DEF Recall
  <2>. QED
    BY <2>2, <2>3, <2>4, RedrawCursor
<1>5. ASSUME k \in Arrows, Ignored PROVE Goal
  <2>1. ed.tempIndex = ed.index
    BY <1>5 DEF HistoryInv, Edits
  <2>2. Redraw(ed)
    BY <1>5 DEF Ignored
  <2>. QED
    BY <1>1, <2>1, <2>2, RedrawCursor
<1>6. ASSUME NEW i \in 0..ed.bufferCount, i < ed.bufferCount, remove(i) PROVE Goal
  <2>1. Redraw([ed EXCEPT !.bufferCount = ed.bufferCount - 1, !.tempIndex = i])
    BY <1>6 DEF remove
  <2>2. ed.bufferCount - 1 \in Nat /\ i \in 0..(ed.bufferCount - 1)
    BY <1>1, <1>6
  <2>. QED
    BY <1>2, <2>1, <2>2
<1> HIDE DEF Goal
<1>7. CASE k \in Char /\ insert(k)
  <2>1. Redraw([ed EXCEPT !.bufferCount = ed.bufferCount + 1, !.tempIndex = ed.index + 1])
    BY <1>7 DEF insert
  <2>2. ed.bufferCount + 1 \in Nat /\ ed.index + 1 \in 0..(ed.bufferCount + 1)
    BY <1>1
  <2>. QED
    BY <1>2, <2>1, <2>2 DEF Goal
<1>8. CASE k = "backspace" /\ backspace
  <2>1. CASE ed.index > 0
    <3>1. remove(ed.index - 1)
      BY <1>8, <2>1 DEF backspace
    <3>2. ed.index - 1 \in 0..ed.bufferCount /\ ed.index - 1 < ed.bufferCount
      BY <1>1, <2>1
    <3>. QED
      BY <1>6, <3>1, <3>2 DEF Goal
  <2>2. CASE ~(ed.index > 0)
    <3>1. Redraw([ed EXCEPT !.tempIndex = 0])
      BY <1>8, <2>2 DEF backspace
    <3>2. 0 \in 0..ed.bufferCount
      BY <1>1
    <3>. QED
      BY <1>3, <3>1, <3>2 DEF Goal
  <2>. QED
    BY <2>1, <2>2
<1>9. CASE k = "delete" /\ delete
  <2>1. CASE ed.index < ed.bufferCount
    BY <1>1, <1>6, <1>9, <2>1 DEF delete, Goal
  <2>2. CASE ~(ed.index < ed.bufferCount)
    BY <1>1, <1>3, <1>9, <2>2 DEF delete, Goal
  <2>. QED
    BY <2>1, <2>2
<1>10. CASE k = "enter" /\ Within("stop")
  BY <1>10 DEF Within, CursorAt, Goal
<1>11. CASE k = "up" /\ up
  <2>1. PICK older \in DOMAIN node \cup {NULL} : IF older = NULL THEN Ignored ELSE Recall(older)
    BY <1>11, NodeFacts DEF up, HistoryInv, Recalled
  <2>. QED
    BY <1>4, <1>5, <1>11, <2>1 DEF Goal, Arrows
<1>12. CASE k = "down" /\ down
  <2>1. CASE ed.currBuffer = NULL
    BY <1>5, <1>12, <2>1 DEF down, Goal, Arrows
  <2>2. CASE ed.currBuffer # NULL /\ node[ed.currBuffer].prevBuffer # NULL
    <3>1. node[ed.currBuffer].prevBuffer \in DOMAIN node
      BY <2>2, NodeFacts DEF HistoryInv, Recalled
    <3>2. Recall(node[ed.currBuffer].prevBuffer)
      BY <1>12, <2>2 DEF down
    <3>. QED
      BY <1>4, <3>1, <3>2 DEF Goal
  <2>3. CASE ed.currBuffer # NULL /\ node[ed.currBuffer].prevBuffer = NULL
    <3>1. PICK e : e = ClearLine(ed, 0, 0)
      OBVIOUS
    <3>2. Redraw(e)
      BY <1>12, <2>3, <3>1 DEF down, ClearLine
    <3>3. e \in EdType /\ e.bufferCount = 0 /\ e.tempIndex = 0
      <4>1. 0 \in Int
        OBVIOUS
      <4>. QED
        BY <1>1, <3>1, <4>1, LineCleared
    <3>. QED
      BY <3>2, <3>3, RedrawCursor DEF Goal
  <2>. QED
    BY <2>1, <2>2, <2>3
<1>13. CASE k = "left" /\ left
  <2>1. CASE ed.index = 0
    BY <1>5, <1>13, <2>1 DEF left, Goal, Arrows
  <2>2. CASE ed.index # 0
    <3>1. ed.tempIndex = ed.index
      BY <2>2 DEF HistoryInv, Edits
    <3>2. Redraw([ed EXCEPT !.tempIndex = ed.index - 1]) /\ ed.index - 1 \in 0..ed.bufferCount
      BY <1>1, <1>13, <2>2, <3>1 DEF left
    <3>. QED
      BY <1>3, <3>2 DEF Goal
  <2>. QED
    BY <2>1, <2>2
<1>14. CASE k = "right" /\ right
  <2>1. CASE ed.index = ed.bufferCount
    BY <1>5, <1>14, <2>1 DEF right, Goal, Arrows
  <2>2. CASE ed.index # ed.bufferCount
    <3>1. ed.tempIndex = ed.index
      BY <2>2 DEF HistoryInv, Edits
    <3>2. Redraw([ed EXCEPT !.tempIndex = ed.index + 1]) /\ ed.index + 1 \in 0..ed.bufferCount
      BY <1>1, <1>14, <2>2, <3>1 DEF right
    <3>. QED
      BY <1>3, <3>2 DEF Goal
  <2>. QED
    BY <2>1, <2>2
<1>. QED
  BY <1>7, <1>8, <1>9, <1>10, <1>11, <1>12, <1>13, <1>14 DEF KeyDone

\* A byte leaves the bytes of whole keys.
LEMMA PollBytes ==
  ASSUME HistoryInv, BytesInv, CursorAt, Poll,
         \A n \in DOMAIN node : node[n].bufferSize \in Nat
  PROVE  BytesInv' /\ CursorAt' /\ UNCHANGED <<terminal, history>>
<1>1. /\ fifo # << >> /\ fifo' = Tail(fifo) /\ wire' = << >>
      /\ fifo[1][1] \in Keys /\ fifo[1][2] = Place[pc]
      /\ pc \in {"poll", "esc", "bracket", "three"}
      /\ IsLast(fifo[1]) => KeyDone(fifo[1][1])
      /\ ~IsLast(fifo[1]) => /\ IsEsc(fifo[1][1]) /\ pc \in DOMAIN Deeper /\ Within(Deeper[pc])
                             /\ pc = "bracket" => fifo[1][1] = "delete"
  BY KeyRead
<1>2. /\ Whole(fifo') /\ Len(fifo') = Len(fifo) - 1
      /\ \A i \in 1..Len(fifo') : fifo'[i] = fifo[i + 1]
      /\ Len(fifo) \in Nat \ {0} /\ 1 \in 1..Len(fifo)
  <2>1. Whole(fifo)
    BY DEF BytesInv
  <2>. QED
    BY <1>1, <2>1, WholeTail
<1>3. PICK k : k = fifo[1][1]
  OBVIOUS
<1>4. k \in Arrows => ed.tempIndex # Undefined
  BY <1>2, <1>3 DEF BytesInv
<1>5. /\ ~IsLast(fifo[1]) => 1 < Len(fifo) /\ fifo[2] = <<k, Place[pc] + 1>>
      /\ IsLast(fifo[1]) /\ 1 < Len(fifo) => fifo[2][2] = 1
      /\ IsLast(fifo[1]) <=> Place[pc] = Len(Bytes(k))
  BY <1>1, <1>2, <1>3 DEF BytesInv, Whole, IsLast
<1>6. fifo' # << >> <=> 1 < Len(fifo)
  BY <1>2 DEF Whole
<1>7. fifo' # << >> => fifo'[1] = fifo[2]
  BY <1>2, <1>6
<1>8. \A i \in 1..Len(fifo') : fifo'[i][1] \in Arrows => k \in Arrows /\ (i + 1) + Place[pc] <= 4
  <2> TAKE i \in 1..Len(fifo')
  <2>1. i + 1 \in 1..Len(fifo) /\ fifo'[i] = fifo[i + 1]
    BY <1>2
  <2>. QED
    BY <1>1, <1>3, <2>1 DEF BytesInv
<1>9. CASE IsLast(fifo[1])
  <2>1. CursorAt' /\ pc' \in {"poll", "stop"} /\ UNCHANGED <<terminal, history>>
    <3>1. KeyDone(k) /\ pc # "caller"
      BY <1>1, <1>3, <1>9
    <3>. QED
      BY <1>4, <3>1, KeyDoneCursor
  <2>2. pc' \in DOMAIN Place /\ Place[pc'] = 1
    BY <2>1 DEF Place
  <2>3. \A i \in 1..Len(fifo') : fifo'[i][1] \notin Arrows
    <3>1. k \in Arrows => Place[pc] = 3
      BY <1>1, <1>3, <1>5, <1>9, KeyBytes
    <3>. QED
      BY <1>2, <1>8, <3>1
  <2>4. fifo' # << >> => fifo'[1][2] = 1
    BY <1>5, <1>6, <1>7, <1>9
  <2>5. BytesInv'
    BY <1>1, <1>2, <2>2, <2>3, <2>4 DEF BytesInv
  <2>. QED
    BY <2>1, <2>5
<1>10. CASE ~IsLast(fifo[1])
  <2>1. pc' = Deeper[pc] /\ UNCHANGED <<mem, dest, ed, terminal, history>> /\ pc \in {"poll", "esc", "bracket"}
    BY <1>1, <1>10 DEF Within, Deeper
  <2>2. CursorAt'
    BY <2>1 DEF CursorAt
  <2>3. pc' \in DOMAIN Place /\ Place[pc'] = Place[pc] + 1 /\ Place[pc] \in {1, 2, 3}
    BY <2>1 DEF Place, Deeper
  <2>4. fifo' # << >> /\ fifo'[1] = <<k, Place[pc']>>
    BY <1>5, <1>6, <1>7, <1>10, <2>3
  <2>5. k \in Arrows => pc' \in {"esc", "bracket"}
    <3>1. k \in Arrows => pc # "bracket"
      BY <1>1, <1>3, <1>10 DEF Arrows
    <3>. QED
      BY <2>1, <3>1 DEF Deeper
  <2>6. \A i \in 1..Len(fifo') : fifo'[i][1] \in Arrows => i + Place[pc'] <= 4
    BY <1>2, <1>8, <2>3
  <2>7. ed' = ed
    BY <2>1
  <2>8. \A i \in 1..Len(fifo') : fifo'[i][1] \in Arrows =>
          /\ pc' \in {"poll", "esc", "bracket"} /\ ed'.tempIndex # Undefined
          /\ fifo'[1][1] \in Arrows /\ i + fifo'[1][2] <= 4
    BY <1>4, <1>8, <2>4, <2>5, <2>6, <2>7
  <2>9. BytesInv'
    BY <1>1, <1>2, <2>3, <2>4, <2>8 DEF BytesInv
  <2>. QED
    BY <2>1, <2>2, <2>9
<1>. QED
  BY <1>9, <1>10

\* At the start nothing has been pressed.
LEMMA PromptInit == Init => PromptInv
<1> SUFFICES ASSUME Init PROVE PromptInv
  OBVIOUS
<1>1. Whole(<< >>)
  BY DEF Whole
<1>2. BytesInv
  BY <1>1 DEF Init, BytesInv, Place
<1>. QED
  BY <1>2 DEF Init, PromptInv, CursorAt, Fresh

\* A key is pressed: behind those that have not been read, or an arrow at
\* the prompt of a line with a cursor.
LEMMA PressBytes ==
  ASSUME BytesInv, terminal = "prompt", NEW k \in Keys, Press(k)
  PROVE  BytesInv' /\ UNCHANGED <<mem, dest, ed, pc, terminal, history>>
<1>1. /\ fifo' = fifo \o Sent(k) /\ wire' = << >> /\ UNCHANGED <<mem, dest, ed, pc, terminal, history>>
      /\ k \in Arrows => pc = "poll" /\ fifo \o wire = << >> /\ ed.tempIndex # Undefined
  BY DEF Press, BytesInv
<1>2. PICK n : n = Len(Bytes(k))
  OBVIOUS
<1>3. /\ Whole(fifo') /\ Len(fifo) \in Nat /\ Len(fifo') = Len(fifo) + n
      /\ \A i \in 1..Len(fifo) : fifo'[i] = fifo[i]
      /\ \A i \in 1..n : fifo'[Len(fifo) + i] = <<k, i>>
  <2>1. Whole(fifo)
    BY DEF BytesInv
  <2>. QED
    BY <1>1, <1>2, <2>1, WholeSent
<1>4. n \in Nat \ {0} /\ (k \in Arrows => n = 3)
  BY <1>2, KeyBytes
<1>5. fifo \in Seq(Keys \X Nat) /\ fifo' \in Seq(Keys \X Nat) /\ fifo' # << >>
  BY <1>3, <1>4 DEF BytesInv, Whole
<1>6. k \in Arrows => fifo = << >> /\ Len(fifo) = 0
  BY <1>1, <1>5 DEF BytesInv
<1>7. fifo'[1][2] = Place[pc]
  <2>1. CASE fifo = << >>
    <3>1. Len(fifo) = 0 /\ 1 \in 1..n
      BY <1>4, <2>1
    <3>2. fifo'[Len(fifo) + 1] = <<k, 1>> /\ Len(fifo) + 1 = 1
      BY <1>3, <3>1
    <3>3. Place[pc] = 1
      BY <2>1 DEF BytesInv
    <3>. QED
      BY <3>2, <3>3
  <2>2. CASE fifo # << >>
    <3>1. 1 \in 1..Len(fifo)
      BY <1>3, <1>5, <2>2
    <3>. QED
      BY <1>3, <2>2, <3>1 DEF BytesInv
  <2>. QED
    BY <2>1, <2>2
<1>8. ASSUME NEW i \in 1..Len(fifo'), fifo'[i][1] \in Arrows
      PROVE  /\ pc \in {"poll", "esc", "bracket"} /\ ed.tempIndex # Undefined
             /\ fifo'[1][1] \in Arrows /\ i + fifo'[1][2] <= 4
  <2>1. CASE i \in 1..Len(fifo)
    <3>1. fifo'[i] = fifo[i] /\ fifo'[1] = fifo[1]
      <4>1. 1 \in 1..Len(fifo)
        BY <1>3, <2>1
      <4>. QED
        BY <1>3, <2>1, <4>1
    <3>. QED
      BY <1>8, <2>1, <3>1 DEF BytesInv
  <2>2. CASE i \notin 1..Len(fifo)
    <3>1. i - Len(fifo) \in 1..n /\ Len(fifo) + (i - Len(fifo)) = i
      BY <1>3, <1>4, <2>2
    <3>2. fifo'[Len(fifo) + (i - Len(fifo))] = <<k, i - Len(fifo)>>
      BY ONLY <1>3, <3>1
    <3>3. fifo'[i] = <<k, i - Len(fifo)>>
      BY <3>1, <3>2
    <3>4. k \in Arrows
      BY <1>8, <3>3
    <3>5. Len(fifo) = 0 /\ n = 3 /\ i \in 1..3
      BY <1>4, <1>6, <3>1, <3>4
    <3>6. fifo'[1] = <<k, 1>>
      <4>1. 1 \in 1..n /\ Len(fifo) + 1 = 1
        BY <3>5
      <4>. QED
        BY <1>3, <4>1
    <3>. QED
      BY <1>1, <3>4, <3>5, <3>6
  <2>. QED
    BY <2>1, <2>2
<1>9. BytesInv'
  BY <1>1, <1>3, <1>5, <1>7, <1>8 DEF BytesInv
<1>. QED
  BY <1>1, <1>9

\* Every step keeps the cursor in the line, at the prompt.
LEMMA PromptNext == HistoryInv /\ PromptInv /\ [Next]_vars => PromptInv'
<1> SUFFICES ASSUME HistoryInv, PromptInv, [Next]_vars, (terminal = "prompt")'
             PROVE  PromptInv'
  BY DEF PromptInv
<1>1. terminal' = terminal
  BY BytesKeep
  DEF Next, Press, Arrive, Call, PollByte, EscByte, BracketByte, ThreeByte, Return, vars,
      Within, Ignored, insert, backspace, delete, remove, up, down, left, right, Recall, Redraw
<1>2. terminal = "prompt" /\ BytesInv /\ CursorAt /\ \A n \in DOMAIN node : node[n].bufferSize \in Nat
  BY <1>1 DEF PromptInv
<1>3. ASSUME NEW k \in Keys, Press(k) PROVE PromptInv'
  <2>1. BytesInv' /\ UNCHANGED <<mem, dest, ed, pc, terminal, history>>
    BY <1>2, <1>3, PressBytes
  <2>. QED
    BY <1>2, <2>1 DEF PromptInv, CursorAt, history
<1>4. ASSUME Arrive PROVE PromptInv'
  BY <1>2, <1>4 DEF Arrive, BytesInv
<1>5. ASSUME NEW b \in Buffer, Call(b) PROVE PromptInv'
  <2>1. /\ pc = "caller" /\ pc' = "poll" /\ ed' = Fresh(b)
        /\ UNCHANGED <<fifo, wire, terminal, history>>
    BY <1>5 DEF Call
  <2>2. \A i \in 1..Len(fifo) : fifo[i][1] \notin Arrows
    BY <1>2, <2>1 DEF BytesInv
  <2>3. BytesInv'
    BY <1>2, <2>1, <2>2 DEF BytesInv, Place
  <2>4. CursorAt'
    BY <2>1 DEF CursorAt, Fresh
  <2>. QED
    BY <1>2, <2>1, <2>3, <2>4 DEF PromptInv, history
<1>6. ASSUME Poll PROVE PromptInv'
  <2>1. BytesInv' /\ CursorAt' /\ UNCHANGED <<terminal, history>>
    BY <1>2, <1>6, PollBytes
  <2>. QED
    BY <1>2, <2>1 DEF PromptInv, history
<1>7. ASSUME Return PROVE PromptInv'
  <2>1. pc = "stop" /\ pc' = "caller" /\ UNCHANGED <<mem, dest, ed, fifo, wire, terminal>>
    BY <1>7 DEF Return
  <2>2. \A i \in 1..Len(fifo) : fifo[i][1] \notin Arrows
    BY <1>2, <2>1 DEF BytesInv
  <2>3. BytesInv' /\ CursorAt'
    BY <1>2, <2>1, <2>2 DEF BytesInv, Place, CursorAt
  <2>4. PICK s : Remembers(s)
    BY DEF HistoryInv
  <2>5. PICK n : n = sys_alloc_mem /\ Added(n, s)
    BY <1>7, <2>4, ReturnAdds
  <2>6. ASSUME NEW x \in DOMAIN node' PROVE node'[x].bufferSize \in Nat
    <3>1. CASE x = n
      BY <1>2, <2>5, <3>1 DEF Added, CursorAt
    <3>2. CASE x # n
      <4>1. PICK i \in 1..Kept(s) : s[i] = x
        BY <2>5, <3>2 DEF Added
      <4>2. node'[x].bufferSize = node[x].bufferSize
        <5>1. PICK next, prev : node'[s[i]] = Links(node[s[i]], next, prev)
          BY <2>5, <4>1 DEF Added
        <5>. QED
          BY <4>1, <5>1 DEF Links
      <4>3. x \in DOMAIN node
        <5>1. Len(s) \in Nat /\ Kept(s) <= Len(s) /\ Kept(s) \in Nat
          BY <2>4, SerialPollAssumption DEF Remembers, Kept
        <5>. QED
          BY <2>4, <4>1, <5>1 DEF Remembers
      <4>. QED
        BY <1>2, <4>2, <4>3
    <3>. QED
      BY <3>1, <3>2
  <2>. QED
    BY <2>3, <2>6 DEF PromptInv
<1>8. ASSUME UNCHANGED vars PROVE PromptInv'
  BY <1>2, <1>8 DEF PromptInv, BytesInv, CursorAt, vars
<1>. QED
  BY <1>3, <1>4, <1>5, <1>6, <1>7, <1>8 DEF Next, Poll

\* At a terminal that sends keys whole, and in a line that does not begin with
\* an arrow key, the cursor never leaves the line: whatever is typed, deleted or recalled.
THEOREM CursorSafe == Spec => []CursorInLine
<1>1. Init => HistoryInv /\ PromptInv
  BY HistoryInit, PromptInit
<1>2. HistoryInv /\ PromptInv /\ [Next]_vars => HistoryInv' /\ PromptInv'
  BY HistoryNext, PromptNext
<1>3. HistoryInv /\ PromptInv => CursorInLine
  BY DEF PromptInv, CursorAt, CursorInLine
<1>. QED
  BY <1>1, <1>2, <1>3, PTL DEF Spec

-----------------------------------------------------------------------------

(***************************************************************************)
(* The line in its buffer.                                                 *)
(***************************************************************************)

RowType == [0..(Extent - 1) -> Char \cup {NUL, Junk}]

\* The buffer has a line of n characters, and NULs from there to its end.
Row(row, n) ==
  /\ row \in RowType
  /\ n \in 0..Capacity
  /\ \A i \in 0..(n - 1) : row[i] \in Char
  /\ \A i \in n..Capacity : row[i] = NUL

LineOf(row, n) == [i \in 1..n |-> row[i - 1]]

\* What insert and remove do to the buffer with a line of n characters.
Inserted(row, p, c, n) ==
  [j \in DOMAIN row |-> IF j = p THEN c
                        ELSE IF p < j /\ j < n + 1 THEN row[j - 1] ELSE row[j]]
Removed(row, i, n) ==
  [j \in DOMAIN row |-> IF i <= j /\ j < n THEN row[j + 1]
                        ELSE IF j = n THEN NUL ELSE row[j]]

\* A buffer is long enough for the line and a NUL behind it.
LEMMA RowFits ==
  ASSUME EditOnly, NEW b \in Buffer
  PROVE  /\ Capacity \in Nat \ {0} /\ Extent \in Nat /\ Capacity < Extent
         /\ Size[b] = Capacity + 1
  BY SerialPollAssumption DEF EditOnly

\* A line is a sequence of characters.
LEMMA RowLine ==
  ASSUME NEW row, NEW n, Row(row, n), Capacity \in Nat
  PROVE  /\ n \in Nat /\ LineOf(row, n) \in Seq(Char) /\ Len(LineOf(row, n)) = n
         /\ \A i \in 1..n : LineOf(row, n)[i] = row[i - 1]
<1>1. n \in Nat
  BY DEF Row
<1>2. \A i \in 1..n : row[i - 1] \in Char
  BY <1>1 DEF Row
<1>. QED
  BY <1>1, <1>2 DEF LineOf

\* Shifting to the right inserts the character at its place in the line.
LEMMA RowInserted ==
  ASSUME NEW row, NEW n, Row(row, n), NEW p \in 0..n, NEW c \in Char,
         Capacity \in Nat, Extent \in Nat, Capacity < Extent, n < Capacity
  PROVE  /\ Row(Inserted(row, p, c, n), n + 1)
         /\ LineOf(Inserted(row, p, c, n), n + 1) = InsertAt(LineOf(row, n), p + 1, c)
<1>1. PICK new : new = Inserted(row, p, c, n)
  OBVIOUS
<1>2. n \in Nat /\ p \in Nat /\ p <= n /\ row \in RowType /\ DOMAIN row = 0..(Extent - 1)
  BY DEF Row, RowType
<1>3. \A j \in 0..(Extent - 1) : new[j] = IF j = p THEN c
                                          ELSE IF p < j /\ j < n + 1 THEN row[j - 1] ELSE row[j]
  BY <1>1, <1>2 DEF Inserted
<1>4. new \in RowType
  <2>1. \A j \in 0..(Extent - 1) : row[j] \in Char \cup {NUL, Junk}
    BY <1>2 DEF RowType
  <2>2. \A j \in 0..(Extent - 1) : p < j => j - 1 \in 0..(Extent - 1)
    BY <1>2
  <2>3. \A j \in 0..(Extent - 1) : new[j] \in Char \cup {NUL, Junk}
    BY <1>3, <2>1, <2>2
  <2>. QED
    BY <1>1, <1>2, <2>3 DEF RowType, Inserted
<1>5. \A i \in 0..n : new[i] \in Char
  <2> TAKE i \in 0..n
  <2>1. i \in 0..(Extent - 1)
    BY <1>2
  <2>2. \A j \in 0..(n - 1) : row[j] \in Char
    BY DEF Row
  <2>3. i < p => i \in 0..(n - 1)
    BY <1>2
  <2>4. p < i => i - 1 \in 0..(n - 1)
    BY <1>2
  <2>. QED
    BY <1>2, <1>3, <2>1, <2>2, <2>3, <2>4
<1>6. \A i \in (n + 1)..Capacity : new[i] = NUL
  <2> TAKE i \in (n + 1)..Capacity
  <2>1. i \in 0..(Extent - 1) /\ i # p /\ ~(i < n + 1) /\ i \in n..Capacity
    BY <1>2
  <2>. QED
    BY <1>3, <2>1 DEF Row
<1>7. Row(new, n + 1)
  BY <1>2, <1>4, <1>5, <1>6 DEF Row
<1>8. PICK old : old = LineOf(row, n)
  OBVIOUS
<1>9. old \in Seq(Char) /\ Len(old) = n /\ \A i \in 1..n : old[i] = row[i - 1]
  BY <1>8, RowLine
<1>10. PICK line : line = LineOf(new, n + 1)
  OBVIOUS
<1>11. line \in Seq(Char) /\ Len(line) = n + 1 /\ \A i \in 1..(n + 1) : line[i] = new[i - 1]
  BY <1>7, <1>10, RowLine
<1>12. PICK ins : ins = InsertAt(old, p + 1, c)
  OBVIOUS
<1>13. /\ ins \in Seq(Char) /\ Len(ins) = n + 1
       /\ \A i \in 1..(n + 1) : ins[i] = IF i < p + 1 THEN old[i] ELSE IF i = p + 1 THEN c ELSE old[i - 1]
  <2>1. p + 1 \in 1..(Len(old) + 1)
    BY <1>2, <1>9
  <2>2. PICK q \in 1..(Len(old) + 1) : q = p + 1
    BY <2>1
  <2>3. old \in Seq(Char) /\ q \in 1..(Len(old) + 1) /\ c \in Char
    BY <1>9
  <2>4. IsInserted(Char, InsertAt(old, q, c), old, q, c)
    BY ONLY <2>3, Inserting
  <2>. QED
    BY <1>9, <1>12, <2>2, <2>4 DEF IsInserted
<1>14. \A i \in 1..(n + 1) : line[i] = ins[i]
  <2> TAKE i \in 1..(n + 1)
  <2>1. i - 1 \in 0..(Extent - 1)
    BY <1>2
  <2>2. line[i] = IF i - 1 = p THEN c ELSE IF p < i - 1 /\ i - 1 < n + 1 THEN row[(i - 1) - 1] ELSE row[i - 1]
    BY <1>3, <1>11, <2>1
  <2>3. CASE i - 1 = p
    BY <1>2, <1>13, <2>2, <2>3
  <2>4. CASE i - 1 < p
    <3>1. i \in 1..n /\ i < p + 1 /\ ~(p < i - 1) /\ i - 1 # p
      BY <1>2, <2>4
    <3>2. ins[i] = old[i] /\ old[i] = row[i - 1] /\ line[i] = row[i - 1]
      BY <1>9, <1>13, <2>2, <3>1
    <3>. QED
      BY <3>2
  <2>5. CASE p < i - 1
    <3>1. i - 1 \in 1..n /\ ~(i < p + 1) /\ i # p + 1 /\ i - 1 # p /\ i - 1 < n + 1
      BY <1>2, <2>5
    <3>2. ins[i] = old[i - 1] /\ old[i - 1] = row[(i - 1) - 1] /\ line[i] = row[(i - 1) - 1]
      BY <1>9, <1>13, <2>2, <2>5, <3>1
    <3>. QED
      BY <3>2
  <2>. QED
    BY <1>2, <2>3, <2>4, <2>5
<1>15. line = ins
  BY <1>11, <1>13, <1>14, SeqEqual
<1>. QED
  BY <1>1, <1>7, <1>8, <1>10, <1>12, <1>15

\* Shifting to the left removes the character.
LEMMA RowRemoved ==
  ASSUME NEW row, NEW n, Row(row, n), NEW k \in 0..(n - 1),
         Capacity \in Nat, Extent \in Nat, Capacity < Extent
  PROVE  /\ Row(Removed(row, k, n), n - 1)
         /\ LineOf(Removed(row, k, n), n - 1) = RemoveAt(LineOf(row, n), k + 1)
<1>1. PICK new : new = Removed(row, k, n)
  OBVIOUS
<1>2. /\ n \in Nat \ {0} /\ k \in Nat /\ k < n /\ n <= Capacity
      /\ row \in RowType /\ DOMAIN row = 0..(Extent - 1)
  BY DEF Row, RowType
<1>3. \A j \in 0..(Extent - 1) : new[j] = IF k <= j /\ j < n THEN row[j + 1]
                                          ELSE IF j = n THEN NUL ELSE row[j]
  BY <1>1, <1>2 DEF Removed
<1>4. new \in RowType
  <2>1. \A j \in 0..(Extent - 1) : row[j] \in Char \cup {NUL, Junk}
    BY <1>2 DEF RowType
  <2>2. \A j \in 0..(Extent - 1) : j < n => j + 1 \in 0..(Extent - 1)
    BY <1>2
  <2>3. \A j \in 0..(Extent - 1) : new[j] \in Char \cup {NUL, Junk}
    BY <1>3, <2>1, <2>2
  <2>. QED
    BY <1>1, <1>2, <2>3 DEF RowType, Removed
<1>5. \A i \in 0..((n - 1) - 1) : new[i] \in Char
  <2> TAKE i \in 0..((n - 1) - 1)
  <2>1. i \in 0..(Extent - 1) /\ i \in 0..(n - 1) /\ i + 1 \in 0..(n - 1) /\ i # n
    BY <1>2
  <2>. QED
    BY <1>3, <2>1 DEF Row
<1>6. \A i \in (n - 1)..Capacity : new[i] = NUL
  <2> TAKE i \in (n - 1)..Capacity
  <2>1. i \in 0..(Extent - 1)
    BY <1>2
  <2>2. CASE i = n - 1
    <3>1. k <= i /\ i < n /\ i + 1 \in n..Capacity
      BY <1>2, <2>2
    <3>. QED
      BY <1>3, <2>1, <3>1 DEF Row
  <2>3. CASE i # n - 1
    <3>1. ~(i < n) /\ i \in n..Capacity
      BY <1>2, <2>3
    <3>. QED
      BY <1>3, <2>1, <3>1 DEF Row
  <2>. QED
    BY <2>2, <2>3
<1>7. Row(new, n - 1)
  BY <1>2, <1>4, <1>5, <1>6 DEF Row
<1>8. PICK old : old = LineOf(row, n)
  OBVIOUS
<1>9. old \in Seq(Char) /\ Len(old) = n /\ \A i \in 1..n : old[i] = row[i - 1]
  BY <1>8, RowLine
<1>10. PICK line : line = LineOf(new, n - 1)
  OBVIOUS
<1>11. line \in Seq(Char) /\ Len(line) = n - 1 /\ \A i \in 1..(n - 1) : line[i] = new[i - 1]
  BY <1>7, <1>10, RowLine
<1>12. PICK rem : rem = RemoveAt(old, k + 1)
  OBVIOUS
<1>13. /\ rem \in Seq(Char) /\ Len(rem) = n - 1
       /\ \A i \in 1..(n - 1) : rem[i] = IF i < k + 1 THEN old[i] ELSE old[i + 1]
  <2>1. k + 1 \in 1..Len(old)
    BY <1>2, <1>9
  <2>. QED
    BY <1>9, <1>12, <2>1, RemoveAtIndex
<1>14. \A i \in 1..(n - 1) : line[i] = rem[i]
  <2> TAKE i \in 1..(n - 1)
  <2>1. i - 1 \in 0..(Extent - 1) /\ i - 1 < n /\ i - 1 # n
    BY <1>2
  <2>2. line[i] = IF k <= i - 1 THEN row[(i - 1) + 1] ELSE row[i - 1]
    BY <1>3, <1>11, <2>1
  <2>3. i \in 1..n /\ i + 1 \in 1..n /\ (i + 1) - 1 = (i - 1) + 1 /\ (i < k + 1 <=> ~(k <= i - 1))
    BY <1>2
  <2>4. old[i] = row[i - 1] /\ old[i + 1] = row[(i - 1) + 1]
    BY <1>9, <2>3
  <2>. QED
    BY <1>13, <2>2, <2>3, <2>4
<1>15. line = rem
  BY <1>11, <1>13, <1>14, SeqEqual
<1>. QED
  BY <1>1, <1>7, <1>8, <1>10, <1>12, <1>15

-----------------------------------------------------------------------------

(***************************************************************************)
(* The keys that edit.                                                     *)
(***************************************************************************)

\* Until the first call nothing has cleared the buffer; from then on it has the
\* line that is edited, or that was handed to the caller.
EditInv ==
  /\ terminal = "prompt" /\ ed.buffer = dest
  /\ mem \in [Buffer -> RowType]
  /\ IF pc = "caller" /\ bufferListLength = 0 THEN ed.bufferCount = 0
     ELSE Row(mem[dest], ed.bufferCount)
  /\ pc \notin {"caller", "stop"} => ed.bufferCount < Capacity

\* A step that leaves the line, and moves the cursor to i.
Moves(i) == Line' = Line /\ ed'.index = i /\ pc' = "poll"

\* What a key does to the line, as the editor says.
Edited(k) ==
  \/ /\ k \in Char /\ Line' = InsertAt(Line, ed.index + 1, k) /\ ed'.index = ed.index + 1
     /\ pc' = IF Len(Line) + 1 < Capacity THEN "poll" ELSE "stop"
  \/ /\ k = "backspace" /\ pc' = "poll"
     /\ IF ed.index > 0 THEN Line' = RemoveAt(Line, ed.index) /\ ed'.index = ed.index - 1
        ELSE Line' = Line /\ ed'.index = ed.index
  \/ /\ k = "delete" /\ pc' = "poll" /\ ed'.index = ed.index
     /\ Line' = IF ed.index < Len(Line) THEN RemoveAt(Line, ed.index + 1) ELSE Line
  \/ k = "left" /\ Moves(IF ed.index = 0 THEN 0 ELSE ed.index - 1)
  \/ k = "right" /\ Moves(IF ed.index = Len(Line) THEN ed.index ELSE ed.index + 1)
  \/ k = "enter" /\ Line' = Line /\ ed'.index = ed.index /\ pc' = "stop"

\* The buffer dest with another row.
SetRow(row) == [mem EXCEPT ![dest] = row]

LEMMA RowSet ==
  ASSUME mem \in [Buffer -> RowType], dest \in Buffer, NEW row \in RowType
  PROVE  SetRow(row) \in [Buffer -> RowType] /\ SetRow(row)[dest] = row
  BY DEF SetRow

\* The line is redrawn with n characters, in the row that the key left.
LEMMA RedrawEdits ==
  ASSUME EditOnly, EditInv, dest \in Buffer,
         NEW e \in EdType, e.buffer = dest, e.tempIndex \in Int, Redraw(e),
         NEW row, Row(row, e.bufferCount), mem' = SetRow(row)
  PROVE  /\ EditInv' /\ Line' = LineOf(row, e.bufferCount) /\ ed'.index = e.tempIndex
         /\ pc' = IF e.bufferCount < Capacity THEN "poll" ELSE "stop"
<1>1. e.tempIndex # Undefined
  BY SerialPollAssumption
<1>2. /\ ed'.buffer = dest /\ ed'.bufferCount = e.bufferCount /\ ed'.index = e.tempIndex
      /\ pc' = IF e.bufferCount < Size[dest] - 1 THEN "poll" ELSE "stop"
      /\ dest' = dest /\ terminal' = terminal
  BY <1>1, Redrawn
<1>3. Capacity \in Nat \ {0} /\ Size[dest] = Capacity + 1
  BY RowFits
<1>4. pc' = IF e.bufferCount < Capacity THEN "poll" ELSE "stop"
  BY <1>2, <1>3
<1>5. mem' \in [Buffer -> RowType] /\ mem'[dest] = row
  <2>1. row \in RowType /\ mem \in [Buffer -> RowType]
    BY DEF Row, EditInv
  <2>. QED
    BY <2>1, RowSet
<1>6. EditInv'
  <2>1. Row(mem'[dest'], ed'.bufferCount)
    BY <1>2, <1>5
  <2>2. terminal' = "prompt" /\ ed'.buffer = dest'
    BY <1>2 DEF EditInv
  <2>3. pc' # "caller" /\ (pc' # "stop" => ed'.bufferCount < Capacity)
    BY <1>2, <1>4
  <2>4. (Row(mem[dest], ed.bufferCount))' <=> Row(mem'[dest'], ed'.bufferCount)
    BY DEF Row, RowType, NUL, Junk
  <2>. QED
    BY <1>5, <2>1, <2>2, <2>3, <2>4 DEF EditInv, RowType, NUL, Junk
<1>7. Line' = LineOf(row, e.bufferCount)
  BY <1>2, <1>5 DEF Line, LineOf
<1>. QED
  BY <1>2, <1>4, <1>6, <1>7

\* The rows that insert and remove assign.
LEMMA InsertRow ==
  ASSUME EditInv, NEW c, insert(c)
  PROVE  /\ mem' = SetRow(Inserted(mem[dest], ed.index, c, ed.bufferCount))
         /\ Redraw(SetLine(ed, ed.bufferCount + 1, ed.index + 1))
  BY DEF EditInv, insert, SetRow, Inserted, SetLine

LEMMA RemoveRow ==
  ASSUME EditInv, NEW i, remove(i)
  PROVE  /\ mem' = SetRow(Removed(mem[dest], i, ed.bufferCount))
         /\ Redraw(SetLine(ed, ed.bufferCount - 1, i))
  BY DEF EditInv, remove, SetRow, Removed, SetLine

LEMMA KeepRow ==
  ASSUME EditInv, dest \in Buffer, mem' = mem
  PROVE  mem' = SetRow(mem[dest])
  BY DEF EditInv, SetRow

\* A key does to the line in the buffer what it does to the editor's line.
LEMMA KeyEdited ==
  ASSUME EditOnly, HistoryInv, CursorAt, EditInv, pc \notin {"caller", "stop"},
         NEW k \in Keys, KeyDone(k), k \in Arrows => ed.tempIndex # Undefined
  PROVE  EditInv' /\ Edited(k)
<1>1. /\ ed \in EdType /\ dest \in Buffer /\ ed.buffer = dest
      /\ ed.bufferCount \in Nat /\ ed.index \in 0..ed.bufferCount
      /\ ed.bufferCount < Capacity /\ mem \in [Buffer -> RowType]
  BY DEF HistoryInv, Edits, CursorAt, EditInv
<1>2. Capacity \in Nat \ {0} /\ Extent \in Nat /\ Capacity < Extent
  BY <1>1, RowFits
<1>3. PICK row, n : row = mem[dest] /\ n = ed.bufferCount
  OBVIOUS
<1>4. Row(row, n) /\ n \in Nat /\ n < Capacity
  BY <1>1, <1>3 DEF EditInv
<1>5. Line = LineOf(row, n) /\ Len(Line) = n
  <2>1. Line = LineOf(row, n)
    BY <1>1, <1>3 DEF Line, LineOf
  <2>. QED
    BY <1>2, <1>4, <2>1, RowLine
<1>6. ASSUME NEW i \in Int, Redraw(SetLine(ed, n, i)), mem' = mem
      PROVE  EditInv' /\ Moves(i)
  <2>1. PICK e : e = SetLine(ed, n, i)
    OBVIOUS
  <2>2. e \in EdType /\ e.bufferCount = n /\ e.tempIndex = i /\ e.buffer = dest
    <3>1. n \in Int
      BY <1>4
    <3>. QED
      BY <1>1, <2>1, <3>1, LineSet
  <2>3. mem' = SetRow(row)
    BY <1>1, <1>3, <1>6, KeepRow
  <2>4. Row(row, e.bufferCount) /\ Redraw(e) /\ e.tempIndex \in Int
    BY <1>4, <1>6, <2>1, <2>2
  <2>5. /\ EditInv' /\ Line' = LineOf(row, e.bufferCount) /\ ed'.index = e.tempIndex
        /\ pc' = IF e.bufferCount < Capacity THEN "poll" ELSE "stop"
    BY <1>1, <2>2, <2>3, <2>4, RedrawEdits
  <2>. QED
    BY <1>4, <1>5, <2>2, <2>5 DEF Moves
<1>7. ASSUME NEW i \in Int, Redraw([ed EXCEPT !.tempIndex = i]), mem' = mem
      PROVE  EditInv' /\ Moves(i)
  <2>1. [ed EXCEPT !.tempIndex = i] = SetLine(ed, n, i)
    BY <1>1, <1>3 DEF SetLine, EdType
  <2>. QED
    BY <1>6, <1>7, <2>1
<1>8. ASSUME NEW i \in 0..(n - 1), remove(i)
      PROVE  EditInv' /\ Line' = RemoveAt(Line, i + 1) /\ ed'.index = i /\ pc' = "poll"
  <2>1. PICK e : e = SetLine(ed, n - 1, i)
    OBVIOUS
  <2>2. i \in Int /\ n - 1 \in Int /\ n - 1 < Capacity
    BY <1>2, <1>4
  <2>3. e \in EdType /\ e.bufferCount = n - 1 /\ e.tempIndex = i /\ e.buffer = dest
    BY <1>1, <2>1, <2>2, LineSet
  <2>4. PICK new : new = Removed(row, i, n)
    OBVIOUS
  <2>5. mem' = SetRow(new) /\ Redraw(e)
    BY <1>3, <1>8, <2>1, <2>4, RemoveRow
  <2>6. Row(new, n - 1) /\ LineOf(new, n - 1) = RemoveAt(LineOf(row, n), i + 1)
    BY <1>2, <1>4, <2>4, RowRemoved
  <2>7. Row(new, e.bufferCount) /\ e.tempIndex \in Int
    BY <2>2, <2>3, <2>6
  <2>8. /\ EditInv' /\ Line' = LineOf(new, e.bufferCount) /\ ed'.index = e.tempIndex
        /\ pc' = IF e.bufferCount < Capacity THEN "poll" ELSE "stop"
    BY <1>1, <2>3, <2>5, <2>7, RedrawEdits
  <2>. QED
    BY <1>5, <2>2, <2>3, <2>6, <2>8
<1>9. CASE k \in Char /\ insert(k)
  <2>1. PICK e : e = SetLine(ed, n + 1, ed.index + 1)
    OBVIOUS
  <2>2. ed.index + 1 \in Int /\ n + 1 \in Int /\ ed.index \in 0..n
    BY <1>1, <1>3, <1>4
  <2>3. e \in EdType /\ e.bufferCount = n + 1 /\ e.tempIndex = ed.index + 1 /\ e.buffer = dest
    BY <1>1, <2>1, <2>2, LineSet
  <2>4. PICK p, new : p = ed.index /\ new = Inserted(row, p, k, n)
    OBVIOUS
  <2>5. mem' = SetRow(new) /\ Redraw(e)
    BY <1>3, <1>9, <2>1, <2>4, InsertRow
  <2>6. Row(new, n + 1) /\ LineOf(new, n + 1) = InsertAt(LineOf(row, n), p + 1, k)
    BY <1>2, <1>4, <1>9, <2>2, <2>4, RowInserted
  <2>7. Row(new, e.bufferCount) /\ e.tempIndex \in Int
    BY <2>2, <2>3, <2>6
  <2>8. /\ EditInv' /\ Line' = LineOf(new, e.bufferCount) /\ ed'.index = e.tempIndex
        /\ pc' = IF e.bufferCount < Capacity THEN "poll" ELSE "stop"
    BY <1>1, <2>3, <2>5, <2>7, RedrawEdits
  <2>9. Line' = InsertAt(Line, ed.index + 1, k)
    BY <1>5, <2>3, <2>4, <2>6, <2>8
  <2>10. pc' = IF Len(Line) + 1 < Capacity THEN "poll" ELSE "stop"
    BY <1>5, <2>3, <2>8
  <2>. QED
    BY <1>9, <2>3, <2>8, <2>9, <2>10 DEF Edited
<1>10. CASE k = "backspace" /\ backspace
  <2>1. CASE ed.index > 0
    <3>1. ed.index - 1 \in 0..(n - 1) /\ remove(ed.index - 1) /\ (ed.index - 1) + 1 = ed.index
      BY <1>1, <1>3, <1>10, <2>1 DEF backspace
    <3>2. PICK i \in 0..(n - 1) : i = ed.index - 1
      BY <3>1
    <3>3. EditInv' /\ Line' = RemoveAt(Line, i + 1) /\ ed'.index = i /\ pc' = "poll"
      BY <1>8, <3>1, <3>2
    <3>. QED
      BY <1>10, <2>1, <3>1, <3>2, <3>3 DEF Edited
  <2>2. CASE ~(ed.index > 0)
    <3>1. Redraw([ed EXCEPT !.tempIndex = 0]) /\ mem' = mem /\ ed.index = 0 /\ 0 \in Int
      BY <1>1, <1>10, <2>2 DEF backspace
    <3>2. EditInv' /\ Moves(0)
      BY <1>7, <3>1
    <3>. QED
      BY <1>10, <2>2, <3>1, <3>2 DEF Edited, Moves
  <2>. QED
    BY <2>1, <2>2
<1>11. CASE k = "delete" /\ delete
  <2>1. CASE ed.index < ed.bufferCount
    <3>1. ed.index \in 0..(n - 1) /\ remove(ed.index)
      BY <1>1, <1>3, <1>11, <2>1 DEF delete
    <3>2. PICK i \in 0..(n - 1) : i = ed.index
      BY <3>1
    <3>3. EditInv' /\ Line' = RemoveAt(Line, i + 1) /\ ed'.index = i /\ pc' = "poll"
      BY <1>8, <3>1, <3>2
    <3>. QED
      BY <1>3, <1>5, <1>11, <2>1, <3>2, <3>3 DEF Edited
  <2>2. CASE ~(ed.index < ed.bufferCount)
    <3>1. Redraw([ed EXCEPT !.tempIndex = ed.index]) /\ mem' = mem /\ ed.index \in Int
      BY <1>1, <1>11, <2>2 DEF delete
    <3>2. EditInv' /\ Moves(ed.index)
      BY <1>7, <3>1
    <3>. QED
      BY <1>3, <1>5, <1>11, <2>2, <3>2 DEF Edited, Moves
  <2>. QED
    BY <2>1, <2>2
<1>12. CASE k = "enter" /\ Within("stop")
  <2>1. pc' = "stop" /\ UNCHANGED <<mem, dest, ed, terminal>>
    BY <1>12 DEF Within
  <2>2. EditInv'
    BY <1>1, <1>3, <1>4, <2>1 DEF EditInv, Row, RowType, NUL, Junk
  <2>3. Line' = Line /\ ed'.index = ed.index
    BY <2>1 DEF Line
  <2>. QED
    BY <1>12, <2>1, <2>2, <2>3 DEF Edited
<1>13. ASSUME k \in {"left", "right"}, Ignored PROVE EditInv' /\ Moves(ed.index)
  <2>1. ed.tempIndex = ed.index /\ ed.index \in Int
    BY <1>1, <1>13 DEF HistoryInv, Edits, Arrows
  <2>2. ed = SetLine(ed, n, ed.index)
    BY <1>1, <1>3, <2>1 DEF SetLine, EdType
  <2>3. Redraw(SetLine(ed, n, ed.index)) /\ mem' = mem
    BY <1>13, <2>2 DEF Ignored
  <2>. QED
    BY <1>6, <2>1, <2>3
<1>14. CASE k = "left" /\ left
  <2>1. CASE ed.index = 0
    BY <1>13, <1>14, <2>1 DEF left, Edited
  <2>2. CASE ed.index # 0
    <3>1. ed.tempIndex = ed.index
      BY <2>2 DEF HistoryInv, Edits
    <3>2. Redraw([ed EXCEPT !.tempIndex = ed.index - 1]) /\ mem' = mem /\ ed.index - 1 \in Int
      BY <1>1, <1>14, <2>2, <3>1 DEF left
    <3>3. EditInv' /\ Moves(ed.index - 1)
      BY <1>7, <3>2
    <3>. QED
      BY <1>14, <2>2, <3>3 DEF Edited
  <2>. QED
    BY <2>1, <2>2
<1>15. CASE k = "right" /\ right
  <2>1. CASE ed.index = ed.bufferCount
    BY <1>3, <1>5, <1>13, <1>15, <2>1 DEF right, Edited
  <2>2. CASE ed.index # ed.bufferCount
    <3>1. ed.tempIndex = ed.index
      BY <2>2 DEF HistoryInv, Edits
    <3>2. Redraw([ed EXCEPT !.tempIndex = ed.index + 1]) /\ mem' = mem /\ ed.index + 1 \in Int
      BY <1>1, <1>15, <2>2, <3>1 DEF right
    <3>3. EditInv' /\ Moves(ed.index + 1)
      BY <1>7, <3>2
    <3>. QED
      BY <1>3, <1>5, <1>15, <2>2, <3>3 DEF Edited
  <2>. QED
    BY <2>1, <2>2
<1>16. k \notin {"up", "down"}
  <2>1. Keys \subseteq Char \cup {"left", "right", "backspace", "delete", "enter"}
    BY DEF EditOnly, Editor!Editing, Editor!Left, Editor!Right, Editor!Backspace, Editor!Delete, Editor!Enter
  <2>2. "up" \notin Char /\ "down" \notin Char
    BY SerialPollAssumption DEF Arrows
  <2>. QED
    BY <2>1, <2>2
<1>. QED
  BY <1>9, <1>10, <1>11, <1>12, <1>14, <1>15, <1>16 DEF KeyDone

\* After a line has been entered the history is not empty.
LEMMA ReturnLength ==
  ASSUME HistoryInv, Return
  PROVE  (bufferListLength > 0)'
<1>1. PICK s : Remembers(s)
  BY DEF HistoryInv
<1>2. bufferListLength \in Nat
  BY <1>1 DEF Remembers
<1>3. \/ bufferListLength = BUFFER_LIST_MAX /\ bufferListLength' = bufferListLength
      \/ bufferListLength' = bufferListLength + 1
  BY DEF Return, add_node
<1>. QED
  BY <1>2, <1>3, SerialPollAssumption

\* At the start the caller has no line.
LEMMA EditInit == ASSUME EditOnly, Init PROVE EditInv
<1>1. terminal = "prompt"
  BY DEF EditOnly, Init
<1>2. mem \in [Buffer -> RowType]
  BY DEF Init, RowType
<1>. QED
  BY <1>1, <1>2 DEF Init, EditInv, Fresh

\* The byte a step of serial_poll reads is that of a key, which does what it
\* should, or one in front of the last byte of a key, which does nothing.
LEMMA PollEdits ==
  ASSUME EditOnly, HistoryInv, PromptInv, EditInv, Poll
  PROVE  /\ EditInv' /\ pc \notin {"caller", "stop"}
         /\ fifo # << >> /\ fifo' = Tail(fifo) /\ wire' = << >>
         /\ fifo[1][1] \in Keys
         /\ IsLast(fifo[1]) => Edited(fifo[1][1])
         /\ ~IsLast(fifo[1]) => Line' = Line /\ ed' = ed /\ pc' \notin {"caller", "stop"}
<1>1. BytesInv /\ CursorAt
  BY DEF PromptInv, EditInv
<1>2. /\ fifo # << >> /\ fifo' = Tail(fifo) /\ wire' = << >>
      /\ fifo[1][1] \in Keys /\ fifo[1][2] = Place[pc]
      /\ pc \in {"poll", "esc", "bracket", "three"}
      /\ IsLast(fifo[1]) => KeyDone(fifo[1][1])
      /\ ~IsLast(fifo[1]) => /\ IsEsc(fifo[1][1]) /\ pc \in DOMAIN Deeper /\ Within(Deeper[pc])
                             /\ pc = "bracket" => fifo[1][1] = "delete"
  BY <1>1, KeyRead
<1>3. PICK k \in Keys : k = fifo[1][1]
  BY <1>2
<1>4. CASE IsLast(fifo[1])
  <2>1. k \in Arrows => ed.tempIndex # Undefined
    <3>1. 1 \in 1..Len(fifo)
      BY <1>1, <1>2 DEF BytesInv, Whole
    <3>. QED
      BY <1>1, <1>3, <3>1 DEF BytesInv
  <2>2. KeyDone(k) /\ pc \notin {"caller", "stop"}
    BY <1>2, <1>3, <1>4
  <2>3. EditInv' /\ Edited(k)
    BY <1>1, <2>1, <2>2, KeyEdited
  <2>. QED
    BY <1>2, <1>3, <1>4, <2>3
<1>5. CASE ~IsLast(fifo[1])
  <2>1. /\ pc' = Deeper[pc] /\ UNCHANGED <<mem, dest, ed, terminal, history>>
        /\ pc \in {"poll", "esc", "bracket"}
    BY <1>2, <1>5 DEF Within, Deeper
  <2>2. pc' \in {"esc", "bracket", "three"}
    BY <2>1 DEF Deeper
  <2>3. EditInv'
    BY <2>1, <2>2 DEF EditInv, Row, RowType, NUL, Junk
  <2>4. Line' = Line
    BY <2>1 DEF Line
  <2>. QED
    BY <1>2, <1>5, <2>1, <2>2, <2>3, <2>4
<1>. QED
  BY <1>4, <1>5

\* A caller clears its buffer.
LEMMA CallEdits ==
  ASSUME EditOnly, EditInv, NEW b \in Buffer, Call(b)
  PROVE  EditInv' /\ Line' = << >>
<1>1. /\ pc' = "poll" /\ ed' = Fresh(b) /\ dest' = b /\ UNCHANGED terminal
      /\ mem' = [mem EXCEPT ![b] = [i \in DOMAIN mem[b] |-> IF i < Size[b] THEN NUL ELSE mem[b][i]]]
  BY DEF Call, EditOnly
<1>2. Capacity \in Nat \ {0} /\ Extent \in Nat /\ Capacity < Extent /\ Size[b] = Capacity + 1
  BY RowFits
<1>3. PICK row : row = [i \in DOMAIN mem[b] |-> IF i < Size[b] THEN NUL ELSE mem[b][i]]
  OBVIOUS
<1>4. mem \in [Buffer -> RowType] /\ mem[b] \in RowType
  BY DEF EditInv
<1>5. row \in RowType /\ \A i \in 0..Capacity : row[i] = NUL
  BY <1>2, <1>3, <1>4 DEF RowType
<1>6. mem' \in [Buffer -> RowType] /\ mem'[b] = row
  BY <1>1, <1>3, <1>4, <1>5
<1>7. Row(row, 0)
  BY <1>2, <1>5 DEF Row
<1>8. ed'.buffer = b /\ ed'.bufferCount = 0
  BY <1>1 DEF Fresh
<1>9. Row(mem'[dest'], ed'.bufferCount)
  BY <1>1, <1>6, <1>7, <1>8
<1>10. EditInv'
  <2>1. (Row(mem[dest], ed.bufferCount))'
    BY <1>9 DEF Row, RowType, NUL, Junk
  <2>2. (mem \in [Buffer -> RowType])'
    BY <1>6 DEF RowType, NUL, Junk
  <2>. QED
    BY <1>1, <1>2, <1>8, <2>1, <2>2 DEF EditInv
<1>11. Line' = << >>
  BY <1>8 DEF Line
<1>. QED
  BY <1>10, <1>11

\* The other steps leave the line.
LEMMA LineKept ==
  ASSUME EditInv, UNCHANGED <<mem, dest, ed, terminal>>,
         \/ pc' = pc /\ bufferListLength' = bufferListLength
         \/ pc = "stop" /\ pc' = "caller" /\ (bufferListLength > 0)'
  PROVE  EditInv' /\ Line' = Line
<1>1. EditInv'
  BY DEF EditInv, Row, RowType, NUL, Junk
<1>. QED
  BY <1>1 DEF Line

\* Every step keeps a line in the buffer and NULs behind it.
LEMMA EditNext ==
  ASSUME EditOnly, HistoryInv, HistoryInv', PromptInv, EditInv, [Next]_vars
  PROVE  EditInv'
<1>1. ASSUME NEW k \in Keys, Press(k) PROVE EditInv'
  <2>1. UNCHANGED <<mem, dest, ed, pc, terminal, bufferListLength>>
    BY <1>1 DEF Press, history
  <2>. QED
    BY <2>1, LineKept
<1>2. ASSUME Arrive PROVE EditInv'
  <2>1. UNCHANGED <<mem, dest, ed, pc, terminal, bufferListLength>>
    BY <1>2 DEF Arrive, history
  <2>. QED
    BY <2>1, LineKept
<1>3. ASSUME NEW b \in Buffer, Call(b) PROVE EditInv'
  BY <1>3, CallEdits
<1>4. ASSUME Poll PROVE EditInv'
  BY <1>4, PollEdits
<1>5. ASSUME Return PROVE EditInv'
  <2>1. UNCHANGED <<mem, dest, ed, terminal>> /\ pc = "stop" /\ pc' = "caller"
    BY <1>5 DEF Return
  <2>2. (bufferListLength > 0)'
    BY <1>5, ReturnLength
  <2>. QED
    BY <2>1, <2>2, LineKept
<1>6. ASSUME UNCHANGED vars PROVE EditInv'
  <2>1. UNCHANGED <<mem, dest, ed, pc, terminal, bufferListLength>>
    BY <1>6 DEF vars
  <2>. QED
    BY <2>1, LineKept
<1>. QED
  BY <1>1, <1>2, <1>3, <1>4, <1>5, <1>6 DEF Next, Poll

EditOrder == HistoryInv /\ PromptInv /\ EditInv

\* The line is always in its buffer.
LEMMA EditAlways == ASSUME EditOnly PROVE Spec => []EditOrder
<1>1. Init => EditOrder
  BY HistoryInit, PromptInit, EditInit DEF EditOrder
<1>2. EditOrder /\ [Next]_vars => EditOrder'
  BY HistoryNext, PromptNext, EditNext DEF EditOrder
<1>. QED
  BY <1>1, <1>2, PTL DEF Spec

\* With the keys that edit, for any buffers and keys, a line that is handed to
\* its caller ends with a NUL.
THEOREM LinesTerminated == ASSUME EditOnly PROVE Spec => []LineTerminated
<1>1. EditOrder => LineTerminated
  <2> SUFFICES ASSUME EditOrder, pc = "caller", bufferListLength > 0
               PROVE  mem[ed.buffer][ed.bufferCount] = NUL
    BY DEF LineTerminated
  <2>1. PICK s : Remembers(s)
    BY DEF EditOrder, HistoryInv
  <2>2. bufferListLength # 0
    BY <2>1 DEF Remembers
  <2>3. Row(mem[dest], ed.bufferCount) /\ ed.buffer = dest /\ Capacity \in Nat
    BY <2>2 DEF EditOrder, EditInv, EditOnly
  <2>4. ed.bufferCount \in ed.bufferCount..Capacity
    BY <2>3 DEF Row
  <2>. QED
    BY <2>3, <2>4 DEF Row
<1>. QED
  BY <1>1, EditAlways, PTL

-----------------------------------------------------------------------------

(***************************************************************************)
(* The keys that the bytes are of.                                         *)
(***************************************************************************)

\* The keys of which the last byte is among the first i bytes, after them.
KeysTo(f, g, i) ==
  IF i = 0 THEN << >>
  ELSE IF IsLast(f[i]) THEN Append(g[i - 1], f[i][1]) ELSE g[i - 1]

\* g counts the keys up to n bytes.
CountsTo(f, g, n) == DOMAIN g = 0..n /\ \A i \in 0..n : g[i] = KeysTo(f, g, i)

Bytewise(f) == f \in Seq(Keys \X Nat)

\* The recursive function of PressedIn exists.
LEMMA PressedCounts ==
  ASSUME NEW f, Bytewise(f)
  PROVE  CountsTo(f, PressedIn(f), Len(f))
<1> DEFINE T == {n \in Nat : \E g : g = [i \in 0..n |-> KeysTo(f, g, i)]}
           m == Len(f)
<1>1. m \in Nat
  BY DEF Bytewise
<1>2. 0 \in T
  <2>1. PICK g : g = [i \in 0..0 |-> << >>]
    OBVIOUS
  <2>2. g = [i \in 0..0 |-> KeysTo(f, g, i)]
    BY <2>1 DEF KeysTo
  <2>. QED
    BY <2>2
<1>3. ASSUME NEW n \in 0..(m - 1), n \in T PROVE n + 1 \in T
  <2>1. PICK g : g = [i \in 0..n |-> KeysTo(f, g, i)]
    BY <1>3
  <2>2. PICK h : h = [i \in 0..(n + 1) |-> IF i <= n THEN g[i] ELSE KeysTo(f, g, i)]
    OBVIOUS
  <2>3. n \in Nat /\ n + 1 \in Nat
    BY <1>1
  <2>4. ASSUME NEW i \in 0..(n + 1) PROVE h[i] = KeysTo(f, h, i)
    <3>1. i # 0 => i - 1 \in 0..n /\ i - 1 \in 0..(n + 1) /\ i - 1 <= n
      BY <2>3
    <3>2. i # 0 => h[i - 1] = g[i - 1]
      BY <2>2, <3>1
    <3>3. KeysTo(f, h, i) = KeysTo(f, g, i)
      BY <3>2 DEF KeysTo
    <3>4. h[i] = KeysTo(f, g, i)
      <4>1. CASE i <= n
        <5>1. i \in 0..n
          BY <2>3, <4>1
        <5>. QED
          BY <2>1, <2>2, <4>1, <5>1
      <4>2. CASE ~(i <= n)
        BY <2>2, <4>2
      <4>. QED
        BY <4>1, <4>2
    <3>. QED
      BY <3>3, <3>4
  <2>5. h = [i \in 0..(n + 1) |-> KeysTo(f, h, i)]
    BY <2>2, <2>4
  <2>. QED
    BY <2>3, <2>5
<1>4. m \in T
  <2> HIDE DEF T, m
  <2>1. \A i \in 0..m : i \in T
    BY <1>1, <1>2, <1>3, CountUp
  <2>. QED
    BY <1>1, <2>1
<1>5. PressedIn(f) = CHOOSE g : g = [i \in 0..m |-> KeysTo(f, g, i)]
  BY DEF PressedIn, KeysTo
<1>6. PressedIn(f) = [i \in 0..m |-> KeysTo(f, PressedIn(f), i)]
  BY <1>4, <1>5
<1>. QED
  BY <1>6 DEF CountsTo

\* Byte by byte, the keys pressed.
LEMMA PressedStep ==
  ASSUME NEW f, Bytewise(f)
  PROVE  /\ Len(f) \in Nat /\ PressedIn(f)[0] = << >>
         /\ \A i \in 1..Len(f) : PressedIn(f)[i] = IF IsLast(f[i]) THEN Append(PressedIn(f)[i - 1], f[i][1])
                                                   ELSE PressedIn(f)[i - 1]
         /\ \A i \in 1..Len(f) : f[i][1] \in Keys
<1>1. CountsTo(f, PressedIn(f), Len(f)) /\ Len(f) \in Nat
  BY PressedCounts DEF Bytewise
<1>2. 0 \in 0..Len(f) /\ \A i \in 1..Len(f) : i \in 0..Len(f) /\ i # 0
  BY <1>1
<1>3. ASSUME NEW i \in 0..Len(f) PROVE PressedIn(f)[i] = KeysTo(f, PressedIn(f), i)
  BY <1>1 DEF CountsTo
<1>4. PressedIn(f)[0] = << >>
  BY <1>2, <1>3 DEF KeysTo
<1>5. ASSUME NEW i \in 1..Len(f)
      PROVE  PressedIn(f)[i] = IF IsLast(f[i]) THEN Append(PressedIn(f)[i - 1], f[i][1]) ELSE PressedIn(f)[i - 1]
  <2>1. i \in 0..Len(f) /\ i # 0
    BY <1>2
  <2>. QED
    BY <1>3, <2>1 DEF KeysTo
<1>6. \A i \in 1..Len(f) : f[i][1] \in Keys
  BY DEF Bytewise
<1>. QED
  BY <1>1, <1>4, <1>5, <1>6

\* There are not more keys than bytes.
LEMMA PressedType ==
  ASSUME NEW f, Bytewise(f)
  PROVE  /\ \A i \in 0..Len(f) : PressedIn(f)[i] \in Seq(Keys) /\ Len(PressedIn(f)[i]) <= i
         /\ Pressed(f) \in Seq(Keys) /\ Len(Pressed(f)) <= Len(f)
<1>1. PICK g, m : g = PressedIn(f) /\ m = Len(f)
  OBVIOUS
<1>2. /\ m \in Nat /\ g[0] = << >>
      /\ \A i \in 1..m : g[i] = IF IsLast(f[i]) THEN Append(g[i - 1], f[i][1]) ELSE g[i - 1]
      /\ \A i \in 1..m : f[i][1] \in Keys
  BY <1>1, PressedStep
<1> DEFINE T == {i \in 0..m : g[i] \in Seq(Keys) /\ Len(g[i]) <= i}
<1>3. 0 \in T
  <2>1. g[0] \in Seq(Keys) /\ Len(g[0]) = 0
    BY <1>2, EmptySeq
  <2>2. 0 \in 0..m /\ Len(g[0]) <= 0
    BY <1>2, <2>1
  <2>. QED
    BY <2>1, <2>2
<1>4. ASSUME NEW i \in 0..(m - 1), i \in T PROVE i + 1 \in T
  <2>1. i + 1 \in 1..m /\ i + 1 \in 0..m /\ (i + 1) - 1 = i /\ i \in Nat
    BY <1>2
  <2>2. g[i + 1] = IF IsLast(f[i + 1]) THEN Append(g[i], f[i + 1][1]) ELSE g[i]
    BY <1>2, <2>1
  <2>3. PICK a \in Seq(Keys), k \in Keys : a = g[i] /\ Len(a) <= i /\ k = f[i + 1][1]
    BY <1>2, <1>4, <2>1
  <2>4. Append(a, k) \in Seq(Keys) /\ Len(Append(a, k)) = Len(a) + 1 /\ Len(a) \in Nat
    OBVIOUS
  <2>5. g[i + 1] \in Seq(Keys) /\ Len(g[i + 1]) <= i + 1
    <3>1. CASE IsLast(f[i + 1])
      BY <2>1, <2>2, <2>3, <2>4, <3>1
    <3>2. CASE ~IsLast(f[i + 1])
      BY <2>1, <2>2, <2>3, <2>4, <3>2
    <3>. QED
      BY <3>1, <3>2
  <2>. QED
    BY <2>1, <2>5
<1>5. \A i \in 0..m : i \in T
  <2> HIDE DEF T
  <2>. QED
    BY <1>2, <1>3, <1>4, CountUp
<1>. QED
  BY <1>1, <1>2, <1>5 DEF Pressed

\* The keys of the first bytes do not depend on those behind them.
LEMMA PressedFront ==
  ASSUME NEW f, Bytewise(f), NEW h, Bytewise(h), Len(f) <= Len(h),
         \A i \in 1..Len(f) : h[i] = f[i]
  PROVE  PressedIn(h)[Len(f)] = Pressed(f)
<1>1. PICK g, m : g = PressedIn(f) /\ m = Len(f)
  OBVIOUS
<1>2. /\ m \in Nat /\ g[0] = << >>
      /\ \A i \in 1..m : g[i] = IF IsLast(f[i]) THEN Append(g[i - 1], f[i][1]) ELSE g[i - 1]
  BY <1>1, PressedStep
<1>3. PICK p : p = PressedIn(h)
  OBVIOUS
<1>4. /\ Len(h) \in Nat /\ p[0] = << >>
      /\ \A i \in 1..Len(h) : p[i] = IF IsLast(h[i]) THEN Append(p[i - 1], h[i][1]) ELSE p[i - 1]
  BY <1>3, PressedStep
<1> DEFINE T == {i \in 0..m : p[i] = g[i]}
<1>5. 0 \in T
  BY <1>2, <1>4
<1>6. ASSUME NEW i \in 0..(m - 1), i \in T PROVE i + 1 \in T
  <2>1. i + 1 \in 1..m /\ i + 1 \in 0..m /\ i + 1 \in 1..Len(h) /\ (i + 1) - 1 = i
    BY <1>1, <1>2, <1>4
  <2>2. g[i + 1] = IF IsLast(f[i + 1]) THEN Append(g[i], f[i + 1][1]) ELSE g[i]
    BY <1>2, <2>1
  <2>3. p[i + 1] = IF IsLast(h[i + 1]) THEN Append(p[i], h[i + 1][1]) ELSE p[i]
    BY <1>4, <2>1
  <2>4. h[i + 1] = f[i + 1] /\ p[i] = g[i]
    BY <1>1, <1>6, <2>1
  <2>. QED
    BY <2>1, <2>2, <2>3, <2>4
<1>7. \A i \in 0..m : i \in T
  <2> HIDE DEF T
  <2>. QED
    BY <1>2, <1>5, <1>6, CountUp
<1>. QED
  BY <1>1, <1>2, <1>3, <1>7 DEF Pressed

\* A key that is pressed comes behind the others.
LEMMA PressedSent ==
  ASSUME NEW f, Whole(f), NEW k \in Keys
  PROVE  Pressed(f \o Sent(k)) = Append(Pressed(f), k)
<1>1. PICK n, h : n = Len(Bytes(k)) /\ h = f \o Sent(k)
  OBVIOUS
<1>2. /\ Whole(h) /\ Len(f) \in Nat /\ Len(h) = Len(f) + n
      /\ \A i \in 1..Len(f) : h[i] = f[i]
      /\ \A i \in 1..n : h[Len(f) + i] = <<k, i>>
  BY <1>1, WholeSent
<1>3. n \in Nat \ {0} /\ n - 1 \in Nat
  BY <1>1, KeyBytes
<1>4. Bytewise(f) /\ Bytewise(h) /\ Len(f) <= Len(h)
  BY <1>2, <1>3 DEF Whole, Bytewise
<1>5. PressedIn(h)[Len(f)] = Pressed(f)
  BY <1>2, <1>4, PressedFront
<1>6. PICK p, m : p = PressedIn(h) /\ m = Len(f)
  OBVIOUS
<1>7. \A i \in 1..Len(h) : p[i] = IF IsLast(h[i]) THEN Append(p[i - 1], h[i][1]) ELSE p[i - 1]
  BY <1>4, <1>6, PressedStep
<1>8. ASSUME NEW i \in 1..n
      PROVE  p[m + i] = IF i = n THEN Append(p[(m + i) - 1], k) ELSE p[(m + i) - 1]
  <2>1. m + i \in 1..Len(h) /\ h[m + i] = <<k, i>>
    BY <1>2, <1>3, <1>6
  <2>2. IsLast(h[m + i]) <=> i = n
    BY <1>1, <2>1 DEF IsLast
  <2>3. h[m + i][1] = k
    BY <2>1
  <2>4. p[m + i] = IF IsLast(h[m + i]) THEN Append(p[(m + i) - 1], h[m + i][1]) ELSE p[(m + i) - 1]
    BY ONLY <1>7, <2>1
  <2>. QED
    BY <2>2, <2>3, <2>4
<1> DEFINE T == {i \in 0..(n - 1) : p[m + i] = Pressed(f)}
<1>9. 0 \in T
  BY <1>2, <1>3, <1>5, <1>6
<1>10. ASSUME NEW i \in 0..((n - 1) - 1), i \in T PROVE i + 1 \in T
  <2>1. i + 1 \in 1..n /\ i + 1 # n /\ i + 1 \in 0..(n - 1) /\ (m + (i + 1)) - 1 = m + i
    BY <1>2, <1>3, <1>6
  <2>2. p[m + (i + 1)] = p[(m + (i + 1)) - 1]
    BY ONLY <1>8, <2>1
  <2>. QED
    BY <1>10, <2>1, <2>2
<1>11. \A i \in 0..(n - 1) : i \in T
  <2> HIDE DEF T
  <2>1. PICK l \in Nat : l = n - 1
    BY <1>3
  <2>2. \A i \in 0..l : i \in T
    BY <1>9, <1>10, <2>1, CountUp
  <2>. QED
    BY <2>1, <2>2
<1>12. p[m + n] = Append(Pressed(f), k)
  <2>1. n \in 1..n /\ n - 1 \in 0..(n - 1) /\ (m + n) - 1 = m + (n - 1)
    BY <1>2, <1>3, <1>6
  <2>2. p[m + n] = Append(p[(m + n) - 1], k)
    BY <1>8, <2>1
  <2>. QED
    BY <1>11, <2>1, <2>2
<1>. QED
  BY <1>1, <1>2, <1>6, <1>12 DEF Pressed

\* When a byte is read, the key it is the last of is gone; another byte leaves the keys.
LEMMA PressedTail ==
  ASSUME NEW f, Whole(f), f # << >>
  PROVE  /\ IsLast(f[1]) => /\ Pressed(f) # << >> /\ Head(Pressed(f)) = f[1][1]
                            /\ Pressed(Tail(f)) = Tail(Pressed(f))
         /\ ~IsLast(f[1]) => Pressed(Tail(f)) = Pressed(f)
<1>1. PICK h : h = Tail(f)
  OBVIOUS
<1>2. /\ Whole(h) /\ Len(h) = Len(f) - 1
      /\ \A i \in 1..Len(h) : h[i] = f[i + 1]
      /\ Len(f) \in Nat \ {0}
  BY <1>1, WholeTail
<1>3. Bytewise(f) /\ Bytewise(h)
  BY <1>2 DEF Whole, Bytewise
<1>4. PICK p, q, m : p = PressedIn(f) /\ q = PressedIn(h) /\ m = Len(h)
  OBVIOUS
<1>5. /\ p[0] = << >>
      /\ \A i \in 1..Len(f) : p[i] = IF IsLast(f[i]) THEN Append(p[i - 1], f[i][1]) ELSE p[i - 1]
      /\ \A i \in 1..Len(f) : f[i][1] \in Keys
  BY <1>3, <1>4, PressedStep
<1>6. /\ m \in Nat /\ q[0] = << >>
      /\ \A i \in 1..m : q[i] = IF IsLast(h[i]) THEN Append(q[i - 1], h[i][1]) ELSE q[i - 1]
  BY <1>3, <1>4, PressedStep
<1>7. \A i \in 0..m : q[i] \in Seq(Keys)
  BY <1>3, <1>4, PressedType
<1>8. PICK a \in Seq(Keys) : a = IF IsLast(f[1]) THEN <<f[1][1]>> ELSE << >>
  <2>1. f[1][1] \in Keys
    BY <1>2, <1>5
  <2>2. <<f[1][1]>> \in Seq(Keys) /\ << >> \in Seq(Keys)
    BY <2>1
  <2>. QED
    BY <2>2
<1>9. p[1] = a
  <2>1. 1 \in 1..Len(f) /\ 1 - 1 = 0
    BY <1>2
  <2>2. p[1] = IF IsLast(f[1]) THEN Append(p[0], f[1][1]) ELSE p[0]
    BY <1>5, <2>1
  <2>. QED
    BY <1>5, <1>8, <2>2
<1> DEFINE T == {i \in 0..m : p[i + 1] = a \o q[i]}
<1>10. 0 \in T
  <2>1. a \o << >> = a /\ 0 \in 0..m /\ 0 + 1 = 1
    BY <1>6
  <2>. QED
    BY <1>6, <1>9, <2>1
<1>11. ASSUME NEW i \in 0..(m - 1), i \in T PROVE i + 1 \in T
  <2>1. /\ i + 1 \in 1..m /\ i + 1 \in 0..m /\ (i + 1) - 1 = i
        /\ (i + 1) + 1 \in 1..Len(f) /\ ((i + 1) + 1) - 1 = i + 1 /\ i \in 0..m
    BY <1>2, <1>4, <1>6
  <2>2. h[i + 1] = f[(i + 1) + 1]
    BY <1>2, <1>4, <2>1
  <2>3. q[i + 1] = IF IsLast(h[i + 1]) THEN Append(q[i], h[i + 1][1]) ELSE q[i]
    BY <1>6, <2>1
  <2>4. p[(i + 1) + 1] = IF IsLast(h[i + 1]) THEN Append(p[i + 1], h[i + 1][1]) ELSE p[i + 1]
    <3>1. p[(i + 1) + 1] = IF IsLast(f[(i + 1) + 1]) THEN Append(p[((i + 1) + 1) - 1], f[(i + 1) + 1][1])
                           ELSE p[((i + 1) + 1) - 1]
      BY ONLY <1>5, <2>1
    <3>. QED
      BY <2>1, <2>2, <3>1
  <2>5. p[i + 1] = a \o q[i] /\ q[i] \in Seq(Keys) /\ h[i + 1][1] \in Keys
    BY <1>5, <1>7, <1>11, <2>1, <2>2
  <2>6. Append(a \o q[i], h[i + 1][1]) = a \o Append(q[i], h[i + 1][1])
    <3>1. PICK b \in Seq(Keys), k \in Keys : b = q[i] /\ k = h[i + 1][1]
      BY <2>5
    <3>2. PICK x, y : x = Append(a \o b, k) /\ y = a \o Append(b, k)
      OBVIOUS
    <3>3. /\ x \in Seq(Keys) /\ y \in Seq(Keys) /\ Len(x) = Len(y)
          /\ \A j \in 1..Len(x) : x[j] = y[j]
      BY <3>2
    <3>4. x = y
      BY <3>3, SeqEqual
    <3>. QED
      BY <3>1, <3>2, <3>4
  <2>7. p[(i + 1) + 1] = a \o q[i + 1]
    BY <2>3, <2>4, <2>5, <2>6
  <2>. QED
    BY <2>1, <2>7
<1>12. \A i \in 0..m : i \in T
  <2> HIDE DEF T
  <2>. QED
    BY <1>6, <1>10, <1>11, CountUp
<1>13. Pressed(f) = a \o Pressed(h) /\ Pressed(h) \in Seq(Keys)
  <2>1. m \in 0..m /\ m + 1 = Len(f)
    BY <1>2, <1>4, <1>6
  <2>2. p[m + 1] = a \o q[m]
    BY <1>12, <2>1
  <2>. QED
    BY <1>4, <1>7, <2>1, <2>2 DEF Pressed
<1>14. PICK g \in Seq(Keys) : g = Pressed(h)
  BY <1>13
<1>15. IsLast(f[1]) => <<f[1][1]>> \o g # << >> /\ Head(<<f[1][1]>> \o g) = f[1][1] /\ Tail(<<f[1][1]>> \o g) = g
  <2>1. f[1][1] \in Keys
    BY <1>2, <1>5
  <2>. QED
    BY <2>1
<1>. QED
  BY <1>1, <1>8, <1>13, <1>14, <1>15

-----------------------------------------------------------------------------

(***************************************************************************)
(* serial_poll is a line editor.                                           *)
(***************************************************************************)

\* The line, the cursor and the keys of the editor.
LEMMA LineFacts ==
  ASSUME EditOnly, EditOrder
  PROVE  /\ Line \in Seq(Char) /\ Len(Line) = ed.bufferCount
         /\ ed.bufferCount \in Nat /\ ed.bufferCount <= Capacity
         /\ ed.index \in 0..ed.bufferCount
         /\ wire = << >> /\ Whole(fifo) /\ fifo \o wire = fifo
         /\ Pressed(fifo) \in Seq(Keys) /\ Len(Pressed(fifo)) <= Len(fifo)
         /\ Phase \in {"caller", "edit", "stop"}
         /\ Phase = "edit" => ed.bufferCount < Capacity
<1>1. BytesInv /\ CursorAt /\ EditInv
  BY DEF EditOrder, PromptInv, EditInv
<1>2. Capacity \in Nat \ {0}
  BY DEF EditOnly
<1>3. Line \in Seq(Char) /\ Len(Line) = ed.bufferCount /\ ed.bufferCount <= Capacity
  <2>1. CASE pc = "caller" /\ bufferListLength = 0
    <3>1. ed.bufferCount = 0
      BY <1>1, <2>1 DEF EditInv
    <3>2. Line = << >>
      BY <3>1 DEF Line
    <3>. QED
      BY <1>2, <3>1, <3>2
  <2>2. CASE ~(pc = "caller" /\ bufferListLength = 0)
    <3>1. Row(mem[dest], ed.bufferCount) /\ ed.buffer = dest
      BY <1>1, <2>2 DEF EditInv
    <3>2. Line = LineOf(mem[dest], ed.bufferCount)
      BY <3>1 DEF Line, LineOf
    <3>3. PICK row, n : row = mem[dest] /\ n = ed.bufferCount
      OBVIOUS
    <3>4. LineOf(row, n) \in Seq(Char) /\ Len(LineOf(row, n)) = n
      BY <1>2, <3>1, <3>3, RowLine
    <3>5. ed.bufferCount <= Capacity
      BY <1>2, <3>1 DEF Row
    <3>. QED
      BY <3>2, <3>3, <3>4, <3>5
  <2>. QED
    BY <2>1, <2>2
<1>4. wire = << >> /\ Whole(fifo) /\ Bytewise(fifo)
  BY <1>1 DEF BytesInv, Whole, Bytewise
<1>5. fifo \o wire = fifo
  BY <1>4 DEF Bytewise
<1>6. Pressed(fifo) \in Seq(Keys) /\ Len(Pressed(fifo)) <= Len(fifo)
  BY <1>4, PressedType
<1>7. Phase \in {"caller", "edit", "stop"} /\ (Phase = "edit" => ed.bufferCount < Capacity)
  BY <1>1 DEF Phase, EditInv
<1>. QED
  BY <1>1, <1>3, <1>4, <1>5, <1>6, <1>7 DEF CursorAt

\* What the editor says of its state.
LEMMA EditorState ==
  ASSUME EditOnly, EditOrder
  PROVE  TypeOK /\ InLine
<1>1. Keys \subseteq Char \cup Editor!Editing
  BY DEF EditOnly
<1>2. PICK K : K = Char \cup Editor!Editing
  OBVIOUS
<1>3. Pressed(fifo) \in Seq(K)
  <2>1. Pressed(fifo) \in Seq(Keys)
    BY LineFacts
  <2>. QED
    BY <1>1, <1>2, <2>1
<1>4. Pressed(fifo \o wire) \in Seq(Char \cup Editor!Editing)
  BY <1>2, <1>3, LineFacts
<1>5. TypeOK
  BY <1>4, LineFacts DEF TypeOK, Editor!TypeOK
<1>6. InLine
  BY LineFacts DEF InLine, Editor!InLine
<1>. QED
  BY <1>5, <1>6

\* With the keys that edit, the line consists of characters and the keys pressed
\* ahead are keys, whatever is pressed when.
THEOREM TypeCorrect == ASSUME EditOnly PROVE Spec => []TypeOK
  BY EditorState, EditAlways, PTL

\* For any size of the buffers the cursor stays in the line and the line in its
\* buffer, with room for another character while keys are read.
THEOREM CursorStays == ASSUME EditOnly PROVE Spec => []InLine
  BY EditorState, EditAlways, PTL

\* The keys that wait, before a step and after it.
KeysStep ==
  /\ Pressed(fifo \o wire) = Pressed(fifo)
  /\ Pressed(fifo' \o wire') = Pressed(fifo')

LEMMA KeysWait ==
  ASSUME EditOnly, EditOrder, EditOrder'
  PROVE  KeysStep
<1>1. BytesInv'
  BY DEF EditOrder, PromptInv, EditInv
<1>2. fifo' \in Seq(Keys \X Nat) /\ wire' = << >>
  BY <1>1 DEF BytesInv, Whole
<1>3. fifo' \o wire' = fifo' /\ fifo \o wire = fifo
  BY <1>2, LineFacts
<1>. QED
  BY <1>3 DEF KeysStep

\* The editor's step for a key: it takes the key and does what Edited says.
LEMMA EditorTakes ==
  ASSUME EditOnly, EditOrder, NEW k \in Keys, Edited(k), Phase = "edit", KeysStep,
         Pressed(fifo) # << >>, Head(Pressed(fifo)) = k, Pressed(fifo') = Tail(Pressed(fifo))
  PROVE  Editor!Next
<1>1. Editor!Take(k)
  BY DEF Editor!Take, KeysStep
<1>2. Len(Line) \in Nat /\ ed.index \in 0..Len(Line)
  BY LineFacts
<1>3. /\ pc' = "poll" => Phase' = "edit"
      /\ pc' = "stop" => Phase' = "stop"
  BY DEF Phase
<1>4. CASE /\ k \in Char /\ Line' = InsertAt(Line, ed.index + 1, k) /\ ed'.index = ed.index + 1
           /\ pc' = IF Len(Line) + 1 < Capacity THEN "poll" ELSE "stop"
  <2>1. Line' = Editor!InsertAt(Line, ed.index + 1, k)
    BY <1>4 DEF InsertAt, Editor!InsertAt
  <2>2. Editor!Type(k)
    BY <1>1, <1>3, <1>4, <2>1 DEF Editor!Type
  <2>. QED
    BY <1>4, <2>2 DEF Editor!Next
<1>5. CASE /\ k = "backspace" /\ pc' = "poll"
           /\ IF ed.index > 0 THEN Line' = RemoveAt(Line, ed.index) /\ ed'.index = ed.index - 1
              ELSE Line' = Line /\ ed'.index = ed.index
  <2>1. Editor!RemoveAt(Line, ed.index) = RemoveAt(Line, ed.index)
    BY DEF RemoveAt, Editor!RemoveAt
  <2>2. Editor!TakeBackspace
    BY <1>1, <1>3, <1>5, <2>1 DEF Editor!TakeBackspace, Editor!Backspace
  <2>. QED
    BY <2>2 DEF Editor!Next
<1>6. CASE /\ k = "delete" /\ pc' = "poll" /\ ed'.index = ed.index
           /\ Line' = IF ed.index < Len(Line) THEN RemoveAt(Line, ed.index + 1) ELSE Line
  <2>1. Editor!RemoveAt(Line, ed.index + 1) = RemoveAt(Line, ed.index + 1)
    BY DEF RemoveAt, Editor!RemoveAt
  <2>2. Editor!TakeDelete
    BY <1>1, <1>3, <1>6, <2>1 DEF Editor!TakeDelete, Editor!Delete
  <2>. QED
    BY <2>2 DEF Editor!Next
<1>7. CASE k = "left" /\ Moves(IF ed.index = 0 THEN 0 ELSE ed.index - 1)
  <2>1. Editor!TakeLeft
    BY <1>1, <1>3, <1>7 DEF Editor!TakeLeft, Editor!Left, Moves
  <2>. QED
    BY <2>1 DEF Editor!Next
<1>8. CASE k = "right" /\ Moves(IF ed.index = Len(Line) THEN ed.index ELSE ed.index + 1)
  <2>1. Editor!TakeRight
    BY <1>1, <1>3, <1>8 DEF Editor!TakeRight, Editor!Right, Moves
  <2>. QED
    BY <2>1 DEF Editor!Next
<1>9. CASE k = "enter" /\ Line' = Line /\ ed'.index = ed.index /\ pc' = "stop"
  <2>1. Editor!TakeEnter
    BY <1>1, <1>3, <1>9 DEF Editor!TakeEnter, Editor!Enter
  <2>. QED
    BY <2>1 DEF Editor!Next
<1>. QED
  BY <1>4, <1>5, <1>6, <1>7, <1>8, <1>9 DEF Edited

\* Every step of serial_poll is one of the editor, or none.
LEMMA EditorStep ==
  ASSUME EditOnly, EditOrder, EditOrder', [Next]_vars
  PROVE  Editor!Next \/ UNCHANGED Editor!vars
<1>1. KeysStep
  BY KeysWait
<1>2. /\ wire = << >> /\ Whole(fifo) /\ Len(Pressed(fifo)) <= Len(fifo)
      /\ Len(fifo) \in Nat /\ Len(Pressed(fifo)) \in Nat
  BY LineFacts DEF Whole
<1>3. BytesInv /\ CursorAt /\ EditInv /\ HistoryInv /\ PromptInv
  BY DEF EditOrder, PromptInv, EditInv
<1>4. ASSUME NEW k \in Keys, Press(k) PROVE Editor!Next
  <2>1. UNCHANGED <<mem, dest, ed, pc, terminal>> /\ Len(fifo) + Len(wire) < Ahead /\ fifo' = fifo \o Sent(k)
    BY <1>3, <1>4 DEF Press, EditInv
  <2>2. Pressed(fifo') = Append(Pressed(fifo), k)
    BY <1>2, <2>1, PressedSent
  <2>3. Len(Pressed(fifo)) < Ahead
    BY <1>2, <2>1 DEF EditOnly
  <2>4. Line' = Line /\ ed'.index = ed.index /\ Phase' = Phase
    BY <2>1 DEF Line, Phase
  <2>5. Editor!Press(k)
    BY <1>1, <2>2, <2>3, <2>4 DEF Editor!Press, KeysStep
  <2>6. k \in Char \cup Editor!Editing
    BY DEF EditOnly
  <2>. QED
    BY <2>5, <2>6 DEF Editor!Next
<1>5. ASSUME Arrive PROVE FALSE
  BY <1>2, <1>5 DEF Arrive
<1>6. ASSUME NEW b \in Buffer, Call(b) PROVE Editor!Next
  <2>1. Line' = << >>
    BY <1>3, <1>6, CallEdits
  <2>2. pc = "caller" /\ pc' = "poll" /\ ed'.index = 0 /\ UNCHANGED <<fifo, wire>>
    BY <1>6 DEF Call, Fresh
  <2>3. Editor!Call
    BY <2>1, <2>2 DEF Editor!Call, Phase
  <2>. QED
    BY <2>3 DEF Editor!Next
<1>7. ASSUME Poll PROVE Editor!Next \/ UNCHANGED Editor!vars
  <2>1. /\ pc \notin {"caller", "stop"} /\ fifo # << >> /\ fifo' = Tail(fifo)
        /\ fifo[1][1] \in Keys
        /\ IsLast(fifo[1]) => Edited(fifo[1][1])
        /\ ~IsLast(fifo[1]) => Line' = Line /\ ed' = ed /\ pc' \notin {"caller", "stop"}
    BY <1>3, <1>7, PollEdits
  <2>2. PICK k \in Keys : k = fifo[1][1]
    BY <2>1
  <2>3. /\ IsLast(fifo[1]) => /\ Pressed(fifo) # << >> /\ Head(Pressed(fifo)) = k
                              /\ Pressed(fifo') = Tail(Pressed(fifo))
        /\ ~IsLast(fifo[1]) => Pressed(fifo') = Pressed(fifo)
    BY <1>2, <2>1, <2>2, PressedTail
  <2>4. Phase = "edit"
    BY <2>1 DEF Phase
  <2>5. CASE IsLast(fifo[1])
    <3>1. Edited(k)
      BY <2>1, <2>2, <2>5
    <3>2. Editor!Next
      BY <1>1, <2>3, <2>4, <2>5, <3>1, EditorTakes
    <3>. QED
      BY <3>2
  <2>6. CASE ~IsLast(fifo[1])
    <3>1. Line' = Line /\ ed'.index = ed.index /\ Phase' = Phase
      BY <2>1, <2>4, <2>6 DEF Phase
    <3>. QED
      BY <1>1, <2>3, <2>6, <3>1 DEF Editor!vars, KeysStep
  <2>. QED
    BY <2>5, <2>6
<1>8. ASSUME Return PROVE Editor!Next
  <2>1. UNCHANGED <<mem, ed, fifo, wire>> /\ pc = "stop" /\ pc' = "caller"
    BY <1>8 DEF Return
  <2>2. Editor!Return
    BY <2>1 DEF Editor!Return, Line, Phase
  <2>. QED
    BY <2>2 DEF Editor!Next
<1>9. ASSUME UNCHANGED vars PROVE UNCHANGED Editor!vars
  BY <1>9 DEF vars, Editor!vars, Line, Phase
<1>. QED
  BY <1>4, <1>5, <1>6, <1>7, <1>8, <1>9 DEF Next, Poll

\* At the start the editor has no line.
LEMMA EditorInit ==
  ASSUME EditOnly, EditOrder, Init
  PROVE  Editor!Init
<1>1. Line = << >>
  BY DEF Init, Fresh, Line
<1>2. Len(Pressed(fifo)) <= Len(fifo) /\ Pressed(fifo) \in Seq(Keys) /\ fifo \o wire = fifo
  BY LineFacts
<1>3. fifo = << >> /\ ed.index = 0 /\ pc = "caller"
  BY DEF Init, Fresh
<1>4. Len(Pressed(fifo)) = 0
  BY <1>2, <1>3
<1>5. Pressed(fifo \o wire) = << >>
  BY <1>2, <1>4, EmptySeq
<1>. QED
  BY <1>1, <1>3, <1>5 DEF Editor!Init, Phase

\* With the keys that edit, for any buffers, keys and lengths, serial_poll is the
\* line editor: byte by byte and with a buffer to shift, every key does to the line
\* what it should, in the order in which the keys were pressed.
THEOREM ImplementsEditor == ASSUME EditOnly PROVE Spec => Implements
<1>1. Init /\ EditOrder => Editor!Init
  BY EditorInit
<1>2. EditOrder /\ EditOrder' /\ [Next]_vars => [Editor!Next]_(Editor!vars)
  BY EditorStep
<1>. QED
  BY <1>1, <1>2, EditAlways, PTL DEF Spec, Implements, Editor!Spec

SameBehind == SubSeq(Line', ed'.index + 1, Len(Line')) = SubSeq(Line, ed.index + 1, Len(Line))
SameInFront == /\ SubSeq(Line', 1, ed'.index) = SubSeq(Line, 1, ed.index)
               /\ Len(Line') = Len(Line) - 1

\* Each key keeps what is in front of the cursor, or what is behind it.
LEMMA OneSidedStep ==
  ASSUME EditOnly, EditOrder, EditOrder', Editor!Next, Phase = "edit", Line' # Line
  PROVE  SameBehind \/ SameInFront
<1>1. Line \in Seq(Char) /\ Len(Line) \in Nat /\ ed.index \in Nat /\ ed.index <= Len(Line)
  BY LineFacts
<1>2. PICK t, u, x, y : t = Line /\ u = Line' /\ x = ed.index /\ y = ed'.index
  OBVIOUS
<1>3. ASSUME NEW c \in Char, Editor!Type(c) PROVE SameBehind
  <2>1. u = InsertAt(t, x + 1, c) /\ y = x + 1
    BY <1>2, <1>3 DEF Editor!Type, Editor!InsertAt, InsertAt
  <2>2. t \in Seq(Char) /\ x \in 0..Len(t)
    BY <1>1, <1>2
  <2>3. SameRest(u, y, t, x)
    BY <2>1, <2>2, InsertKeepsRest
  <2>. QED
    BY <1>2, <2>3 DEF SameBehind, SameRest
<1>4. CASE Editor!TakeBackspace
  <2>0. x > 0 /\ u = Editor!RemoveAt(t, x) /\ y = x - 1
    BY <1>2, <1>4 DEF Editor!TakeBackspace
  <2>1. u = RemoveAt(t, x) /\ y = x - 1 /\ x \in 1..Len(t) /\ t \in Seq(Char) /\ Len(t) \in Nat
    <3>1. Editor!RemoveAt(t, x) = RemoveAt(t, x)
      BY DEF Editor!RemoveAt, RemoveAt
    <3>. QED
      BY <1>1, <1>2, <2>0, <3>1
  <2>2. SameRest(u, y, t, x)
    BY <2>1, RemoveKeepsRest
  <2>. QED
    BY <1>2, <2>2 DEF SameBehind, SameRest
<1>5. CASE Editor!TakeDelete
  <2>1. PICK k : k = x + 1
    OBVIOUS
  <2>2. u = RemoveAt(t, k) /\ y = x /\ k \in 1..Len(t) /\ t \in Seq(Char) /\ Len(t) \in Nat
    <3>1. Editor!RemoveAt(t, k) = RemoveAt(t, k)
      BY DEF Editor!RemoveAt, RemoveAt
    <3>2. x < Len(t) /\ u = Editor!RemoveAt(t, k) /\ y = x
      BY <1>2, <1>5, <2>1 DEF Editor!TakeDelete
    <3>. QED
      BY <1>1, <1>2, <2>1, <3>1, <3>2
  <2>3. SameStart(u, t, x) /\ Len(u) = Len(t) - 1
    BY <1>1, <1>2, <2>1, <2>2, RemoveKeepsStart
  <2>. QED
    BY <1>2, <2>2, <2>3 DEF SameInFront, SameStart
<1>. QED
  BY <1>3, <1>4, <1>5
  DEF Editor!Next, Editor!Press, Editor!Call, Editor!TakeLeft, Editor!TakeRight, Editor!TakeEnter, Editor!Return

\* With the keys that edit, each key changes the line on one side of the cursor
\* only, for any line.
THEOREM KeysOneSided == ASSUME EditOnly PROVE Spec => OneSided
<1>1. EditOrder /\ EditOrder' /\ [Next]_vars =>
        [Phase = "edit" /\ Line' # Line =>
           \/ SubSeq(Line', (ed.index)' + 1, Len(Line')) = SubSeq(Line, ed.index + 1, Len(Line))
           \/ /\ SubSeq(Line', 1, (ed.index)') = SubSeq(Line, 1, ed.index)
              /\ Len(Line') = Len(Line) - 1]_(Editor!vars)
  <2> SUFFICES ASSUME EditOrder, EditOrder', [Next]_vars, Phase = "edit", Line' # Line, Editor!Next
               PROVE  SameBehind \/ SameInFront
    BY EditorStep DEF SameBehind, SameInFront
  <2>. QED
    BY OneSidedStep
<1>. QED
  BY <1>1, EditAlways, PTL DEF Spec, OneSided, Editor!OneSided

=============================================================================
