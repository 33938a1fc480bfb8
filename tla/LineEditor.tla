----------------------------- MODULE LineEditor -----------------------------
(***************************************************************************)
(* What reading a line at the console promises: a text and a cursor in it, *)
(* changed by one key at a time in the order the keys were pressed, until  *)
(* enter, or until the text has as many characters as fit.  serial_poll    *)
(* implements it (module SerialPoll).                                      *)
(***************************************************************************)
EXTENDS Integers, SequencesExt

CONSTANTS Char,      \* the characters a key can enter
          Capacity,  \* characters that fit into a line
          Ahead      \* bound: keys pressed and not yet read

Left == "left"
Right == "right"
Backspace == "backspace"
Delete == "delete"
Enter == "enter"
Editing == {Left, Right, Backspace, Delete, Enter}

VARIABLES text,    \* the line
          cursor,  \* how many characters are in front of the cursor
          keys,    \* pressed and not yet read
          phase    \* "caller": no line is being read; "edit"; "stop": it has ended

vars == <<text, cursor, keys, phase>>

Init ==
  /\ text = << >> /\ cursor = 0 /\ keys = << >> /\ phase = "caller"

Press(k) ==
  /\ Len(keys) < Ahead
  /\ keys' = Append(keys, k)
  /\ UNCHANGED <<text, cursor, phase>>

\* A new line is asked for.
Call ==
  /\ phase = "caller"
  /\ text' = << >> /\ cursor' = 0 /\ phase' = "edit"
  /\ UNCHANGED keys

\* The next key, k, is read.
Take(k) == phase = "edit" /\ keys # << >> /\ Head(keys) = k /\ keys' = Tail(keys)

Type(c) ==
  /\ Take(c)
  /\ text' = InsertAt(text, cursor + 1, c)
  /\ cursor' = cursor + 1
  /\ phase' = IF Len(text) + 1 < Capacity THEN "edit" ELSE "stop"

TakeBackspace ==
  /\ Take(Backspace)
  /\ IF cursor > 0
     THEN text' = RemoveAt(text, cursor) /\ cursor' = cursor - 1
     ELSE UNCHANGED <<text, cursor>>
  /\ UNCHANGED phase

TakeDelete ==
  /\ Take(Delete)
  /\ text' = IF cursor < Len(text) THEN RemoveAt(text, cursor + 1) ELSE text
  /\ UNCHANGED <<cursor, phase>>

TakeLeft ==
  /\ Take(Left)
  /\ cursor' = IF cursor = 0 THEN 0 ELSE cursor - 1
  /\ UNCHANGED <<text, phase>>

TakeRight ==
  /\ Take(Right)
  /\ cursor' = IF cursor = Len(text) THEN cursor ELSE cursor + 1
  /\ UNCHANGED <<text, phase>>

TakeEnter ==
  /\ Take(Enter)
  /\ phase' = "stop"
  /\ UNCHANGED <<text, cursor>>

\* The caller has the line.
Return ==
  /\ phase = "stop"
  /\ phase' = "caller"
  /\ UNCHANGED <<text, cursor, keys>>

Next ==
  \/ \E k \in Char \cup Editing : Press(k)
  \/ Call
  \/ \E c \in Char : Type(c)
  \/ TakeBackspace \/ TakeDelete \/ TakeLeft \/ TakeRight \/ TakeEnter
  \/ Return

Spec == Init /\ [][Next]_vars

-----------------------------------------------------------------------------

TypeOK ==
  /\ text \in Seq(Char)
  /\ cursor \in Nat
  /\ keys \in Seq(Char \cup Editing)
  /\ phase \in {"caller", "edit", "stop"}

\* The cursor is in the line, and the line in its buffer; while keys are
\* taken there is room for another character.
InLine ==
  /\ cursor <= Len(text)
  /\ Len(text) <= Capacity
  /\ phase = "edit" => Len(text) < Capacity

\* What is in front of the cursor and what is behind it are only changed by
\* the key for that side: no key changes both.
OneSided ==
  [][phase = "edit" /\ text' # text =>
       \/ SubSeq(text', cursor' + 1, Len(text')) = SubSeq(text, cursor + 1, Len(text))
       \/ /\ SubSeq(text', 1, cursor') = SubSeq(text, 1, cursor)
          /\ Len(text') = Len(text) - 1]_vars

=============================================================================
