----------------------------- MODULE SerialEdit -----------------------------
(***************************************************************************)
(* serial_poll (SerialPoll) with the keys that edit is, for its callers,   *)
(* the line editor of LineEditor.                                          *)
(***************************************************************************)
EXTENDS SerialPoll

CONSTANT Capacity   \* characters that fit into a line

-----------------------------------------------------------------------------

(***************************************************************************)
(* The line serial_poll is editing, as the editor has it.  A key is pressed *)
(* until its last byte has been read.                                      *)
(***************************************************************************)
Line == [i \in 1..ed.bufferCount |-> mem[ed.buffer][i - 1]]

IsLast(b) == b[2] = Len(Bytes(b[1]))

\* The keys of which the last byte is among the first i bytes.
PressedIn(bytes) ==
  LET upto[i \in 0..Len(bytes)] ==
        IF i = 0 THEN << >>
        ELSE IF IsLast(bytes[i]) THEN Append(upto[i - 1], bytes[i][1]) ELSE upto[i - 1]
  IN  upto

Pressed(bytes) == PressedIn(bytes)[Len(bytes)]

Phase == IF pc \in {"caller", "stop"} THEN pc ELSE "edit"

Editor == INSTANCE LineEditor
            WITH text <- Line, cursor <- ed.index, keys <- Pressed(fifo \o wire),
                 phase <- Phase

\* What makes serial_poll a line editor: no keys but those that edit, at a
\* terminal that sends keys whole, and callers that clear their buffers.
EditOnly ==
  /\ Ahead \in Nat /\ Capacity \in Nat \ {0}
  /\ Keys \subseteq Char \cup Editor!Editing
  /\ \A b \in Buffer : Size[b] = Capacity + 1
  /\ Zeroed = Buffer
  /\ Terminals = {"prompt"}

-----------------------------------------------------------------------------

\* The line consists of characters, and what was pressed of keys.
TypeOK == Editor!TypeOK

\* The cursor stays in the line and the line in the buffer, with room for
\* another character while keys are read.
InLine == Editor!InLine

\* Each key changes the line on one side of the cursor only.
OneSided == Editor!OneSided

\* Byte by byte and with a buffer to shift, serial_poll is the line editor:
\* every key does to the line what it should, in the order of the keys.
Implements == Editor!Spec

=============================================================================
