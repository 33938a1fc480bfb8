---------------------------- MODULE Conversions ----------------------------
(***************************************************************************)
(* lib/stdlib.c and strtok of lib/string.c.  A character is its distance   *)
(* from '0', so that a digit is its value; an int has Width bits.          *)
(***************************************************************************)
EXTENDS Integers, SequencesExt

CONSTANTS Width,
          Ints,     \* the numbers that are printed
          Strings,  \* the strings that are parsed
          NULL

ASSUME ConversionsAssumption ==
  /\ Width \in Nat \ {0}
  /\ Ints \subseteq -(2 ^ (Width - 1)) .. 2 ^ (Width - 1) - 1

VARIABLES input,    \* the string strtok was first called with
          memory,   \* that string in memory, with its terminator
          tok_tmp,  \* strtok's position, or NULL
          tokens,   \* the positions it has returned
          number,   \* what is converted: a number for itoa, or NULL
          text      \* what itoa has made of it, or the string for atoi

vars == <<input, memory, tok_tmp, tokens, number, text>>

-----------------------------------------------------------------------------

Minus == -3
Plus == -5
Space == -16
NUL == -48

Wrap(x) == ((x + 2 ^ (Width - 1)) % 2 ^ Width) - 2 ^ (Width - 1)

Quot(a, b) == IF a >= 0 THEN a \div b ELSE -((-a) \div b)
Rem(a, b) == a - b * Quot(a, b)

First(s, Test(_), from) ==
  LET found == {i \in from .. Len(s) : Test(s[i])}
  IN  IF found = {} THEN Len(s) + 1 ELSE CHOOSE i \in found : \A j \in found : i <= j

\* Mutant: a plus sign ends the number.
atoi_no_plus(s) ==
  LET start == First(s, LAMBDA c : c # Space, 1)
      signed == start <= Len(s) /\ s[start] = Minus
      first == IF signed THEN start + 1 ELSE start
      digits == SubSeq(s, first, First(s, LAMBDA c : c \notin 0..9, first) - 1)
      res == FoldLeft(LAMBDA r, c : Wrap(r * 10 + c), 0, digits)
  IN  IF signed THEN Wrap(-res) ELSE res

atoi(s) ==
  LET start == First(s, LAMBDA c : c # Space, 1)
      signed == start <= Len(s) /\ s[start] \in {Minus, Plus}
      first == IF signed THEN start + 1 ELSE start
      digits == SubSeq(s, first, First(s, LAMBDA c : c \notin 0..9, first) - 1)
      res == FoldLeft(LAMBDA r, c : Wrap(r * 10 + c), 0, digits)
  IN  IF signed /\ s[start] = Minus THEN Wrap(-res) ELSE res

\* The digits of the loop, the last first; it ends when the rest is not positive.
Digits[n \in Int] ==
  IF Quot(n, 10) > 0 THEN <<Rem(n, 10)>> \o Digits[Quot(n, 10)] ELSE <<Rem(n, 10)>>

\* Mutant: the sign comes before the digits are reversed.
itoa_sign(n) ==
  LET digits == Digits[IF n < 0 THEN Wrap(-n) ELSE n]
  IN  Reverse(IF n < 0 THEN <<Minus>> \o digits ELSE digits)

itoa(n) ==
  LET digits == Digits[IF n < 0 THEN Wrap(-n) ELSE n]
  IN  Reverse(IF n < 0 THEN Append(digits, Minus) ELSE digits)

-----------------------------------------------------------------------------

Init ==
  /\ input = << >> /\ memory = <<NUL>> /\ tok_tmp = NULL /\ tokens = << >>
  /\ number = NULL /\ text = << >>

Fresh == number = NULL /\ text = << >> /\ tokens = << >>

\* A number is printed.
PrintNumber(n) ==
  /\ Fresh
  /\ number' = n
  /\ text' = itoa(n)
  /\ UNCHANGED <<input, memory, tok_tmp, tokens>>

\* A line is read.
ReadLine(s) ==
  /\ Fresh
  /\ number' = NULL
  /\ text' = s
  /\ UNCHANGED <<input, memory, tok_tmp, tokens>>

\* Mutant: the delimiter stays where it is.
Parse_kept(m, s1, given) ==
  LET begin == First(m, LAMBDA c : c # Space, s1)
      end == First(m, LAMBDA c : c \in {Space, NUL}, begin)
  IN  /\ tok_tmp' = IF m[begin] = NUL \/ m[end] = NUL THEN NULL ELSE end + 1
      /\ memory' = m
      /\ tokens' = Append(given, IF m[begin] = NUL THEN NULL ELSE begin)

\* One call of strtok that goes on at position s1 of m, with a space as the only
\* delimiter.
Parse(m, s1, given) ==
  LET begin == First(m, LAMBDA c : c # Space, s1)
      end == First(m, LAMBDA c : c \in {Space, NUL}, begin)
  IN  /\ tok_tmp' = IF m[begin] = NUL \/ m[end] = NUL THEN NULL ELSE end + 1
      /\ memory' = IF m[begin] = NUL THEN m ELSE [m EXCEPT ![end] = NUL]
      /\ tokens' = Append(given, IF m[begin] = NUL THEN NULL ELSE begin)

strtok(s) ==
  /\ Fresh
  /\ input' = s
  /\ Parse(Append(s, NUL), 1, << >>)
  /\ UNCHANGED <<number, text>>

\* Bound: one call after the last token.
strtok_NULL ==
  /\ tokens # << >> /\ Last(tokens) # NULL
  /\ IF tok_tmp = NULL
     THEN tokens' = Append(tokens, NULL) /\ UNCHANGED <<tok_tmp, memory>>
     ELSE Parse(memory, tok_tmp, tokens)
  /\ UNCHANGED <<input, number, text>>

\* The caller is done, perhaps before the last token: strtok keeps its position.
Again ==
  /\ input' = << >> /\ memory' = <<NUL>> /\ tokens' = << >>
  /\ number' = NULL /\ text' = << >>
  /\ UNCHANGED tok_tmp

Next ==
  \/ Again
  \/ \E n \in Ints : PrintNumber(n)
  \/ \E s \in Strings : ReadLine(s) \/ strtok(s)
  \/ strtok_NULL

Spec == Init /\ [][Next]_vars

-----------------------------------------------------------------------------

\* What is printed can be read again, as the address of a block is: except for
\* the least int, whose absolute value is not an int, itoa and atoi are inverse.
RoundTrip == number # NULL /\ number # -(2 ^ (Width - 1)) => atoi(text) = number

IsNumeral(s) == s # << >> /\ \A i \in DOMAIN s : s[i] \in 0..9
Value(s) == FoldLeft(LAMBDA sum, i : sum + s[i] * 10 ^ (Len(s) - i), 0, [i \in DOMAIN s |-> i])

\* A line of spaces, a sign and a numeral that an int can hold is parsed as the
\* number it stands for, whatever comes after it.
ParsedAsWritten ==
  \A from, to \in DOMAIN text :
    LET numeral == SubSeq(text, from, to)
        before == SubSeq(text, 1, from - 1)
    IN  /\ IsNumeral(numeral) /\ Value(numeral) < 2 ^ (Width - 1)
        /\ to = Len(text) \/ text[to + 1] \notin 0..9
        /\ from > 1 => text[from - 1] \in {Space, Plus, Minus}
        /\ \A i \in 1 .. from - 2 : text[i] = Space
        => atoi(text) = IF before # << >> /\ Last(before) = Minus THEN -Value(numeral)
                        ELSE Value(numeral)

\* The string at a position of memory, as strlen and WRITE see it.
At(p) == SubSeq(memory, p, First(memory, LAMBDA c : c = NUL, p) - 1)

\* The words of the input, in order: what is between two spaces or ends.
Words ==
  LET Starts == {i \in DOMAIN input : input[i] # Space /\ (i = 1 \/ input[i - 1] = Space)}
      Word(i) == SubSeq(input, i, First(input, LAMBDA c : c = Space, i) - 1)
  IN  [k \in 1 .. Cardinality(Starts) |->
        Word(CHOOSE i \in Starts : Cardinality({j \in Starts : j <= i}) = k)]

\* The calls of strtok return the words, the first ones first; each is still
\* intact when the later ones have been returned; and then NULL.
TokensAreWords ==
  LET given == SelectSeq(tokens, LAMBDA p : p # NULL)
      texts == [k \in DOMAIN given |-> At(given[k])]
  IN  tokens # << >> => /\ IsPrefix(texts, Words)
                        /\ Last(tokens) = NULL => texts = Words

=============================================================================
