-------------------------------- MODULE Rtc --------------------------------
(***************************************************************************)
(* user/time.c, user/date.c and the commands of user/comhand.c that use    *)
(* them: the registers of the real time clock, which hold BCD, are read    *)
(* and written one by one while the clock runs.                            *)
(***************************************************************************)
EXTENDS Integers, Sequences, FiniteSets, Bitwise

CONSTANTS Inputs,       \* what is entered for "set date" and "set time": see setval
          Starts,       \* the times at which the commands begin
          MaxTicks,     \* bound: seconds that pass
          TicksDuring,  \* a set: whether a second may end in the middle of a command
          NULL

ASSUME RtcAssumption ==
  /\ MaxTicks \in Nat
  /\ TicksDuring \subseteq BOOLEAN

VARIABLES reg,    \* the registers: field -> BCD
          todo,   \* the accesses the command has still to make: <<field, value>>
          what,   \* the command is about "date" or "time"
          shown,  \* the numbers printed so far
          asked,  \* the date or time being set, or NULL
          seen,   \* the dates or times the clock had since the reading began
          ticks, panicked,
          during  \* one of TicksDuring

vars == <<reg, todo, what, shown, asked, seen, ticks, panicked, during>>

-----------------------------------------------------------------------------

(***************************************************************************)
(* BCD, with the division and the shifts of C on numbers of 16 bits.       *)
(***************************************************************************)
Quot(a, b) == IF a >= 0 THEN a \div b ELSE -((-a) \div b)
Rem(a, b) == a - b * Quot(a, b)

bcd_to_binary(bcd) ==
  LET digit(place) == (bcd \div place) % 16
  IN  digit(4096) * 1000 + digit(256) * 100 + digit(16) * 10 + digit(1)

binary_to_bcd(n) ==
  ((Quot(n, 1000) * 4096) % 65536) | ((Rem(Quot(n, 100), 10) * 256) % 65536)
    | ((Rem(Quot(n, 10), 10) * 16) % 65536) | (Rem(n, 10) % 65536)

\* The conversion in set_time.
two_digits(n) == (Quot(n, 10) * 16) | Rem(n, 10)

TimeFields == <<"h", "m", "s">>
DateFields == <<"month", "day", "year">>
Fields(w) == IF w = "time" THEN TimeFields ELSE DateFields

\* The date or the time, as numbers.
Now(r, w) == [i \in 1..3 |-> bcd_to_binary(r[Fields(w)[i]])]

days_in_month(month, year) ==
  CASE month = 2 -> IF (year % 4 = 0 /\ year % 100 # 0) \/ year % 400 = 0 THEN 29 ELSE 28
    [] month \in {4, 6, 9, 11} -> 30
    [] OTHER -> 31

-----------------------------------------------------------------------------

(***************************************************************************)
(* The clock (external).  Its year has two digits and every fourth is a    *)
(* leap year; a day past the end of the month is followed by the first.    *)
(***************************************************************************)

Advanced(r) ==
  LET t == Now(r, "time")
      d == Now(r, "date")
      days == IF d[1] = 2 THEN IF d[3] % 4 = 0 THEN 29 ELSE 28 ELSE days_in_month(d[1], 1)
      minute == t[3] >= 59
      hour == minute /\ t[2] >= 59
      midnight == hour /\ t[1] >= 23
      month == midnight /\ d[2] >= days
      year == month /\ d[1] >= 12
      Step(carry, over, n, first) ==
        two_digits(IF over THEN first ELSE IF carry THEN n + 1 ELSE n)
  IN  [s |-> Step(TRUE, minute, t[3], 0),
       m |-> Step(minute, hour, t[2], 0),
       h |-> Step(hour, midnight, t[1], 0),
       day |-> Step(midnight, month, d[2], 1),
       month |-> Step(month, year, d[1], 1),
       year |-> Step(year, year /\ d[3] >= 99, d[3], 0)]

Tick ==
  /\ ticks < MaxTicks
  /\ during \/ todo = << >>
  /\ reg' = Advanced(reg)
  /\ seen' = IF todo = << >> THEN seen ELSE seen \cup {Now(reg', what)}
  /\ ticks' = ticks + 1
  /\ UNCHANGED <<todo, what, shown, asked, panicked, during>>

-----------------------------------------------------------------------------

Init ==
  /\ reg \in {[h |-> two_digits(x[1]), m |-> two_digits(x[2]), s |-> two_digits(x[3]),
               month |-> two_digits(x[4]), day |-> two_digits(x[5]),
               year |-> two_digits(x[6])] : x \in Starts}
  /\ todo = << >> /\ what = "time" /\ shown = << >> /\ asked = NULL /\ seen = {}
  /\ ticks = 0 /\ panicked = FALSE
  /\ during \in TicksDuring

\* Mutant: the last two are read in the wrong order.
Reads_order(w) == <<<<Fields(w)[1], NULL>>, <<Fields(w)[3], NULL>>, <<Fields(w)[2], NULL>>>>

\* get_time and get_date read hours, minutes, seconds, or month, day, year.
Reads(w) == <<<<Fields(w)[1], NULL>>, <<Fields(w)[2], NULL>>, <<Fields(w)[3], NULL>>>>

Begin(w, accesses, new) ==
  /\ todo = << >> /\ ~panicked
  /\ todo' = accesses
  /\ what' = w
  /\ shown' = << >>
  /\ asked' = new
  /\ seen' = {Now(reg, w)}
  /\ UNCHANGED <<reg, ticks, panicked, during>>

getval(resource) == Begin(resource, Reads(resource), NULL)

\* Mutant: seconds and minutes are swapped.
set_time_swapped(x) ==
  IF x[1] \notin 0..23 \/ x[2] \notin 0..59 \/ x[3] \notin 0..59
  THEN << >>
  ELSE <<<<"m", two_digits(x[3])>>,
         <<"s", two_digits(x[2])>>,
         <<"h", two_digits(x[1])>>>>

\* The writes that set_time and set_date make: none for an invalid argument.
set_time(x) ==
  IF x[1] \notin 0..23 \/ x[2] \notin 0..59 \/ x[3] \notin 0..59
  THEN << >>
  ELSE <<<<"s", two_digits(x[3])>>,
         <<"m", two_digits(x[2])>>,
         <<"h", two_digits(x[1])>>>>


set_date(x) ==
  IF x[1] \notin 1..12 \/ x[2] \notin 1..days_in_month(x[1], x[3])
  THEN << >>
  ELSE <<<<"month", binary_to_bcd(x[1])>>,
         <<"day", binary_to_bcd(x[2])>>,
         <<"year", binary_to_bcd(Rem(x[3], 9999))>>>>

\* A token of the wrong length counts as -1.
Field(tokens, i, len) == IF tokens[i][1] = len THEN tokens[i][2] ELSE -1

\* The words entered are tokens: their lengths and what atoi makes of them.
\* A line without any character is an error.
\* strlen of the third token comes before the check for -1: without one, it
\* reads page 0, which is not mapped.
setval(resource, tokens) ==
  LET x == <<Field(tokens, 1, 2), Field(tokens, 2, 2),
             Field(tokens, 3, IF resource = "date" THEN 4 ELSE 2)>>
      writes == IF resource = "date" THEN set_date(x) ELSE set_time(x)
  IN  IF tokens = NULL
      THEN Begin(resource, << >>, NULL)
      ELSE IF Len(tokens) < 3
      THEN /\ todo = << >> /\ ~panicked
           /\ panicked' = TRUE
           /\ UNCHANGED <<reg, todo, what, shown, asked, seen, ticks, during>>
      ELSE IF -1 \in {x[1], x[2], x[3]}
      THEN Begin(resource, << >>, NULL)
      ELSE Begin(resource, writes \o Reads(resource), IF writes = << >> THEN NULL ELSE x)

\* One byte is written to a register: what is set is there, once it is over.
WriteRegister ==
  /\ todo # << >> /\ todo[1][2] # NULL
  /\ reg' = [reg EXCEPT ![todo[1][1]] = todo[1][2] % 256]
  /\ seen' = {Now(reg', what)}
  /\ todo' = Tail(todo)
  /\ UNCHANGED <<what, shown, asked, ticks, panicked, during>>

read_rtc_register ==
  /\ todo # << >> /\ todo[1][2] = NULL
  /\ shown' = Append(shown, bcd_to_binary(reg[todo[1][1]]))
  /\ todo' = Tail(todo)
  /\ UNCHANGED <<reg, what, asked, seen, ticks, panicked, during>>

kpanic == panicked /\ UNCHANGED vars

Next ==
  \/ \E w \in {"date", "time"} : getval(w)
  \/ \E x \in Inputs : setval(x[1], x[2])
  \/ WriteRegister
  \/ read_rtc_register
  \/ Tick
  \/ kpanic

Spec == Init /\ [][Next]_vars

-----------------------------------------------------------------------------

\* Two decimal digits.
IsBcd(b) == b \in 0..255 /\ b % 16 <= 9 /\ b \div 16 <= 9

TimeValid ==
  /\ \A f \in {"h", "m", "s"} : IsBcd(reg[f])
  /\ LET t == Now(reg, "time") IN t[1] < 24 /\ t[2] < 60 /\ t[3] < 60

DateValid ==
  /\ \A f \in {"month", "day", "year"} : IsBcd(reg[f])
  /\ LET d == Now(reg, "date") IN d[1] \in 1..12 /\ d[2] \in 1..days_in_month(d[1], 2000 + d[3])


Done == todo = << >> /\ Len(shown) = 3

\* The date or time that is printed is one the clock had while it was read.  If
\* a second ends in the middle it need not be, but then only because of a carry:
\* each of the three numbers is one the clock had.
ReadCurrent ==
  Done => /\ during \/ shown \in seen
          /\ \A k \in 1..3 : \E t \in seen : t[k] = shown[k]

\* What was set is printed: the conversions are inverse, also for the last two
\* digits of the year.  (The year 9999 is stored as 0.)
SetShown ==
  Done /\ asked # NULL /\ ~during /\ asked[3] # 9999 =>
    shown = IF what = "time" THEN asked ELSE <<asked[1], asked[2], asked[3] % 100>>

=============================================================================
