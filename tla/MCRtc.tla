------------------------------- MODULE MCRtc -------------------------------
(***************************************************************************)
(* Constants of the runs of Rtc: starts just before a minute, an hour, a   *)
(* day, a month or a year ends, and inputs at the limits of the checks.    *)
(***************************************************************************)
EXTENDS Rtc

RealStarts ==
  {<<23, 59, 58, 12, 31, 99>>, <<23, 59, 59, 2, 28, 23>>, <<23, 59, 59, 2, 28, 24>>,
   <<23, 59, 59, 1, 31, 24>>, <<9, 59, 59, 10, 9, 5>>, <<10, 9, 59, 4, 30, 0>>}

Two(n) == <<2, n>>
Four(n) == <<4, n>>
Times(S) == {<<"time", <<Two(x[1]), Two(x[2]), Two(x[3])>>>> : x \in S}
Dates(S) == {<<"date", <<Two(x[1]), Two(x[2]), Four(x[3])>>>> : x \in S}

SomeTimes == Times({<<23, 59, 59>>, <<0, 7, 10>>, <<24, 0, 0>>, <<10, 60, 0>>, <<19, 8, -5>>})
SomeDates == Dates({<<2, 29, 2024>>, <<2, 29, 2023>>, <<2, 28, 1999>>, <<12, 31, 2000>>,
                    <<1, 31, 9999>>, <<4, 31, 2024>>, <<0, 10, 2024>>, <<13, 1, 2024>>})
Malformed == {<<"time", <<Four(1200), Two(0), Two(0)>>>>,
              <<"date", <<Two(2), Two(3), Two(24)>>>>, <<"time", NULL>>}
Missing == {<<"time", <<Two(12), Two(30)>>>>,
            <<"date", << >>>>}

AllInputs == SomeTimes \cup SomeDates \cup Malformed \cup Missing

=============================================================================
