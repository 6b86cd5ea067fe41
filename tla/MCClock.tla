------------------------------- MODULE MCClock ------------------------------
(* The dates and answers for the instances of Clock that TLC checks.       *)
EXTENDS Clock

\* The last days of the months of three years; of this century's first and last.
MonthEnds ==
  {[year |-> y, month |-> m, day |-> month_length[m]] :
     y \in {2000, 2023, 2024, 2099}, m \in {1, 2, 6, 12}}

\* Midnight at Greenwich, 29 February 2024.
LeapDay == {(Days2000 + 8825) * Day}

=============================================================================
