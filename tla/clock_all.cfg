\* A loop that loses seconds, ends of months and years, and commands between
\* any two steps.
CONSTANTS
  Day = 5
  Fuse = 1
  Width = 248551
  Dates <- MonthEnds
  Replies <- LeapDay
  MaxTicks = 4
  MaxLost = 1
SPECIFICATION Spec
INVARIANT Balance
PROPERTIES DateMovesOn TimeKeepsDate

