\* The start and the red time on the same day; direct starts; lists of events,
\* mode and clock changed at any time; a relay that trips.
CONSTANTS
  Day = 12
  Minute = 1
  Starts = {2, 3}
  Reds = {8, 9}
  Delays = {2}
  Lists <- DirectLists
  Never = 24
SPECIFICATION Spec
INVARIANTS NextIsNear RedEndsNight
PROPERTY PlannedDelayKept
