\* Careful users; programmed starts, alarms, a bus that loses writes and an
\* expander that restarts.  The seconds of the log are left to valves_all.
CONSTANTS
  N = 2
  MaxId = 5
  Times = {2, 3}
  Minute = 1
  Delays = {1}
  Pressures = {0}
  LogN = 1
  LogWidth = 1
  Given = {"direction"}
  Resets = TRUE
  Losses = TRUE
  Margin = 3
  Width = 16
  Default = 1
  StarTime = 1
  Trips = FALSE
  Careful = TRUE
SPECIFICATION IrrFairSpec
INVARIANTS Watered HealedInASecond ValvesFollow
PROPERTIES PumpStopsFirst IrrigationEnds
