\* Sectors programmed by the rain wanted: not whole minutes.
CONSTANTS
  N = 2
  MaxId = 5
  Times = {5}
  Minute = 3
  Delays = {1}
  Pressures = {0}
  LogN = 1
  LogWidth = 2
  Given = {}
  Resets = FALSE
  Losses = FALSE
  Margin = 1
  Width = 16
  Default = 1
  StarTime = 1
  Trips = FALSE
  Careful = TRUE
SPECIFICATION IrrSpec
PROPERTY PumpStopsFirst
