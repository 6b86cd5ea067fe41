\* Every call in any order, both directions, and an expander that may restart
\* at any time; every second comes.
CONSTANTS
  N = 2
  MaxId = 5
  Times = {0, 2}
  Minute = 1
  Delays = {0, 1}
  Pressures = {0}
  LogN = 1
  LogWidth = 2
  Given = {"next", "manual", "direction", "query"}
  Resets = TRUE
  Losses = FALSE
SPECIFICATION FairSpec
INVARIANTS TypeOK LogMatchesSector
PROPERTY CycleEnds
