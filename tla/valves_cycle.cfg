\* Sectors outlast the closing delay; cycles started, stopped and reprogrammed,
\* an expander that may restart and a bus that may fail.
CONSTANTS
  N = 3
  MaxId = 5
  Times = {2, 3}
  Minute = 1
  Delays = {0, 2}
  Pressures = {0}
  LogN = 1
  LogWidth = 2
  Given = {}
  Resets = TRUE
  Losses = TRUE
SPECIFICATION Spec
INVARIANTS NoValveLeftOpen CurrentOpen NoUnknownOpen
