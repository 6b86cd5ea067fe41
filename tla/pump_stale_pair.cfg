\* The star command while a star/delta start is under way.
CONSTANTS
  StartCalls = {"to_y", "y_delta_req"}
  CheckModes = {FALSE}
  ShutdownTimes = {1}
  YTimes = {1}
  Prompt = TRUE
  MaxFaults = 0
SPECIFICATION Spec
INVARIANT PinInterlock
