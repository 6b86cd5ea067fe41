\* The programmed starts and the direct delta: any interleaving, slow
\* contactors, one failure.
CONSTANTS
  StartCalls = {"direct_k1", "to_delta", "y_delta_req"}
  CheckModes = {FALSE}
  ShutdownTimes = {1}
  YTimes = {1}
  Prompt = FALSE
  MaxFaults = 1
SPECIFICATION Spec
INVARIANTS TypeOK PinInterlock ContactorInterlock StopCancelsDelta DeltaBreaksStar
