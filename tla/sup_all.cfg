\* Three modes: any interleaving of seconds, commands, programmed starts and
\* hardware; direct programmed starts may bring a time that is not the default.
CONSTANTS
  StartCalls = {"direct_k1", "to_delta", "y_delta_req"}
  CheckModes = {FALSE}
  ShutdownTimes = {1, 3}
  YTimes = {1}
  Prompt = TRUE
  MaxFaults = 1
  Commands = {"y_delta_req"}
  Matches <- DirectMatch
  Modes = {"system_off", "irrigation_pump_valves", "pump_optimized_control"}
SPECIFICATION SupFairSpec
INVARIANTS SupTypeOK TripStopsRun StarSupervised MatchTimeUsed
PROPERTIES ImplementsPump ImplementsMotor RunEnds StarDeltaResolves
