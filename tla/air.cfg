\* Any pressure curve, the checks of K1 and of the delta switched at any time.
CONSTANTS
  Readings = {1, 2, 5, 8}
  Low = 3
  Stable = 2
  Warm = 2
  Motors = {"off_idle", "on_nominal_k1", "on_nominal_delta"}
SPECIFICATION FairSpec
PROPERTIES WarmupRespected DryRunStops
