CONSTANTS
  Tasks = {t1, t2}
  Versions = {v1, v2}
  Size = 2
  Erased = Erased
SPECIFICATION FairSpec
INVARIANTS AlwaysBootable BootIsWhole FinishIsTrue
PROPERTIES FinishTold
