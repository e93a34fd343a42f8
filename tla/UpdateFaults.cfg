SYMMETRY ProcSymmetry
CONSTANTS
  d1 = d1
  d2 = d2
  Versions = {1, 2, 3}
  Initial = 1
  Broken = {2}
  DepSets = {d1, d2}
  Deps <- TwoDeps
  Procs = {p1, p2}
  None = None
  Mixed = Mixed
  MaxOsErrors = 0
  MaxPowerLosses = 1
  MaxCrashes = 1
SPECIFICATION Spec
INVARIANTS TypeOK RollbackTargetHealthy LastGoodNotFailed Supervised CurrentStaged
