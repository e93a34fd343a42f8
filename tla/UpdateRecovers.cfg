CONSTANTS
  d1 = d1
  d2 = d2
  Versions = {1, 2, 3}
  Initial = 1
  Broken = {2}
  DepSets = {d1}
  Deps <- OneDep
  Procs = {p1}
  None = None
  Mixed = Mixed
  MaxOsErrors = 0
  MaxPowerLosses = 0
  MaxCrashes = 0
SPECIFICATION FairSpec
PROPERTIES FailedNeverLaunched ApplyAnswered 
