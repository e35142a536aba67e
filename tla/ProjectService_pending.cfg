\* Two instances, no failure.
SPECIFICATION Spec
CONSTANTS
  Projects = {p}
  Deletable = {}
  Instances = {i1, i2}
  Deployments = {}
  MaxBulk = 1
  MaxCrashes = 0
  Faults = {}
INVARIANTS ConfigIsPosted
CHECK_DEADLOCK FALSE
