\* The events of one deployment, one topic each.
SPECIFICATION Spec
CONSTANTS
  Projects = {p}
  Deletable = {}
  Instances = {i1}
  Deployments = {d1}
  MaxBulk = 1
  MaxCrashes = 0
  Faults = {}
INVARIANTS RunningIsActive
CHECK_DEADLOCK FALSE
