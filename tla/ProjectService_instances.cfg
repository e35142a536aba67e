\* Two instances, secrets.bulk_created comes twice, an instance crashes,
\* handlers and requests are scheduled fairly.
SPECIFICATION FairSpec
CONSTANTS
  Projects = {p}
  Deletable = {p}
  Instances = {i1, i2}
  Deployments = {}
  MaxBulk = 2
  MaxCrashes = 1
  Faults = {"kafka"}
INVARIANTS IInv PostedOnce
PROPERTIES CreatingEnds InitializingEnds
CHECK_DEADLOCK FALSE
