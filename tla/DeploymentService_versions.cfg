\* Three deployments, so that a retry can count one and miss another;
\* PostgreSQL may fail.
SPECIFICATION Spec
CONSTANTS
  Deployments = {d1, d2, d3}
  Projects = {p}
  Deletable = {}
  Envs = {dev}
  Callers = {}
  MaxConfigs = 1
  Faults = {"db"}
INVARIANTS RetryVersionsGrow CountsInv
SYMMETRY Symmetric
CHECK_DEADLOCK FALSE
