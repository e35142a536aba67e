\* Two deployments, events delivered twice, a deletion, stop requests and
\* POST /configs interleave; PostgreSQL may fail.
SPECIFICATION Spec
CONSTANTS
  Deployments = {d1, d2}
  Projects = {p}
  Deletable = {p}
  Envs = {dev}
  Callers = {q1}
  MaxConfigs = 2
  Faults = {"db"}
INVARIANTS TypeOK JobsMatchRows DuplicateEventDeploysOnce
SYMMETRY Symmetric
CHECK_DEADLOCK FALSE
