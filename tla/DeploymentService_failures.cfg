\* Every call may fail and the process may die; one deployment at a time,
\* two HTTP requests, a deleted project.
SPECIFICATION FairSpec
CONSTANTS
  Deployments = {d1}
  Projects = {p}
  Deletable = {p}
  Envs = {dev}
  Callers = {q1, q2}
  MaxConfigs = 2
  Faults = {"db", "nomad", "kafka", "sigterm", "crash"}
INVARIANTS IInv JobsInv RunningIsStored RowTracksGoroutine
PROPERTIES ImplementsLifecycle TerminalIsFinal OneOutcomeAnnounced Settles PurgeEnds
CHECK_DEADLOCK FALSE
