\* Every call may fail, an event comes twice, a request for the same project
\* runs beside it, a process ends.
SPECIFICATION FairSpec
CONSTANTS
  Projects = {p}
  Callers = {q1}
  MaxEvents = 2
  MaxCrashes = 1
  Faults = {"db", "vault", "kafka"}
INVARIANTS IInv EventsAccounted AnnouncedIsProvisioned
PROPERTIES EveryEventAnswered
CHECK_DEADLOCK FALSE
