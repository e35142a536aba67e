\* No call fails.
SPECIFICATION Spec
CONSTANTS
  Projects = {p}
  Callers = {}
  MaxEvents = 1
  MaxCrashes = 0
  Faults = {}
INVARIANTS AnnouncedIsReadable
CHECK_DEADLOCK FALSE
