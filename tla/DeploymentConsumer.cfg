\* Two partitions; handlers, publishes and commits fail, the process ends
\* once, the loop is scheduled fairly.
SPECIFICATION FairSpec
CONSTANTS
  Partitions = {bulk, deleted}
  MaxRecords = 2
  MaxStops = 1
  Faults = {"handler", "kafka"}
INVARIANTS ConsumerInv Accounted
PROPERTIES CommitAdvances EveryRecordTaken
CHECK_DEADLOCK FALSE
