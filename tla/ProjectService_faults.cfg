\* PostgreSQL and Kafka may fail, secrets.bulk_created comes twice, one
\* deployment is announced, the project is deleted.
SPECIFICATION Spec
CONSTANTS
  Projects = {p}
  Deletable = {p}
  Instances = {i1}
  Deployments = {d1}
  MaxBulk = 2
  MaxCrashes = 0
  Faults = {"db", "kafka"}
INVARIANTS TypeOK
PROPERTIES ImplementsLifecycle ProgressGoesOn
CHECK_DEADLOCK FALSE
