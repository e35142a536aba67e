-------------------------- MODULE ProjectLifecycle --------------------------
(***************************************************************************)
(* What project-service promises about the row of a project, as clients    *)
(* that poll GET /projects/{id}/status can observe it while the handlers   *)
(* of several Kafka topics update it concurrently.                         *)
(***************************************************************************)
EXTENDS ProjectDomain

CONSTANT Projects

VARIABLES
  stage,  \* stage[p]: "new" before the insert, "stored", or "deleted"
  row     \* row[p]: the columns that change

TypeOK ==
  /\ stage \in [Projects -> {"new", "stored", "deleted"}]
  /\ row \in [Projects -> Row]

Init ==
  /\ stage = [p \in Projects |-> "new"]
  /\ row = [p \in Projects |-> Blank]

Create(p) ==
  /\ stage[p] = "new"
  /\ stage' = [stage EXCEPT ![p] = "stored"]
  /\ \E secrets, config \in BOOLEAN :
       row' = [row EXCEPT ![p] = Created(secrets, config)]

\* How one update may change a row: secrets that are ready stay ready, the
\* deployment config goes along NextDeploy, what was set stays set.
Advances(old, new) ==
  /\ new \in Row
  /\ new.status \in {old.status, "deployment_pending", "ready", "active", "failed"}
  /\ new.secrets \in {old.secrets, "ready"}
  /\ new.deploy \in {old.deploy} \cup NextDeploy[old.deploy]
  /\ old.url => new.url
  /\ old.config => new.config
  /\ old.error # "none" => new.error = old.error
  /\ new.deploy = "ready" => new.config
  /\ new.status = "failed" => new.error # "none"

Update(p) ==
  /\ stage[p] = "stored"
  /\ Advances(row[p], row'[p])
  /\ \A q \in Projects \ {p} : row'[q] = row[q]
  /\ DOMAIN row' = Projects
  /\ UNCHANGED stage

\* A deleted project does not come back.
Delete(p) ==
  /\ stage[p] = "stored"
  /\ stage' = [stage EXCEPT ![p] = "deleted"]
  /\ UNCHANGED row

Next == \E p \in Projects : Create(p) \/ Update(p) \/ Delete(p)

Spec == Init /\ [][Next]_<<stage, row>>
=============================================================================
