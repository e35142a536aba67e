------------------------ MODULE DeploymentLifecycle ------------------------
(***************************************************************************)
(* What deployment-service promises about a deployment, as an API client   *)
(* (through the stored row) and project-service (through the published     *)
(* deployment.* events) can observe it.  The status table is the one of    *)
(* internal/domain/deployment.go; DeploymentService implements this        *)
(* specification.                                                          *)
(***************************************************************************)
EXTENDS DeploymentDomain

CONSTANT Deployments       \* identities of deployments (uuid.New)

VARIABLES
  rows,     \* rows[d]: the status an API client reads, None without a row
  said      \* said[d]: the last status announced on Kafka

lifecycleVars == <<rows, said>>

TypeOK ==
  /\ rows \in [Deployments -> Observed]
  /\ said \in [Deployments -> Observed]

Init ==
  /\ rows = [d \in Deployments |-> None]
  /\ said = [d \in Deployments |-> None]

\* A row appears (NewDeployment followed by MarkBuilding, or a later Save of
\* a deployment whose row was deleted meanwhile) or moves forward.  Several
\* table steps may be taken at once: a retry goes on after a failed Save.
Store(d, s) ==
  /\ s # "pending"
  /\ rows[d] # None => s \in Beyond(rows[d])
  /\ rows' = [rows EXCEPT ![d] = s]
  /\ UNCHANGED said

\* Rows disappear, many at a time: DeleteByConfigID, or the cascade from
\* deployment_configs.
Remove(D) ==
  /\ rows' = [d \in Deployments |-> IF d \in D THEN None ELSE rows[d]]
  /\ UNCHANGED said

\* An event is published, at most one outcome per deployment; stopping is
\* never announced.
Announce(d, s) ==
  /\ s \in {"building", "deploying", "running", "failed"}
  /\ said[d] \notin {"running", "failed"}
  /\ said[d] # None => s \in Beyond(said[d])
  /\ said' = [said EXCEPT ![d] = s]
  /\ UNCHANGED rows

Next ==
  \/ \E d \in Deployments, s \in DeploymentStatus : Store(d, s) \/ Announce(d, s)
  \/ \E D \in SUBSET Deployments : Remove(D)

Spec == Init /\ [][Next]_lifecycleVars

-----------------------------------------------------------------------------
(* A stored outcome is final: once the row says failed or stopped, no later *)
(* Save of any copy of the object changes it while the row exists           *)
(* (validTransitions gives the two no successor).                           *)
TerminalIsFinal ==
  [][\A d \in Deployments :
       rows[d] \in {"failed", "stopped"} => rows'[d] \in {rows[d], None}]_lifecycleVars

(* The outcome of a deployment is announced once: nothing follows           *)
(* deployment.running or deployment.failed, so a consumer that applies the  *)
(* events of one deployment in order ends with its outcome.                 *)
OneOutcomeAnnounced ==
  [][\A d \in Deployments :
       said[d] \in {"running", "failed"} => said'[d] = said[d]]_lifecycleVars
=============================================================================
