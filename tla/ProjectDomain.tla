---------------------------- MODULE ProjectDomain ----------------------------
(***************************************************************************)
(* domain/entities.py of project-service: the columns of a project's row   *)
(* that change, and the row CreateProjectInteractor inserts.               *)
(***************************************************************************)
ProjectStatus ==
  {"initializing", "secrets_pending", "deployment_pending", "ready", "active",
   "paused", "deleted", "failed"}
SecretsStatus == {"none", "pending", "creating", "ready", "failed"}
DeploymentState == {"none", "pending", "creating", "ready", "failed"}

\* url, config: deployment_url and deployment_config_id are set; error: the
\* value of last_error_step.
Row == [status : ProjectStatus, secrets : SecretsStatus, deploy : DeploymentState,
        error : {"none", "deployment"}, url : BOOLEAN, config : BOOLEAN]

Blank == [status |-> "active", secrets |-> "none", deploy |-> "none",
          error |-> "none", url |-> FALSE, config |-> FALSE]

\* CreateProjectInteractor.
Created(secrets, config) ==
  [Blank EXCEPT !.status = IF secrets \/ config THEN "initializing" ELSE "active",
                !.secrets = IF secrets THEN "pending" ELSE "none",
                !.deploy = IF config THEN "pending" ELSE "none"]

\* The statuses of the deployment config in their order.
NextDeploy ==
  [s \in DeploymentState |->
     CASE s = "pending"  -> {"creating"}
       [] s = "creating" -> {"ready", "failed"}
       [] s = "ready"    -> {"failed"}
       [] OTHER          -> {}]
=============================================================================
