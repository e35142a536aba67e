------------------------ MODULE MCDeploymentService ------------------------
(* Instances of DeploymentService for TLC.                                  *)
EXTENDS DeploymentService, TLC

\* Deployments and concurrent callers are interchangeable.
Symmetric == Permutations(Deployments) \cup Permutations(Callers)
=============================================================================
