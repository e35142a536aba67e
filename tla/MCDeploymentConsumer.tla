------------------------ MODULE MCDeploymentConsumer ------------------------
(* Instances of DeploymentConsumer for TLC.                                 *)
EXTENDS DeploymentConsumer
=============================================================================
