-------------------------- MODULE MCSecretsService --------------------------
(* Instances of SecretsService for TLC.                                     *)
EXTENDS SecretsService
=============================================================================
