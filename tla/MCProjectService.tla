-------------------------- MODULE MCProjectService --------------------------
(* Instances of ProjectService for TLC.                                     *)
EXTENDS ProjectService, TLC

Symmetric == Permutations(Instances)
=============================================================================
