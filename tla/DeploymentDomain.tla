-------------------------- MODULE DeploymentDomain --------------------------
(***************************************************************************)
(* internal/domain/deployment.go: the statuses of a deployment and the     *)
(* table of its transitions.                                               *)
(***************************************************************************)

\* The status constants of the domain object.
DeploymentStatus ==
  {"pending", "building", "deploying", "running", "failed", "stopped"}

\* The table canTransitionTo looks up: the statuses a Mark* call may reach.
validTransitions ==
  [s \in DeploymentStatus |->
     CASE s = "pending"   -> {"building", "failed"}
       [] s = "building"  -> {"deploying", "failed"}
       [] s = "deploying" -> {"running", "failed"}
       [] s = "running"   -> {"stopped", "failed"}
       [] OTHER           -> {}]

canTransitionTo(from, to) == to \in validTransitions[from]

\* Statuses reached from s by one or more allowed transitions.
Widen(S) == S \cup UNION {validTransitions[s] : s \in S}
Beyond(s) == Widen(Widen(Widen(validTransitions[s])))

\* No row, or nothing announced yet.
None == "none"
Observed == DeploymentStatus \cup {None}
=============================================================================
