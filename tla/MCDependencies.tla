---------------------------- MODULE MCDependencies ----------------------------
(* What may be claimed, for TLC: the prerequisites of tasks, and the Teams   *)
(* they belong to.  The two share no state and are checked in one run: each  *)
(* behaviour is one of either.                                              *)
EXTENDS Dependencies, Teams, TLC

CONSTANTS t1, t2, t3, e1, e2, r1, r2

VARIABLE layer

admissionVars == <<layer, vars, teamsVars>>

AdmissionInit ==
  /\ layer \in {"prerequisites", "teams"}
  /\ Init /\ TeamsInit
  /\ layer = "teams" => job = [t \in Tasks |-> "NONE"]
  /\ layer = "prerequisites" => \A k \in Tickets : ticket[k].of = NoGroup

PrerequisitesLayer == layer = "prerequisites" /\ Next /\ UNCHANGED <<layer, teamsVars>>
TeamsLayer         == layer = "teams" /\ TeamsNext /\ UNCHANGED <<layer, vars>>

AdmissionNext == PrerequisitesLayer \/ TeamsLayer
AdmissionSpec == AdmissionInit /\ [][AdmissionNext]_admissionVars

TaskSymmetry == Permutations(Tasks) \cup Permutations(Editors) \cup Permutations(Runners)
=============================================================================
