------------------------------ MODULE MCIntake ------------------------------
(* Instances of Intake for TLC.                                             *)
EXTENDS Intake, TLC

(* The lists of the tracker for some of the statuses: three share one.      *)
Configured ==
  [s \in Semantic |-> CASE s \in {"todo", "blocked", "paused"} -> "todo"
                        [] s = "in_progress" -> "doing"
                        [] OTHER -> NoList]

(* Bound: the Slack message that cannot be routed is the item itself, or     *)
(* another one beside a card of Trello, the provider whose deliveries are    *)
(* taken from the same queue and which has a status to update.              *)
BesideJams == jammed => provider \in {"slack", "trello"}

BoundedInit   == IntakeInit /\ BesideJams
IntakeBounded == BoundedInit /\ [][IntakeNext]_intakeVars /\ IntakeFairness
=============================================================================
