-------------------------- MODULE PhaseJobsRefinement --------------------------
(***************************************************************************)
(* PhaseJobs implements TaskLifecycle for every task: the refinement       *)
(* mapping reads the abstract state of one arbitrary task off its row.     *)
(***************************************************************************)
EXTENDS PhaseJobs

CONSTANT AnyTask

ASSUME AnyTaskAssumption == AnyTask \in Tasks

Contract ==
  INSTANCE TaskLifecycle WITH state     <- task[AnyTask].state,
                              enrolled  <- task[AnyTask].enrolled,
                              validated <- validated[AnyTask]

(* Every transaction of every command, worker and recovery is, for the      *)
(* task, one step of the contract or leaves its row alone: no interleaving   *)
(* changes a task in a way that transition() or enroll() would refuse.      *)
ImplementsTaskLifecycle == Contract!Spec
=============================================================================
