---------------------------- MODULE MCCoordinator ----------------------------
(* Model-checking instances of Coordinator.                                 *)
EXTENDS Coordinator, TLC

CONSTANTS p1, p2

LoopSymmetry == Permutations({p1, p2})
=============================================================================
