---------------------------- MODULE MCPhaseJobs ----------------------------
(***************************************************************************)
(* Instances of PhaseJobs for TLC.                                         *)
(***************************************************************************)
EXTENDS PhaseJobsRefinement, TLC

CONSTANTS t1, t2, m1, r1, r2

(* One task followed through its whole lifecycle by two workers.            *)
OneTeamOf     == (t1 :> m1)
OneRequires   == (t1 :> {})
OneCapacity   == (m1 :> 1)

Reasons       == {"MISSING_CONFIGURATION"}
=============================================================================
