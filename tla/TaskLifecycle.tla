---------------------------- MODULE TaskLifecycle ----------------------------
(***************************************************************************)
(* What the program promises about one task, whoever acts on it: its row   *)
(* changes only by the transitions of Lifecycle, one or two to a           *)
(* transaction, and by its single enrollment.  PhaseJobs implements this   *)
(* for every task.                                                         *)
(***************************************************************************)
EXTENDS Lifecycle

VARIABLES
  state,      (* the EngineeringState of the Task row                       *)
  enrolled,   (* a DeveloperSession exists                                  *)
  validated   (* requirement version of the last VALIDATION_PASSED          *)

lifecycleVars == <<state, enrolled, validated>>

Init ==
  /\ state = NewState
  /\ enrolled = FALSE
  /\ validated = 0

Step(a, reason) ==
  /\ Permits(state, a, reason)
  /\ state' = Transition(state, a, reason, FALSE)
  /\ validated' = IF a = "VALIDATION_PASSED" THEN state.req ELSE validated
  /\ UNCHANGED enrolled

(* Two transitions that some transaction makes together: a requirement     *)
(* revision pauses first, waiting feedback is applied as a pull request is  *)
(* published or a task resumes, a merge found on GitHub authorizes itself.  *)
Together ==
  {<<"PAUSE", "REVISE_REQUIREMENT">>, <<"MERGE_AUTHORIZED", "MERGED">>,
   <<"PUBLISHED", "REVIEW_FIX">>, <<"PUBLISHED", "BLOCK">>,
   <<"RESUME", "REVIEW_FIX">>, <<"RESUME", "BLOCK">>,
   <<"RELEASE_TAKEOVER", "REVIEW_FIX">>, <<"RELEASE_TAKEOVER", "BLOCK">>}

TwoSteps(a, b, reason) ==
  LET between == Transition(state, a, "NONE", FALSE)
  IN  /\ Permits(state, a, "NONE")
      /\ Permits(between, b, reason)
      /\ state' = Transition(between, b, reason, FALSE)
      /\ UNCHANGED <<enrolled, validated>>

(* enroll(): a fresh intake, at most once.                                  *)
EnrollTask ==
  /\ ~ enrolled
  /\ ~ state.takeover
  /\ state.status \in {"NEW", "PAUSED", "WAITING_HUMAN"}
  /\ state' = [state EXCEPT !.status = "NEW", !.stage = "INTAKE", !.wait = "NONE"]
  /\ enrolled' = TRUE
  /\ UNCHANGED validated

(* Only a BLOCK carries a reason.                                          *)
ReasonsOf(a) == IF a = "BLOCK" THEN WaitReason ELSE {"NONE"}

Next ==
  \/ \E a \in Action : \E reason \in ReasonsOf(a) : Step(a, reason)
  \/ \E p \in Together : \E reason \in ReasonsOf(p[2]) : TwoSteps(p[1], p[2], reason)
  \/ EnrollTask

Spec == Init /\ [][Next]_lifecycleVars

-----------------------------------------------------------------------------
(* The type of every variable.                                             *)
LifecycleTypeOK ==
  /\ state \in EngineeringState
  /\ enrolled \in BOOLEAN
  /\ validated \in Nat

(* No sequence of transitions reaches a row that EngineeringState rejects,  *)
(* so transition() never fails in __post_init__ after it accepted an action. *)
ConsistentState == Consistent(state)

(* A pull request is published, reviewed or merged only for a requirement   *)
(* version that passed validation; a revision at any stage sends the task    *)
(* back to work.                                                           *)
OnlyValidatedAdvance ==
  state.stage \in {"PUBLISHING", "REVIEWING", "MERGING", "COMPLETE"} =>
    validated = state.req
=============================================================================
