------------------------------ MODULE Lifecycle ------------------------------
(***************************************************************************)
(* The engineering task's business state machine                           *)
(* (backend/app/engineering/domain/lifecycle.py and phases.py): which      *)
(* action a state permits and the state that action leads to.  Every other *)
(* module takes its task transitions from here, as every handler of the    *)
(* program takes them from transition().                                   *)
(***************************************************************************)
EXTENDS Naturals

TaskStatus == {"NEW", "ACTIVE", "WAITING_EXTERNAL", "WAITING_HUMAN", "PAUSED",
               "FAILED", "CANCELLED", "MERGED"}

Stage == {"INTAKE", "PLANNING", "DEVELOPING", "VALIDATING", "PUBLISHING",
          "REVIEWING", "FIXING", "MERGING", "COMPLETE"}

WaitReason == {"NONE", "GITHUB_REVIEW", "GITHUB_CHECKS", "PROVIDER_RATE_LIMIT",
               "PROVIDER_OUTAGE", "INTEGRATION_FAILURE", "MISSING_CONFIGURATION",
               "BUDGET_EXHAUSTED", "TOKEN_LIMIT", "NO_PROGRESS", "RUNTIME_FAILURE",
               "MISSING_REQUIREMENT", "APPROVAL_REQUIRED", "MERGE_CONFLICT",
               "MANUAL_TAKEOVER"}

(* The actions of the _STEPS table, and all the others.                     *)
StepAction == {"START", "NEEDS_PLAN", "PLAN_READY", "IMPLEMENTED",
               "BOUNDED_REPAIR", "VALIDATE_CANDIDATE", "VALIDATION_FAILED",
               "VALIDATION_PASSED", "PUBLISHED", "REVIEW_FIX",
               "MERGE_AUTHORIZED", "MERGE_RECHECK", "MERGED"}

Action == StepAction \cup
          {"REQUIREMENT_CHANGED", "REVISE_REQUIREMENT", "PAUSE", "RESUME",
           "CANCEL", "TAKEOVER", "RELEASE_TAKEOVER", "BLOCK"}

Terminal  == {"MERGED", "CANCELLED", "FAILED"}
Runnable  == {"NEW", "ACTIVE"}
Suspended == {"PAUSED", "WAITING_HUMAN", "WAITING_EXTERNAL"}

EngineeringState ==
  [status : TaskStatus, stage : Stage, wait : WaitReason, req : Nat \ {0},
   takeover : BOOLEAN]

(* EngineeringState's field defaults.                                      *)
NewState == [status |-> "NEW", stage |-> "INTAKE", wait |-> "NONE", req |-> 1,
             takeover |-> FALSE]

-----------------------------------------------------------------------------
(* _STEPS: the stages an action may follow and the stage it leads to.      *)
StepFrom(a) ==
  CASE a = "START"              -> {"INTAKE"}
    [] a = "NEEDS_PLAN"         -> {"DEVELOPING", "FIXING"}
    [] a = "PLAN_READY"         -> {"PLANNING"}
    [] a = "IMPLEMENTED"        -> {"DEVELOPING", "FIXING"}
    [] a = "BOUNDED_REPAIR"     -> {"DEVELOPING"}
    [] a = "VALIDATE_CANDIDATE" -> {"DEVELOPING", "FIXING"}
    [] a = "VALIDATION_FAILED"  -> {"VALIDATING"}
    [] a = "VALIDATION_PASSED"  -> {"VALIDATING"}
    [] a = "PUBLISHED"          -> {"PUBLISHING"}
    [] a = "REVIEW_FIX"         -> {"REVIEWING"}
    [] a = "MERGE_AUTHORIZED"   -> {"REVIEWING"}
    [] a = "MERGE_RECHECK"      -> {"MERGING"}
    [] a = "MERGED"             -> {"MERGING"}

StepTo(a) ==
  CASE a \in {"START", "PLAN_READY"}                       -> "DEVELOPING"
    [] a = "NEEDS_PLAN"                                    -> "PLANNING"
    [] a \in {"IMPLEMENTED", "VALIDATE_CANDIDATE"}         -> "VALIDATING"
    [] a \in {"BOUNDED_REPAIR", "VALIDATION_FAILED", "REVIEW_FIX"} -> "FIXING"
    [] a = "VALIDATION_PASSED"                             -> "PUBLISHING"
    [] a \in {"PUBLISHED", "MERGE_RECHECK"}                -> "REVIEWING"
    [] a = "MERGE_AUTHORIZED"                              -> "MERGING"
    [] a = "MERGED"                                        -> "COMPLETE"

(* transition() raises InvalidTransition exactly when this is false.       *)
Permits(s, a, reason) ==
  /\ s.status \notin Terminal
  /\ \/ a \in {"CANCEL", "PAUSE", "TAKEOVER"}
     \/ /\ a = "REVISE_REQUIREMENT"
        /\ s.status = "PAUSED"
     \/ /\ a \in {"RESUME", "RELEASE_TAKEOVER"}
        /\ s.status \in Suspended
        /\ s.takeover => a = "RELEASE_TAKEOVER"
     \/ /\ s.status # "PAUSED"
        /\ ~ s.takeover
        /\ \/ a = "BLOCK" /\ reason # "NONE"
           \/ /\ s.status # "WAITING_HUMAN"
              /\ \/ a = "REQUIREMENT_CHANGED"
                 \/ /\ a \in StepAction
                    /\ s.stage \in StepFrom(a)
                    /\ s.status = "WAITING_EXTERNAL" =>
                         a \in {"REVIEW_FIX", "MERGE_AUTHORIZED"}

(* The state transition() returns for a permitted action.                  *)
StepState(s, a) ==
  [s EXCEPT
     !.status = IF a \in {"PUBLISHED", "MERGE_RECHECK"} THEN "WAITING_EXTERNAL"
                ELSE IF a = "MERGED" THEN "MERGED" ELSE "ACTIVE",
     !.stage  = StepTo(a),
     !.wait   = IF a \in {"PUBLISHED", "MERGE_RECHECK"} THEN "GITHUB_REVIEW" ELSE "NONE"]

ResumeState(s) ==
  [s EXCEPT
     !.status   = IF s.stage = "REVIEWING" THEN "WAITING_EXTERNAL" ELSE "ACTIVE",
     !.wait     = IF s.stage = "REVIEWING" THEN "GITHUB_REVIEW" ELSE "NONE",
     !.takeover = FALSE]

PauseState(s, takeover) ==
  [s EXCEPT !.status   = "PAUSED",
            !.takeover = takeover,
            !.wait     = IF takeover THEN "MANUAL_TAKEOVER" ELSE s.wait]

ReviseState(s) ==
  [s EXCEPT !.stage = IF s.stage = "INTAKE" THEN "INTAKE" ELSE "FIXING",
            !.req   = s.req + 1]

Transition(s, a, reason, external) ==
  CASE a = "CANCEL"   -> [s EXCEPT !.status = "CANCELLED", !.takeover = FALSE]
    [] a = "PAUSE"    -> PauseState(s, s.takeover)
    [] a = "TAKEOVER" -> PauseState(s, TRUE)
    [] a = "REVISE_REQUIREMENT"             -> ReviseState(s)
    [] a \in {"RESUME", "RELEASE_TAKEOVER"} -> ResumeState(s)
    [] a = "BLOCK" ->
         [s EXCEPT !.status = IF external THEN "WAITING_EXTERNAL" ELSE "WAITING_HUMAN",
                   !.wait   = reason]
    [] a = "REQUIREMENT_CHANGED" ->
         [s EXCEPT !.status = "ACTIVE", !.stage = "FIXING", !.wait = "NONE",
                   !.req = s.req + 1]
    [] a \in StepAction -> StepState(s, a)

-----------------------------------------------------------------------------
(* PHASES: the execution unit of a stage and the results it may return.    *)
PhaseStage == {"INTAKE", "PLANNING", "DEVELOPING", "VALIDATING", "PUBLISHING",
               "FIXING", "MERGING"}

PhaseAction == {"INTERPRET_EVENT", "THINKER_TURN", "DEVELOPER_TURN",
                "RUN_VALIDATION", "PUBLISH_PR", "MERGE_PR"}

PhaseOf(stage) ==
  CASE stage = "INTAKE"                    -> "INTERPRET_EVENT"
    [] stage = "PLANNING"                  -> "THINKER_TURN"
    [] stage \in {"DEVELOPING", "FIXING"}  -> "DEVELOPER_TURN"
    [] stage = "VALIDATING"                -> "RUN_VALIDATION"
    [] stage = "PUBLISHING"                -> "PUBLISH_PR"
    [] stage = "MERGING"                   -> "MERGE_PR"

PhaseResults(action) ==
  CASE action = "INTERPRET_EVENT" -> {"START"}
    [] action = "THINKER_TURN"    -> {"PLAN_READY"}
    [] action = "DEVELOPER_TURN"  -> {"IMPLEMENTED", "NEEDS_PLAN", "BOUNDED_REPAIR",
                                      "VALIDATE_CANDIDATE"}
    [] action = "RUN_VALIDATION"  -> {"VALIDATION_PASSED", "VALIDATION_FAILED"}
    [] action = "PUBLISH_PR"      -> {"PUBLISHED"}
    [] action = "MERGE_PR"        -> {"MERGED", "MERGE_RECHECK"}

(* EngineeringState.__post_init__ raises ValueError exactly when this is    *)
(* false.                                                                  *)
Consistent(s) ==
  /\ s.req >= 1
  /\ s.status \in {"NEW", "ACTIVE", "MERGED"} => s.wait = "NONE"
  /\ s.status \in {"WAITING_EXTERNAL", "WAITING_HUMAN"} => s.wait # "NONE"
  /\ s.status = "MERGED" <=> s.stage = "COMPLETE"
  /\ s.takeover => s.status = "PAUSED"
=============================================================================
