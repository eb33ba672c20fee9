------------------------------ MODULE PhaseJobs ------------------------------
(***************************************************************************)
(* The durable queue of phase jobs and everything that races for a task:   *)
(* the workers that claim, heartbeat, complete and block jobs              *)
(* (engineering/infrastructure/jobs.py, job_queue.py,                      *)
(* engineering/application/jobs.py), the recovery of expired leases,       *)
(* operator and tracker commands (controls.py, task_controls.py,           *)
(* enrollment.py, engineering_events.py, review_text.py, sessions.py,      *)
(* validation_requests.py) and Team shutdown and wake.                     *)
(*                                                                         *)
(* Every action below is one database transaction of the program; the Task *)
(* row lock that each takes makes it atomic.  What a worker keeps in       *)
(* memory between its transactions is the variable runner.                 *)
(***************************************************************************)
EXTENDS Lifecycle, FiniteSets

CONSTANTS
  Tasks,            (* engineering tasks                                    *)
  Teams,            (* teams that own them                                  *)
  TeamOf,           (* [Tasks -> Teams]                                     *)
  Requires,         (* [Tasks -> SUBSET Tasks]: prerequisite tasks          *)
  Runners,          (* job slots of the controllers                         *)
  JobIds,           (* identities of job rows: bounds how many are inserted *)
  Capacity,         (* [Teams -> Nat]: max_concurrent_tasks                 *)
  DeveloperSlots,   (* global_developer_slots                               *)
  ValidationSlots,  (* validation_slots                                     *)
  Commands,         (* bound: the operator commands explored                *)
  BlockReasons,     (* the wait reasons a failing phase reports             *)
  MaxVersion,       (* bound: lifecycle versions explored                   *)
  NoTask, NoRunner

ASSUME ConstantsAssumption ==
  /\ TeamOf \in [Tasks -> Teams]
  /\ Requires \in [Tasks -> SUBSET Tasks]
  /\ 0 \notin JobIds
  /\ Capacity \in [Teams -> Nat]
  /\ DeveloperSlots \in Nat
  /\ ValidationSlots \in Nat
  /\ Commands \subseteq {"PAUSE", "CANCEL", "TAKEOVER", "RESUME"}
  /\ BlockReasons \subseteq WaitReason \ {"NONE"}
  /\ MaxVersion \in Nat \ {0}
  /\ NoTask \notin Tasks
  /\ NoRunner \notin Runners

VARIABLES
  task,          (* Task rows with their lifecycle version and enrollment   *)
  job,           (* Job rows                                                *)
  open,          (* Teams that are enabled, not paused and not archived     *)
  runner,        (* the lease and progress a worker holds in memory         *)
  interpreting,  (* tasks with a review comment being classified unlocked   *)
  validated      (* requirement version of the last VALIDATION_PASSED       *)

vars == <<task, job, open, runner, interpreting, validated>>

JobState == {"ABSENT", "QUEUED", "CLAIMED", "RUNNING", "CLOSED"}
Executing  == {"CLAIMED", "RUNNING"}
LiveState  == Executing \cup {"QUEUED"}
SlotAction == {"INTERPRET_EVENT", "THINKER_TURN", "DEVELOPER_TURN"}
PC == {"idle", "claimed", "stale", "leased", "starting", "working", "finished",
       "failing"}

TaskRow == [state : EngineeringState, version : 0..MaxVersion, enrolled : BOOLEAN,
            archived : BOOLEAN]
JobRow  == [state : JobState, task : Tasks \cup {NoTask},
            action : PhaseAction \cup {"NONE"}, version : 0..MaxVersion,
            token : Runners \cup {NoRunner}, expired : BOOLEAN]
RunnerState == [pc : PC, job : JobIds \cup {0}, task : Tasks \cup {NoTask},
                action : PhaseAction \cup {"NONE"}, version : 0..MaxVersion,
                req : Nat, result : Action \cup {"NONE"}]

NoJob == [state |-> "ABSENT", task |-> NoTask, action |-> "NONE", version |-> 0,
          token |-> NoRunner, expired |-> FALSE]
Idle  == [pc |-> "idle", job |-> 0, task |-> NoTask, action |-> "NONE",
          version |-> 0, req |-> 0, result |-> "NONE"]

Init ==
  /\ task = [t \in Tasks |-> [state |-> NewState, version |-> 1, enrolled |-> FALSE,
                              archived |-> FALSE]]
  /\ job = [j \in JobIds |-> NoJob]
  /\ open = Teams
  /\ runner = [r \in Runners |-> Idle]
  /\ interpreting = {}
  /\ validated = [t \in Tasks |-> 0]

-----------------------------------------------------------------------------
(* Queries and updates shared by the transactions.                         *)

Live(jobs, t)     == {j \in JobIds : jobs[j].task = t /\ jobs[j].state \in LiveState}
BusyWith(jobs, t) == {j \in JobIds : jobs[j].task = t /\ jobs[j].state \in Executing}

Absent == {j \in JobIds : job[j].state = "ABSENT"}
Fresh  == CHOOSE j \in JobIds : job[j].state = "ABSENT"
(* Bounds of the exploration: a row left to insert, k versions left.        *)
Room(t, k) == Absent # {} /\ task[t].version + k <= MaxVersion

(* Mutant: enqueue_phase() without its query for an existing job.           *)
EnqueueBlindly(jobs, t, s, version) ==
  IF s.status \in Runnable /\ s.stage \in PhaseStage
  THEN [jobs EXCEPT ![Fresh] =
          [state |-> "QUEUED", task |-> t, action |-> PhaseOf(s.stage),
           version |-> version, token |-> NoRunner, expired |-> FALSE]]
  ELSE jobs

(* enqueue_phase(): one queued job for a runnable task's stage, unless one  *)
(* is already queued or executing.                                         *)
EnqueuePhase(jobs, t, s, version) ==
  IF s.status \in Runnable /\ s.stage \in PhaseStage /\ Live(jobs, t) = {}
  THEN [jobs EXCEPT ![Fresh] =
          [state |-> "QUEUED", task |-> t, action |-> PhaseOf(s.stage),
           version |-> version, token |-> NoRunner, expired |-> FALSE]]
  ELSE jobs

(* A row that is not live any more.  Its outcome (SUCCEEDED, WAITING_HUMAN   *)
(* or CANCELLED) and its other columns are read by no transaction modelled   *)
(* here, so only the clearing of its lease is kept.                          *)
Closed == [NoJob EXCEPT !.state = "CLOSED"]

(* Mutant: claimed and running rows keep their lease.                       *)
CancelUnclaimed(jobs, t) ==
  [j \in JobIds |-> IF jobs[j].task = t /\ jobs[j].state = "QUEUED"
                    THEN Closed ELSE jobs[j]]

(* The rows control_task() cancels: everything not finished.                *)
CancelJobs(jobs, t) ==
  [j \in JobIds |-> IF j \in Live(jobs, t) THEN Closed ELSE jobs[j]]

(* enroll() cancels only what has not been claimed.                         *)
CancelQueued(jobs, t) ==
  [j \in JobIds |-> IF jobs[j].task = t /\ jobs[j].state = "QUEUED"
                    THEN Closed ELSE jobs[j]]

(* record_transition(): state and version change together; k transitions   *)
(* in one transaction count k versions.                                    *)
SetState(t, s, k) ==
  task' = [task EXCEPT ![t].state = s, ![t].version = @ + k]

(* apply_pending_feedback(): authorized feedback waiting for the current    *)
(* revision turns a review wait into a fix in the same transaction; an      *)
(* oversized delta blocks instead.  Whether any waits is left open.         *)
FeedbackApplies(s) ==
  /\ s.status \notin {"PAUSED", "WAITING_HUMAN"} \cup Terminal
  /\ ~ s.takeover
  /\ s.stage = "REVIEWING"
Unfed(s)     == [state |-> s, steps |-> 0]
Fed(s)       == [state |-> Transition(s, "REVIEW_FIX", "NONE", FALSE), steps |-> 1]
Oversized(s) == [state |-> Transition(s, "BLOCK", "MISSING_REQUIREMENT", FALSE),
                 steps |-> 1]
FeedbackOutcomes(s) ==
  IF FeedbackApplies(s) THEN {Unfed(s), Fed(s), Oversized(s)} ELSE {Unfed(s)}

-----------------------------------------------------------------------------
(* Enrollment and execution requests.                                      *)

(* Mutant: a task an operator has taken over can be enrolled.               *)
EnrollableTakenOver(t) ==
  /\ ~ task[t].enrolled
  /\ TeamOf[t] \in open
  /\ ~ task[t].archived
  /\ task[t].state.status \in {"NEW", "PAUSED", "WAITING_HUMAN"}
  /\ BusyWith(job, t) = {}

Enrollable(t) ==
  /\ ~ task[t].enrolled
  /\ TeamOf[t] \in open
  /\ ~ task[t].archived
  /\ ~ task[t].state.takeover
  /\ task[t].state.status \in {"NEW", "PAUSED", "WAITING_HUMAN"}
  /\ BusyWith(job, t) = {}

(* enroll(): resets the task to a new intake under a native session.        *)
Enroll(t) ==
  LET s == [task[t].state EXCEPT !.status = "NEW", !.stage = "INTAKE", !.wait = "NONE"]
  IN  /\ Enrollable(t)
      /\ Room(t, 1)
      /\ task' = [task EXCEPT ![t].state = s, ![t].version = @ + 1, ![t].enrolled = TRUE]
      /\ job' = EnqueuePhase(CancelQueued(job, t), t, s, task[t].version + 1)
      /\ UNCHANGED <<open, runner, interpreting, validated>>

(* request_execution() when enroll() raises ValueError: Team, repository,   *)
(* policy or profile configuration is missing, or the task cannot enroll.   *)
RefuseEnrollment(t) ==
  /\ ~ task[t].enrolled
  /\ task[t].state.status \in {"NEW", "ACTIVE", "WAITING_HUMAN"}
  /\ Room(t, 1)
  /\ SetState(t, Transition(task[t].state, "BLOCK", "MISSING_CONFIGURATION", FALSE), 1)
  /\ UNCHANGED <<job, open, runner, interpreting, validated>>

RequestExecution(t) == Enroll(t) \/ RefuseEnrollment(t)

-----------------------------------------------------------------------------
(* Operator, tracker and coordinator commands.                             *)

(* control_task(): the transition revokes every unfinished job of the task, *)
(* and resuming applies the feedback that waited.                           *)
ControlTask(t, a) ==
  LET before  == task[t].state
      resumes == a \in {"RESUME", "RELEASE_TAKEOVER"}
      moved   == Transition(before, a, "NONE", FALSE)
  IN  /\ resumes => TeamOf[t] \in open
      /\ ~ (resumes /\ before.status = "NEW" /\ ~ before.takeover)
      /\ Permits(before, a, "NONE")
      /\ \E out \in IF resumes THEN FeedbackOutcomes(moved) ELSE {Unfed(moved)} :
           /\ Room(t, 1 + out.steps)
           /\ SetState(t, out.state, 1 + out.steps)
           /\ job' = EnqueuePhase(CancelJobs(job, t), t, out.state,
                                  task[t].version + 1 + out.steps)
      /\ UNCHANGED <<open, runner, interpreting, validated>>

(* control_task() resuming a task that is NEW only queues its phase.        *)
ResumeNew(t) ==
  /\ TeamOf[t] \in open
  /\ task[t].state.status = "NEW"
  /\ ~ task[t].state.takeover
  /\ Room(t, 0)
  /\ job' = EnqueuePhase(job, t, task[t].state, task[t].version)
  /\ UNCHANGED <<task, open, runner, interpreting, validated>>

(* SqlAlchemyTaskLifecycleUnitOfWork.change()                               *)
Change(t, a) ==
  \/ a = "RESUME" /\ ~ task[t].enrolled /\ Enroll(t)
  \/ a = "RESUME" /\ task[t].enrolled /\ ResumeNew(t)
  \/ /\ a = "RESUME" => task[t].enrolled
     /\ ControlTask(t, IF a = "RESUME" /\ task[t].state.takeover
                       THEN "RELEASE_TAKEOVER" ELSE a)

Archive(t) ==
  /\ task[t].state.status \in Terminal
  /\ task' = [task EXCEPT ![t].archived = TRUE]
  /\ UNCHANGED <<job, open, runner, interpreting, validated>>

(* A conversation, review or tracker command goes to control_task() without *)
(* the enrollment of change().                                             *)
Command(t, a) == (a = "RESUME" /\ ResumeNew(t)) \/ ControlTask(t, a)

(* requirements_changed(), and operator feedback on a task that is not      *)
(* paused: PAUSE through control_task(), then REVISE_REQUIREMENT.           *)
ReviseRequirement(t) ==
  LET s == task[t].state
  IN  /\ s.status \notin Terminal
      /\ Room(t, 2)
      /\ SetState(t, ReviseState(PauseState(s, s.takeover)), 2)
      /\ job' = CancelJobs(job, t)
      /\ UNCHANGED <<open, runner, interpreting, validated>>

(* Operator feedback on a task that is already paused.                      *)
ReviseWhilePaused(t) ==
  /\ task[t].enrolled
  /\ task[t].state.status = "PAUSED"
  /\ Room(t, 1)
  /\ SetState(t, ReviseState(task[t].state), 1)
  /\ UNCHANGED <<job, open, runner, interpreting, validated>>

(* SqlSessionAdministration.change() and save_task_policy(): a new version  *)
(* without a new state, refused while a worker executes.                    *)
ChangeSession(t) ==
  /\ task[t].enrolled
  /\ ~ task[t].archived
  /\ ~ task[t].state.takeover
  /\ task[t].state.status \in {"PAUSED", "WAITING_HUMAN"}
  /\ BusyWith(job, t) = {}
  /\ Room(t, 1)
  /\ SetState(t, task[t].state, 1)
  /\ UNCHANGED <<job, open, runner, interpreting, validated>>

(* request_validation(): whether a settled candidate exists is decided by   *)
(* AI run receipts outside this module.                                    *)
RequestValidation(t) ==
  LET s      == task[t].state
      queued == CancelQueued(job, t)
      moves  == s.stage # "VALIDATING"
      after  == IF moves THEN Transition(s, "VALIDATE_CANDIDATE", "NONE", FALSE) ELSE s
      k      == IF moves THEN 1 ELSE 0
  IN  /\ task[t].enrolled
      /\ s.status = "ACTIVE"
      /\ s.stage \in {"DEVELOPING", "FIXING", "VALIDATING"}
      /\ BusyWith(job, t) = {}
      /\ Room(t, k)
      /\ SetState(t, after, k)
      /\ job' = EnqueuePhase(queued, t, after, task[t].version + k)
      /\ UNCHANGED <<open, runner, interpreting, validated>>

-----------------------------------------------------------------------------
(* GitHub evidence and review comments.                                    *)

AwaitsReview(t) ==
  /\ task[t].state.stage = "REVIEWING"
  /\ task[t].state.status = "WAITING_EXTERNAL"
  /\ ~ task[t].state.takeover

(* github_event(): feedback, a moved head, a human merge, or authority to   *)
(* merge; each decided by GitHub's answer.                                  *)
ReviewFeedback(t) ==
  /\ FeedbackApplies(task[t].state)
  /\ \E out \in {Fed(task[t].state), Oversized(task[t].state)} :
       /\ Room(t, 1)
       /\ SetState(t, out.state, 1)
       /\ job' = EnqueuePhase(job, t, out.state, task[t].version + 1)
  /\ UNCHANGED <<open, runner, interpreting, validated>>

HeadChanged(t) ==
  /\ AwaitsReview(t)
  /\ Room(t, 1)
  /\ SetState(t, Transition(task[t].state, "BLOCK", "MERGE_CONFLICT", FALSE), 1)
  /\ UNCHANGED <<job, open, runner, interpreting, validated>>

MergedExternally(t) ==
  LET authorized == Transition(task[t].state, "MERGE_AUTHORIZED", "NONE", FALSE)
  IN  /\ AwaitsReview(t)
      /\ Room(t, 2)
      /\ SetState(t, Transition(authorized, "MERGED", "NONE", FALSE), 2)
      /\ UNCHANGED <<job, open, runner, interpreting, validated>>

AuthorizeMerge(t) ==
  LET s == Transition(task[t].state, "MERGE_AUTHORIZED", "NONE", FALSE)
  IN  /\ AwaitsReview(t)
      /\ Room(t, 1)
      /\ SetState(t, s, 1)
      /\ job' = EnqueuePhase(job, t, s, task[t].version + 1)
      /\ UNCHANGED <<open, runner, interpreting, validated>>

(* process_review_text(): the comment is claimed while the task reviews,    *)
(* the model runs without a lock, and the verdict is applied to whatever    *)
(* the task has become.                                                    *)
ClaimReviewText(t) ==
  /\ t \notin interpreting
  /\ task[t].state.stage = "REVIEWING"
  /\ task[t].state.status \notin {"PAUSED", "WAITING_HUMAN"} \cup Terminal
  /\ interpreting' = interpreting \cup {t}
  /\ UNCHANGED <<task, job, open, runner, validated>>

ApplyFeedbackVerdict(t) ==
  /\ t \in interpreting
  /\ \E out \in FeedbackOutcomes(task[t].state) :
       /\ Room(t, out.steps)
       /\ SetState(t, out.state, out.steps)
       /\ job' = IF out.steps = 0 THEN job
                 ELSE EnqueuePhase(job, t, out.state, task[t].version + 1)
  /\ interpreting' = interpreting \ {t}
  /\ UNCHANGED <<open, runner, validated>>

ApplyUnknownVerdict(t) ==
  /\ t \in interpreting
  /\ task[t].state.status \notin {"PAUSED", "WAITING_HUMAN"} \cup Terminal
  /\ Room(t, 1)
  /\ SetState(t, Transition(task[t].state, "BLOCK", "MISSING_REQUIREMENT", FALSE), 1)
  /\ interpreting' = interpreting \ {t}
  /\ UNCHANGED <<job, open, runner, validated>>

-----------------------------------------------------------------------------
(* Teams.                                                                  *)

(* shutdown(): the flag first, then the tasks in later transactions.        *)
CloseTeam(m) ==
  /\ m \in open
  /\ open' = open \ {m}
  /\ UNCHANGED <<task, job, runner, interpreting, validated>>

ShutdownTask(t) ==
  /\ TeamOf[t] \notin open
  /\ task[t].state.status \in {"NEW", "ACTIVE", "WAITING_EXTERNAL", "WAITING_HUMAN"}
  /\ ~ task[t].archived
  /\ ControlTask(t, "PAUSE")

(* wake(): the flag first; it then requests execution of new tasks.         *)
OpenTeam(m) ==
  /\ m \notin open
  /\ open' = open \cup {m}
  /\ UNCHANGED <<task, job, runner, interpreting, validated>>

-----------------------------------------------------------------------------
(* Workers.                                                                *)

Occupied(m) ==
  {t \in Tasks : /\ TeamOf[t] = m
                 /\ \E j \in BusyWith(job, t) : job[j].action \in SlotAction}
ExecutingIn(actions) ==
  {j \in JobIds : job[j].state \in Executing /\ job[j].action \in actions}

(* Mutants: claim_next_job() without the Team's capacity, and with an       *)
(* off-by-one in the shared slots.                                          *)
ClaimableBeyondCapacity(j) ==
  /\ job[j].state = "QUEUED"
  /\ task[job[j].task].state.status \in Runnable
  /\ TeamOf[job[j].task] \in open
  /\ BusyWith(job, job[j].task) = {}
  /\ job[j].action \in SlotAction => Cardinality(ExecutingIn(SlotAction)) < DeveloperSlots

(* The WHERE clause of claim_next_job().                                    *)
Claimable(j) ==
  LET t == job[j].task
  IN  /\ job[j].state = "QUEUED"
      /\ task[t].state.status \in Runnable
      /\ ~ task[t].state.takeover
      /\ ~ task[t].archived
      /\ TeamOf[t] \in open
      /\ BusyWith(job, t) = {}
      /\ \A p \in Requires[t] : task[p].state.status = "MERGED"
      /\ job[j].action \in SlotAction =>
           /\ Cardinality(Occupied(TeamOf[t])) < Capacity[TeamOf[t]]
           /\ Cardinality(ExecutingIn(SlotAction)) < DeveloperSlots
      /\ job[j].action = "RUN_VALIDATION" =>
           Cardinality(ExecutingIn({"RUN_VALIDATION"})) < ValidationSlots

(* claim_next_job(), under the admission lock; the worker keeps a PhaseLease. *)
Claim(r, j) ==
  /\ runner[r].pc = "idle"
  /\ Claimable(j)
  /\ job' = [job EXCEPT ![j].state = "CLAIMED", ![j].token = r]
  /\ runner' = [runner EXCEPT ![r] =
       [pc |-> "claimed", job |-> j, task |-> job[j].task, action |-> job[j].action,
        version |-> job[j].version, req |-> 0, result |-> "NONE"]]
  /\ UNCHANGED <<task, open, interpreting, validated>>

(* _locked(): the row still carries this lease.                             *)
Locked(r) ==
  LET row == job[runner[r].job]
  IN  row.task = runner[r].task /\ row.token = r /\ row.state \in Executing

HeartbeatOk(r) ==
  LET lease == runner[r]
      owner == task[lease.task]
  IN  /\ Locked(r)
      /\ owner.version = lease.version
      /\ owner.state.status \in Runnable
      /\ ~ owner.state.takeover
      /\ ~ owner.archived
      /\ TeamOf[lease.task] \in open
      /\ ~ job[lease.job].expired
      /\ owner.state.stage \in PhaseStage
      /\ PhaseOf(owner.state.stage) = lease.action

SetPC(r, pc) == runner' = [runner EXCEPT ![r].pc = pc]

(* heartbeat(): a success marks the job RUNNING and renews its lease.       *)
Renew(r) == job' = [job EXCEPT ![runner[r].job].state = "RUNNING"]

(* claim() heartbeats the lease it took; execute() does so again and just   *)
(* returns when it fails; the watcher of a running operation cancels it.    *)
FirstHeartbeat(r) ==
  /\ runner[r].pc = "claimed"
  /\ \/ HeartbeatOk(r) /\ Renew(r) /\ SetPC(r, "leased")
     \/ ~ HeartbeatOk(r) /\ UNCHANGED job /\ SetPC(r, "stale")
  /\ UNCHANGED <<task, open, interpreting, validated>>

StartExecution(r) ==
  /\ runner[r].pc = "leased"
  /\ \/ HeartbeatOk(r) /\ Renew(r) /\ SetPC(r, "starting")
     \/ ~ HeartbeatOk(r) /\ UNCHANGED job /\ runner' = [runner EXCEPT ![r] = Idle]
  /\ UNCHANGED <<task, open, interpreting, validated>>

(* load_phase_context(), in a transaction of its own: the requirement the   *)
(* phase works on is the one stored now, and a task without a native session *)
(* cannot start.                                                            *)
LoadContext(r) ==
  LET owner == task[runner[r].task]
  IN  /\ runner[r].pc = "starting"
      /\ runner' = IF owner.enrolled
                   THEN [runner EXCEPT ![r].pc = "working", ![r].req = owner.state.req]
                   ELSE [runner EXCEPT ![r].pc = "failing"]
      /\ UNCHANGED <<task, job, open, interpreting, validated>>

(* _watch() finds the lease revoked.                                        *)
Revoked(r) ==
  /\ runner[r].pc \in {"starting", "working"}
  /\ ~ HeartbeatOk(r)
  /\ SetPC(r, "failing")
  /\ UNCHANGED <<task, job, open, interpreting, validated>>

(* The phase operation returns a result.                                    *)
FinishPhase(r) ==
  /\ runner[r].pc = "working"
  /\ \E a \in PhaseResults(runner[r].action) :
       runner' = [runner EXCEPT ![r].pc = "finished", ![r].result = a]
  /\ UNCHANGED <<task, job, open, interpreting, validated>>

(* The operation raises, or the controller is stopping.                     *)
FailPhase(r) ==
  /\ runner[r].pc = "working"
  /\ SetPC(r, "failing")
  /\ UNCHANGED <<task, job, open, interpreting, validated>>

(* Mutant: the result is fenced by the state of the task alone.             *)
MayCompleteUnfenced(r) ==
  /\ task[runner[r].task].state.status \in Runnable
  /\ ~ task[runner[r].task].state.takeover

(* The conditions under which complete() applies the result.                *)
MayComplete(r) ==
  LET lease == runner[r]
      owner == task[lease.task]
  IN  /\ Locked(r)
      /\ owner.version = lease.version
      /\ owner.state.status \in Runnable
      /\ ~ owner.state.takeover
      /\ ~ job[lease.job].expired

(* complete(): transition, success, pending feedback and the next job.      *)
Complete(r) ==
  LET j     == runner[r].job
      t     == runner[r].task
      a     == runner[r].result
      moved == Transition(task[t].state, a, "NONE", FALSE)
      done  == [job EXCEPT ![j] = Closed]
  IN  /\ runner[r].pc = "finished"
      /\ MayComplete(r)
      /\ Permits(task[t].state, a, "NONE")
      /\ \E out \in IF a = "PUBLISHED" THEN FeedbackOutcomes(moved) ELSE {Unfed(moved)} :
           /\ Room(t, 1 + out.steps)
           /\ SetState(t, out.state, 1 + out.steps)
           /\ job' = EnqueuePhase(done, t, out.state, task[t].version + 1 + out.steps)
      /\ validated' = IF a = "VALIDATION_PASSED"
                      THEN [validated EXCEPT ![t] = task[t].state.req] ELSE validated
      /\ runner' = [runner EXCEPT ![r] = Idle]
      /\ UNCHANGED <<open, interpreting>>

(* complete() returns silently once the lease or the version has moved on.  *)
DropResult(r) ==
  /\ runner[r].pc = "finished"
  /\ ~ MayComplete(r)
  /\ runner' = [runner EXCEPT ![r] = Idle]
  /\ UNCHANGED <<task, job, open, interpreting, validated>>

(* record_transition() refuses the result: the job boundary blocks it.      *)
RejectResult(r) ==
  /\ runner[r].pc = "finished"
  /\ MayComplete(r)
  /\ ~ Permits(task[runner[r].task].state, runner[r].result, "NONE")
  /\ SetPC(r, "failing")
  /\ UNCHANGED <<task, job, open, interpreting, validated>>

(* Mutant: the job is closed and its task left as it was.                   *)
BlockJobOnly(j, reason) ==
  /\ job' = [job EXCEPT ![j] = Closed]
  /\ UNCHANGED task

(* block() on a row: the job waits for a human; its task too, when it is    *)
(* still the version that the job was made for.                             *)
BlockRow(j, reason) ==
  LET t == job[j].task
      current == task[t].version = job[j].version /\ task[t].state.status \in Runnable
  IN  /\ job' = [job EXCEPT ![j] = Closed]
      /\ IF current
         THEN /\ Room(t, 1)
              /\ SetState(t, Transition(task[t].state, "BLOCK", reason, FALSE), 1)
         ELSE UNCHANGED task

Block(r) ==
  /\ runner[r].pc \in {"stale", "failing"}
  /\ IF Locked(r) THEN \E reason \in BlockReasons : BlockRow(runner[r].job, reason)
                  ELSE UNCHANGED <<task, job>>
  /\ runner' = [runner EXCEPT ![r] = Idle]
  /\ UNCHANGED <<open, interpreting, validated>>

(* The controller process dies with its leases.                             *)
Crash(r) ==
  /\ runner[r].pc # "idle"
  /\ runner' = [runner EXCEPT ![r] = Idle]
  /\ UNCHANGED <<task, job, open, interpreting, validated>>

(* Time passes without a renewal of the lease.                              *)
Expire(j) ==
  /\ job[j].state \in Executing
  /\ ~ job[j].expired
  /\ job' = [job EXCEPT ![j].expired = TRUE]
  /\ UNCHANGED <<task, open, runner, interpreting, validated>>

(* Mutant: a lease that never reached RUNNING is overlooked.                *)
RecoverRunning(j) ==
  /\ job[j].state = "RUNNING"
  /\ job[j].expired
  /\ BlockRow(j, "MISSING_CONFIGURATION")
  /\ UNCHANGED <<open, runner, interpreting, validated>>

(* recover(): expired leases are blocked, never rerun.  An expired lease    *)
(* cannot be renewed, so the list it reads first cannot go stale.           *)
Recover(j) ==
  /\ job[j].state \in Executing
  /\ job[j].expired
  /\ BlockRow(j, "MISSING_CONFIGURATION")
  /\ UNCHANGED <<open, runner, interpreting, validated>>

-----------------------------------------------------------------------------
TaskStep(t) ==
  \/ RequestExecution(t)
  \/ \E a \in Commands : Change(t, a)
  \/ \E a \in Commands \ {"TAKEOVER"} : Command(t, a)
  \/ Archive(t)
  \/ ReviseRequirement(t)
  \/ ReviseWhilePaused(t)
  \/ ChangeSession(t)
  \/ RequestValidation(t)
  \/ ReviewFeedback(t)
  \/ HeadChanged(t)
  \/ MergedExternally(t)
  \/ AuthorizeMerge(t)
  \/ ClaimReviewText(t)
  \/ ApplyFeedbackVerdict(t)
  \/ ApplyUnknownVerdict(t)
  \/ ShutdownTask(t)

RunnerStep(r) ==
  \/ \E j \in JobIds : Claim(r, j)
  \/ FirstHeartbeat(r)
  \/ StartExecution(r)
  \/ LoadContext(r)
  \/ Revoked(r)
  \/ FinishPhase(r)
  \/ FailPhase(r)
  \/ Complete(r)
  \/ DropResult(r)
  \/ RejectResult(r)
  \/ Block(r)
  \/ Crash(r)

Next ==
  \/ \E t \in Tasks : TaskStep(t)
  \/ \E m \in Teams : CloseTeam(m) \/ OpenTeam(m)
  \/ \E r \in Runners : RunnerStep(r)
  \/ \E j \in JobIds : Expire(j) \/ Recover(j)

Spec == Init /\ [][Next]_vars

(***************************************************************************)
(* Fairness: the scheduler loop keeps claiming and keeps recovering, a     *)
(* worker that lives takes its next step, and a lease nobody renews runs   *)
(* out.  Nobody has to send a command, and a crash is never required.      *)
(***************************************************************************)
Renewed(j) == \E r \in Runners : runner[r].job = j /\ runner[r].pc # "idle"
Lapse(j) == Expire(j) /\ ~ Renewed(j)
Settle(r) ==
  \/ FirstHeartbeat(r) \/ StartExecution(r) \/ LoadContext(r) \/ FinishPhase(r)
  \/ FailPhase(r) \/ Complete(r) \/ DropResult(r) \/ RejectResult(r) \/ Block(r)
Fairness ==
  /\ \A r \in Runners : WF_vars(Settle(r))
  /\ \A j \in JobIds : WF_vars(Lapse(j)) /\ WF_vars(Recover(j))
FairSpec == Spec /\ Fairness

-----------------------------------------------------------------------------
(* The type of every variable.                                             *)
TypeOK ==
  /\ task \in [Tasks -> TaskRow]
  /\ job \in [JobIds -> JobRow]
  /\ open \in SUBSET Teams
  /\ runner \in [Runners -> RunnerState]
  /\ interpreting \in SUBSET Tasks
  /\ validated \in [Tasks -> Nat]

(* Whatever interleaving of workers, commands and recovery, the stored      *)
(* task row is one that EngineeringState accepts: state_of(), which every   *)
(* handler calls first, never raises.                                      *)
ConsistentTasks == \A t \in Tasks : Consistent(task[t].state)

(* enqueue_phase() and the revocations never leave two jobs of one task     *)
(* queued or executing.                                                    *)
OneLiveJob ==
  \A i, j \in JobIds :
    /\ job[i].state \in LiveState
    /\ job[j].state \in LiveState
    /\ job[i].task = job[j].task
    => i = j

(* An enrolled task that is NEW or ACTIVE always has the live job that will *)
(* move it: one made for its current version and its current phase.  A      *)
(* violation is a task that no worker will ever touch again.                *)
NoStrandedTask ==
  \A t \in Tasks :
    task[t].enrolled /\ task[t].state.status \in Runnable =>
      \E j \in JobIds : /\ job[j].task = t
                        /\ job[j].state \in LiveState
                        /\ job[j].version = task[t].version
                        /\ job[j].action = PhaseOf(task[t].state.stage)

(* Once a task is paused, cancelled, merged or waiting for review, no lease *)
(* on it survives: a late worker finds its token gone.                      *)
StoppedWorkIsRevoked ==
  \A t \in Tasks :
    task[t].state.status \in Terminal \cup {"PAUSED", "WAITING_EXTERNAL"} =>
      Live(job, t) = {}

(* However claims, commands and recoveries interleave, the tasks of a team  *)
(* that occupy a slot never exceed its max_concurrent_tasks, nor the phases *)
(* that generate, or validate, the limits all controllers share.            *)
CapacityRespected ==
  /\ \A m \in Teams : Cardinality(Occupied(m)) <= Capacity[m]
  /\ Cardinality(ExecutingIn(SlotAction)) <= DeveloperSlots
  /\ Cardinality(ExecutingIn({"RUN_VALIDATION"})) <= ValidationSlots

(* A task is published, reviewed or merged only for a requirement version   *)
(* that passed validation: a revision that lands at any moment sends it     *)
(* back to work.                                                           *)
OnlyValidatedRequirementsAdvance ==
  \A t \in Tasks :
    task[t].state.stage \in {"PUBLISHING", "REVIEWING", "MERGING", "COMPLETE"} =>
      validated[t] = task[t].state.req

(* A result that complete() applies was worked out for the requirement that *)
(* is still the current one, by a worker that loaded its context after its  *)
(* lease was checked: however revisions, pauses, resumptions, expiries and  *)
(* a second worker interleave with it, stale work never moves the task.     *)
ResultsFitTheirRequirement ==
  [][\A r \in Runners :
       LET t == runner[r].task
       IN  (runner[r].pc = "finished" /\ task' # task /\ runner'[r] # runner[r]) =>
             /\ runner[r].req = task[t].state.req
             /\ task[t].state.status \in Runnable
             /\ \A q \in Runners \ {r} : runner[q].task = t => ~ Locked(q)]_vars

(* A claimed or running job is always settled in the end, by its worker or  *)
(* by recovery, even if the worker crashed or returned without a word       *)
(* (unless the exploration bound on versions stops the task).               *)
LeasesSettle ==
  \A j \in JobIds :
    job[j].state \in Executing ~>
      \/ job[j].state \notin Executing
      \/ task[job[j].task].version = MaxVersion
      \/ Absent = {}
=============================================================================
