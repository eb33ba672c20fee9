--------------------------- MODULE PhaseJobsProofs ---------------------------
(***************************************************************************)
(* The safety of the job queue for any number of tasks, teams, workers and *)
(* jobs.  The invariant that carries the proof speaks of one task row and  *)
(* the jobs of that task: which stages a status allows, that there is at   *)
(* most one live job, that the live job of a runnable task was made for    *)
(* its present version and phase, and that stopped tasks have none.        *)
(* From it follow the refinement of TaskLifecycle, the limits on what      *)
(* executes at once, and that no result outlives its requirement.          *)
(***************************************************************************)
EXTENDS PhaseJobsRefinement, LifecycleProofs, FiniteSetTheorems

(* What a status says of the stage, beyond __post_init__: there is a phase   *)
(* to run in every runnable state, and the only external wait is review.     *)
StateOK(s) ==
  /\ Consistent(s)
  /\ s.status \in Runnable => s.stage \in PhaseStage
  /\ s.status = "WAITING_EXTERNAL" => s.stage = "REVIEWING"
  /\ s.status = "NEW" => s.stage = "INTAKE"

Stopped == Terminal \cup {"PAUSED", "WAITING_EXTERNAL"}

(* The live jobs of one task fit its row.                                   *)
JobsOK(row, t, jobs) ==
  /\ \A i, j \in Live(jobs, t) : i = j
  /\ row.state.status \in Stopped => Live(jobs, t) = {}
  /\ row.state.status \in Runnable =>
       /\ \A j \in Live(jobs, t) : /\ jobs[j].version = row.version
                                   /\ jobs[j].action = PhaseOf(row.state.stage)
       /\ row.enrolled => Live(jobs, t) # {}

(* The jobs of every other task are as they were, but for their lease.      *)
SameElsewhere(before, after, t) ==
  \A u \in Tasks \ {t} :
    /\ Live(after, u) = Live(before, u)
    /\ \A j \in Live(before, u) : /\ after[j].version = before[j].version
                                  /\ after[j].action = before[j].action

RowsOK ==
  \A t \in Tasks :
    /\ StateOK(task[t].state)
    /\ task[t].state.stage \in Delivering => validated[t] = task[t].state.req
    /\ JobsOK(task[t], t, job)

LiveHaveTask == \A j \in JobIds : job[j].state \in LiveState => job[j].task \in Tasks

RunnersOK ==
  \A r \in Runners :
    /\ runner[r].pc # "idle" =>
         /\ runner[r].job \in JobIds
         /\ runner[r].task \in Tasks
         /\ runner[r].action \in PhaseAction
    /\ runner[r].pc = "finished" => runner[r].result \in StepAction

IndInv == TypeOK /\ LiveHaveTask /\ RunnersOK /\ RowsOK

-----------------------------------------------------------------------------
(* Task states.                                                            *)

LEMMA TransitionOK ==
  ASSUME NEW s \in EngineeringState, StateOK(s),
         NEW a \in Action, NEW reason \in WaitReason, Permits(s, a, reason)
  PROVE  /\ Transition(s, a, reason, FALSE) \in EngineeringState
         /\ StateOK(Transition(s, a, reason, FALSE))
<1> DEFINE after == Transition(s, a, reason, FALSE)
<1>1. after \in EngineeringState /\ Consistent(after)
  BY TransitionConsistent DEF StateOK
<1>2. after.status # "NEW"
  BY TransitionDelivers
<1>3. CASE a \in StepAction
  <2>1. after = StepState(s, a)
    BY <1>3 DEF Transition, StepAction
  <2>2. a \in {"PUBLISHED", "MERGE_RECHECK"} => StepTo(a) = "REVIEWING"
    BY <1>3 DEF StepTo, StepAction
  <2>3. a \notin {"PUBLISHED", "MERGE_RECHECK", "MERGED"} => StepTo(a) \in PhaseStage
    BY <1>3 DEF StepTo, StepAction, PhaseStage
  <2>4. /\ after.stage = StepTo(a)
        /\ after.status = "WAITING_EXTERNAL" <=> a \in {"PUBLISHED", "MERGE_RECHECK"}
        /\ after.status = "MERGED" <=> a = "MERGED"
    BY <2>1 DEF StepState, EngineeringState
  <2> QED BY <1>1, <1>2, <2>2, <2>3, <2>4 DEF StateOK, Runnable
<1>4. CASE a = "CANCEL"
  BY <1>1, <1>2, <1>4 DEF Transition, StepAction, EngineeringState, StateOK, Runnable
<1>5. CASE a \in {"PAUSE", "TAKEOVER"}
  BY <1>1, <1>2, <1>5
     DEF Transition, StepAction, PauseState, EngineeringState, StateOK, Runnable
<1>6. CASE a = "REVISE_REQUIREMENT"
  <2>1. after = ReviseState(s) /\ s.status = "PAUSED"
    BY <1>6 DEF Transition, Permits, StepAction
  <2> QED BY <1>1, <1>2, <2>1 DEF ReviseState, EngineeringState, StateOK, Runnable
<1>7. CASE a \in {"RESUME", "RELEASE_TAKEOVER"}
  <2>1. after = ResumeState(s)
    BY <1>7 DEF Transition, StepAction
  <2>2. after.stage = s.stage /\ after.status \in {"WAITING_EXTERNAL", "ACTIVE"}
        /\ (after.status = "WAITING_EXTERNAL" <=> s.stage = "REVIEWING")
    BY <2>1 DEF ResumeState, EngineeringState
  <2>3. s.stage # "COMPLETE"
    BY DEF Permits, Terminal, Consistent, StateOK
  <2>4. s.stage # "REVIEWING" => s.stage \in PhaseStage
    BY <2>3 DEF EngineeringState, Stage, PhaseStage
  <2> QED BY <1>1, <1>2, <2>2, <2>4 DEF StateOK, Runnable
<1>8. CASE a = "BLOCK"
  BY <1>1, <1>2, <1>8 DEF Transition, StepAction, EngineeringState, StateOK, Runnable
<1>9. CASE a = "REQUIREMENT_CHANGED"
  BY <1>1, <1>2, <1>9
     DEF Transition, StepAction, EngineeringState, StateOK, Runnable, PhaseStage
<1> QED BY <1>3, <1>4, <1>5, <1>6, <1>7, <1>8, <1>9 DEF Action

-----------------------------------------------------------------------------
(* Job rows.                                                               *)

(* Without a live job of the task, enqueue_phase() leaves it exactly the one *)
(* that its state calls for.                                               *)
LEMMA EnqueueOK ==
  ASSUME NEW jobs \in [JobIds -> JobRow], NEW t \in Tasks, NEW s \in EngineeringState,
         StateOK(s), NEW version \in 0..MaxVersion, Live(jobs, t) = {},
         Fresh \in JobIds, jobs[Fresh].state = "ABSENT",
         NEW row, row.state = s, row.version = version
  PROVE  LET q == EnqueuePhase(jobs, t, s, version)
         IN  /\ q \in [JobIds -> JobRow]
             /\ JobsOK(row, t, q)
             /\ SameElsewhere(jobs, q, t)
             /\ \A j \in JobIds : q[j] = jobs[j] \/ q[j].task = t
<1> DEFINE q == EnqueuePhase(jobs, t, s, version)
           new == [state |-> "QUEUED", task |-> t, action |-> PhaseOf(s.stage),
                   version |-> version, token |-> NoRunner, expired |-> FALSE]
<1>1. CASE s.status \in Runnable
  <2>1. s.stage \in PhaseStage
    BY <1>1 DEF StateOK
  <2>2. PhaseOf(s.stage) \in PhaseAction
    BY <2>1 DEF PhaseOf, PhaseStage, PhaseAction
  <2>3. new \in JobRow
    BY <2>2 DEF JobRow, JobState
  <2>4. q = [jobs EXCEPT ![Fresh] = new]
    BY <1>1, <2>1 DEF EnqueuePhase
  <2>5. q \in [JobIds -> JobRow] /\ q[Fresh] = new
        /\ \A j \in JobIds \ {Fresh} : q[j] = jobs[j]
    BY <2>3, <2>4
  <2>6. new.state \in LiveState /\ new.task = t /\ new.version = version
        /\ new.action = PhaseOf(s.stage)
    BY DEF LiveState
  <2>7. "ABSENT" \notin LiveState
    BY DEF LiveState, Executing
  <2>8. Live(q, t) = {Fresh}
    BY <2>5, <2>6 DEF Live
  <2>9. \A u \in Tasks \ {t} : Live(q, u) = Live(jobs, u) /\ Fresh \notin Live(jobs, u)
    BY <2>5, <2>6, <2>7 DEF Live
  <2>10. s.status \notin Stopped
    BY <1>1 DEF Runnable, Stopped, Terminal
  <2>11. JobsOK(row, t, q)
    BY <2>5, <2>6, <2>8, <2>10 DEF JobsOK
  <2>12. SameElsewhere(jobs, q, t)
    BY <2>5, <2>9 DEF SameElsewhere, Live
  <2> QED BY <2>5, <2>6, <2>11, <2>12
<1>2. CASE s.status \notin Runnable
  <2>1. q = jobs
    BY <1>2 DEF EnqueuePhase
  <2> QED BY <1>2, <2>1 DEF JobsOK, SameElsewhere
<1> QED BY <1>1, <1>2

LEMMA ClosedOK == Closed \in JobRow /\ Closed.state = "CLOSED" /\ NoJob \in JobRow
<1>1. 0 \in 0..MaxVersion
  BY ConstantsAssumption
<1>2. NoJob \in JobRow
  BY <1>1 DEF NoJob, JobRow, JobState
<1> QED BY <1>2 DEF Closed, JobRow, JobState

(* Closing rows of a task touches no other task, leaves every row in its     *)
(* type and makes no row live.                                              *)
LEMMA CancelJobsOK ==
  ASSUME NEW t \in Tasks, TypeOK
  PROVE  /\ CancelJobs(job, t) \in [JobIds -> JobRow]
         /\ Live(CancelJobs(job, t), t) = {}
         /\ SameElsewhere(job, CancelJobs(job, t), t)
         /\ \A j \in JobIds : CancelJobs(job, t)[j] = job[j]
                              \/ CancelJobs(job, t)[j].state \notin LiveState
         /\ \A j \in JobIds : job[j].state = "ABSENT" => CancelJobs(job, t)[j] = job[j]
<1> DEFINE q == CancelJobs(job, t)
<1>1. Closed \in JobRow /\ Closed.state = "CLOSED"
  BY ClosedOK
<1>2. "CLOSED" \notin LiveState /\ "ABSENT" \notin LiveState
  BY DEF LiveState, Executing
<1>3. \A j \in JobIds : q[j] = IF j \in Live(job, t) THEN Closed ELSE job[j]
  BY DEF CancelJobs
<1>4. q \in [JobIds -> JobRow]
  BY <1>1 DEF CancelJobs, TypeOK
<1>5. Live(q, t) = {}
  BY <1>1, <1>2, <1>3 DEF Live
<1>6. \A u \in Tasks \ {t}, j \in JobIds : j \in Live(job, u) => j \notin Live(job, t)
  BY DEF Live
<1>7. \A u \in Tasks \ {t} : Live(q, u) = Live(job, u)
  BY <1>1, <1>2, <1>3, <1>6 DEF Live
<1>8. SameElsewhere(job, q, t)
  BY <1>3, <1>6, <1>7 DEF SameElsewhere, Live
<1> QED BY <1>1, <1>2, <1>3, <1>4, <1>5, <1>8 DEF Live

LEMMA CancelQueuedOK ==
  ASSUME NEW t \in Tasks, TypeOK, BusyWith(job, t) = {}
  PROVE  CancelQueued(job, t) = CancelJobs(job, t)
BY DEF CancelQueued, CancelJobs, Live, BusyWith, LiveState, Executing

LEMMA CloseRowOK ==
  ASSUME IndInv, NEW j \in JobIds, job[j].state \in LiveState
  PROVE  LET q == [job EXCEPT ![j] = Closed]
             t == job[j].task
         IN  /\ t \in Tasks
             /\ q \in [JobIds -> JobRow]
             /\ Live(q, t) = {}
             /\ SameElsewhere(job, q, t)
             /\ \A i \in JobIds : q[i] = job[i] \/ q[i].state \notin LiveState
             /\ \A i \in JobIds : job[i].state = "ABSENT" => q[i] = job[i]
<1> DEFINE q == [job EXCEPT ![j] = Closed]
           t == job[j].task
<1>1. Closed \in JobRow /\ Closed.state = "CLOSED"
  BY ClosedOK
<1>2. "CLOSED" \notin LiveState /\ "ABSENT" \notin LiveState
  BY DEF LiveState, Executing
<1>3. t \in Tasks /\ j \in Live(job, t)
  BY DEF IndInv, LiveHaveTask, Live
<1>4. \A i \in Live(job, t) : i = j
  BY <1>3 DEF IndInv, RowsOK, JobsOK
<1>5. q \in [JobIds -> JobRow] /\ q[j] = Closed /\ \A i \in JobIds \ {j} : q[i] = job[i]
  BY <1>1 DEF IndInv, TypeOK
<1>6. Live(q, t) = {}
  BY <1>1, <1>2, <1>4, <1>5 DEF Live
<1>7. \A u \in Tasks \ {t} : Live(q, u) = Live(job, u) /\ j \notin Live(job, u)
  BY <1>1, <1>2, <1>5 DEF Live
<1>8. SameElsewhere(job, q, t)
  BY <1>5, <1>7 DEF SameElsewhere, Live
<1> QED BY <1>1, <1>2, <1>3, <1>5, <1>6, <1>8

(* The two together: from rows of the task that are all closed, enqueueing   *)
(* the phase of its new state keeps every task in order.                     *)
LEMMA RequeueOK ==
  ASSUME IndInv, NEW t \in Tasks, NEW s \in EngineeringState, StateOK(s),
         NEW version \in 0..MaxVersion, NEW row, row.state = s, row.version = version,
         NEW jobs \in [JobIds -> JobRow], Live(jobs, t) = {}, SameElsewhere(job, jobs, t),
         \A j \in JobIds : jobs[j] = job[j] \/ jobs[j].state \notin LiveState,
         \A j \in JobIds : job[j].state = "ABSENT" => jobs[j] = job[j],
         Absent # {}
  PROVE  LET q == EnqueuePhase(jobs, t, s, version)
         IN  /\ q \in [JobIds -> JobRow]
             /\ JobsOK(row, t, q)
             /\ SameElsewhere(job, q, t)
             /\ \A j \in JobIds : q[j].state \in LiveState => q[j].task \in Tasks
<1> DEFINE q == EnqueuePhase(jobs, t, s, version)
<1>1. \E j \in JobIds : job[j].state = "ABSENT"
  BY DEF Absent
<1>2. Fresh \in JobIds /\ job[Fresh].state = "ABSENT"
  BY <1>1 DEF Fresh
<1>3. jobs[Fresh].state = "ABSENT"
  BY <1>2
<1>4. /\ q \in [JobIds -> JobRow]
      /\ JobsOK(row, t, q)
      /\ SameElsewhere(jobs, q, t)
      /\ \A j \in JobIds : q[j] = jobs[j] \/ q[j].task = t
  BY <1>2, <1>3, EnqueueOK
<1>5. SameElsewhere(job, q, t)
  BY <1>4 DEF SameElsewhere
<1>6. \A j \in JobIds : q[j].state \in LiveState => q[j].task \in Tasks
  BY <1>4 DEF IndInv, LiveHaveTask
<1> QED BY <1>4, <1>5, <1>6

LEMMA RoomOK ==
  ASSUME TypeOK, NEW t \in Tasks, NEW k \in Nat, Room(t, k)
  PROVE  Absent # {} /\ task[t].version + k \in 0..MaxVersion
BY ConstantsAssumption DEF Room, TypeOK, TaskRow

LEMMA SetStateRow ==
  ASSUME TypeOK, NEW t \in Tasks, NEW s \in EngineeringState, NEW k \in Nat,
         task[t].version + k \in 0..MaxVersion, SetState(t, s, k)
  PROVE  /\ task' \in [Tasks -> TaskRow]
         /\ task'[t].state = s
         /\ task'[t].version = task[t].version + k
         /\ task'[t].enrolled = task[t].enrolled
         /\ \A u \in Tasks \ {t} : task'[u] = task[u]
BY DEF SetState, TypeOK, TaskRow

(* One task moves and its jobs follow: every row stays in order.            *)
LEMMA MoveOK ==
  ASSUME IndInv, NEW t \in Tasks,
         task' \in [Tasks -> TaskRow], \A u \in Tasks \ {t} : task'[u] = task[u],
         StateOK(task'[t].state),
         task'[t].state.stage \in Delivering => validated'[t] = task'[t].state.req,
         \A u \in Tasks \ {t} : validated'[u] = validated[u],
         JobsOK(task'[t], t, job'), SameElsewhere(job, job', t)
  PROVE  RowsOK'
<1> SUFFICES ASSUME NEW u \in Tasks
             PROVE  /\ StateOK(task'[u].state)
                    /\ task'[u].state.stage \in Delivering => validated'[u] = task'[u].state.req
                    /\ JobsOK(task'[u], u, job')
  BY DEF RowsOK
<1>1. CASE u = t
  BY <1>1
<1>2. CASE u # t
  <2>1. task'[u] = task[u] /\ validated'[u] = validated[u]
    BY <1>2
  <2>2. JobsOK(task[u], u, job)
    BY DEF IndInv, RowsOK
  <2>3. JobsOK(task[u], u, job')
    BY <1>2, <2>2 DEF JobsOK, SameElsewhere
  <2> QED BY <2>1, <2>3 DEF IndInv, RowsOK
<1> QED BY <1>1, <1>2

(* A step that changes no row, no verdict and no job but for leases.         *)
LEMMA StillOK ==
  ASSUME IndInv, task' = task, validated' = validated,
         \A t \in Tasks : Live(job', t) = Live(job, t),
         \A j \in JobIds : job'[j].version = job[j].version /\ job'[j].action = job[j].action
  PROVE  RowsOK'
BY DEF IndInv, RowsOK, JobsOK, Live

(* A state that a task may be moved to without a verdict of its validation:  *)
(* delivery is never entered, and never kept across a revision.              *)
GoodMove(s, after) ==
  /\ after \in EngineeringState
  /\ StateOK(after)
  /\ after.stage \in Delivering => s.stage \in Delivering /\ after.req = s.req

LEMMA OtherTransitionOK ==
  ASSUME NEW s \in EngineeringState, StateOK(s), NEW a \in Action, a # "VALIDATION_PASSED",
         NEW reason \in WaitReason, Permits(s, a, reason),
         NEW after, after = Transition(s, a, reason, FALSE)
  PROVE  GoodMove(s, after)
BY TransitionOK, TransitionDelivers DEF GoodMove

LEMMA GoodMoves ==
  ASSUME NEW s, NEW between, NEW after, GoodMove(s, between), GoodMove(between, after)
  PROVE  GoodMove(s, after)
BY DEF GoodMove

(* What pending feedback makes of a state.                                  *)
LEMMA FeedbackOK ==
  ASSUME NEW s \in EngineeringState, StateOK(s), FeedbackApplies(s)
  PROVE  GoodMove(s, Fed(s).state) /\ GoodMove(s, Oversized(s).state)
<1>1. s.status = "WAITING_EXTERNAL" /\ s.stage = "REVIEWING" /\ ~ s.takeover
  BY DEF FeedbackApplies, StateOK, EngineeringState, TaskStatus, Terminal, Runnable,
         PhaseStage
<1>2. GoodMove(s, Fed(s).state)
  <2>1. Fed(s).state = Transition(s, "REVIEW_FIX", "NONE", FALSE)
    BY DEF Fed
  <2>2. Permits(s, "REVIEW_FIX", "NONE")
    BY <1>1 DEF Permits, Terminal, StepAction, StepFrom
  <2>3. "REVIEW_FIX" \in Action /\ "NONE" \in WaitReason /\ "REVIEW_FIX" # "VALIDATION_PASSED"
    BY DEF Action, StepAction, WaitReason
  <2> QED BY <2>1, <2>2, <2>3, OtherTransitionOK
<1>3. GoodMove(s, Oversized(s).state)
  <2>1. Oversized(s).state = Transition(s, "BLOCK", "MISSING_REQUIREMENT", FALSE)
    BY DEF Oversized
  <2>2. Permits(s, "BLOCK", "MISSING_REQUIREMENT")
    BY <1>1 DEF Permits, Terminal
  <2>3. "BLOCK" \in Action /\ "MISSING_REQUIREMENT" \in WaitReason
        /\ "BLOCK" # "VALIDATION_PASSED"
    BY DEF Action, WaitReason
  <2> QED BY <2>1, <2>2, <2>3, OtherTransitionOK
<1> QED BY <1>2, <1>3

-----------------------------------------------------------------------------
(* Steps that move one task.                                               *)

Core == /\ task \in [Tasks -> TaskRow]
        /\ job \in [JobIds -> JobRow]
        /\ LiveHaveTask
        /\ RowsOK

(* jobs is what the step made of the job rows before it enqueued a phase:    *)
(* the task has no live one left, and nobody else's are touched.             *)
Cleared(jobs, t) ==
  /\ jobs \in [JobIds -> JobRow]
  /\ Live(jobs, t) = {}
  /\ SameElsewhere(job, jobs, t)
  /\ \A j \in JobIds : jobs[j] = job[j] \/ jobs[j].state \notin LiveState
  /\ \A j \in JobIds : job[j].state = "ABSENT" => jobs[j] = job[j]

LEMMA QueueMove ==
  ASSUME IndInv, NEW t \in Tasks, NEW after \in EngineeringState, StateOK(after),
         NEW k \in Nat, Room(t, k), SetState(t, after, k),
         after.stage \in Delivering => validated'[t] = after.req,
         \A u \in Tasks \ {t} : validated'[u] = validated[u],
         NEW jobs, Cleared(jobs, t),
         job' = EnqueuePhase(jobs, t, after, task[t].version + k)
  PROVE  Core'
<1>1. TypeOK
  BY DEF IndInv
<1>2. Absent # {} /\ task[t].version + k \in 0..MaxVersion
  BY <1>1, RoomOK
<1>3. /\ task' \in [Tasks -> TaskRow]
      /\ task'[t].state = after
      /\ task'[t].version = task[t].version + k
      /\ \A u \in Tasks \ {t} : task'[u] = task[u]
  BY <1>1, <1>2, SetStateRow
<1>4. /\ job' \in [JobIds -> JobRow]
      /\ JobsOK(task'[t], t, job')
      /\ SameElsewhere(job, job', t)
      /\ \A j \in JobIds : job'[j].state \in LiveState => job'[j].task \in Tasks
  BY <1>2, <1>3, RequeueOK DEF Cleared
<1>5. RowsOK'
  BY <1>3, <1>4, MoveOK
<1> QED BY <1>3, <1>4, <1>5 DEF Core, LiveHaveTask

LEMMA QueueGoodMove ==
  ASSUME IndInv, NEW t \in Tasks, NEW after, GoodMove(task[t].state, after),
         NEW k \in Nat, Room(t, k), SetState(t, after, k), validated' = validated,
         NEW jobs, Cleared(jobs, t),
         job' = EnqueuePhase(jobs, t, after, task[t].version + k)
  PROVE  Core'
<1>1. after.stage \in Delivering => validated'[t] = after.req
  BY DEF GoodMove, IndInv, RowsOK
<1> QED BY <1>1, QueueMove DEF GoodMove

(* A step that blocks a task, or moves one without jobs to a state without   *)
(* a phase, leaves the jobs alone.                                          *)
LEMMA QuietMove ==
  ASSUME IndInv, NEW t \in Tasks, NEW after, GoodMove(task[t].state, after),
         NEW k \in Nat, Room(t, k), SetState(t, after, k), validated' = validated,
         job' = job,
         \/ after.status = "WAITING_HUMAN"
         \/ Live(job, t) = {} /\ after.status \notin Runnable
  PROVE  Core'
<1>1. TypeOK
  BY DEF IndInv
<1>2. task[t].version + k \in 0..MaxVersion
  BY <1>1, RoomOK
<1>3. /\ task' \in [Tasks -> TaskRow]
      /\ task'[t].state = after
      /\ task'[t].version = task[t].version + k
      /\ \A u \in Tasks \ {t} : task'[u] = task[u]
  BY <1>1, <1>2, SetStateRow DEF GoodMove
<1>4. "WAITING_HUMAN" \notin Stopped /\ "WAITING_HUMAN" \notin Runnable
  BY DEF Stopped, Terminal, Runnable
<1>5. JobsOK(task'[t], t, job)
  BY <1>3, <1>4 DEF IndInv, RowsOK, JobsOK
<1>6. after.stage \in Delivering => validated'[t] = after.req
  BY DEF GoodMove, IndInv, RowsOK
<1>7. SameElsewhere(job, job', t)
  BY DEF SameElsewhere
<1>8. RowsOK'
  BY <1>3, <1>5, <1>6, <1>7, MoveOK DEF GoodMove
<1> QED BY <1>1, <1>3, <1>8 DEF Core, LiveHaveTask, IndInv, TypeOK

(* Steps that close the rows of the task, or find none live, clear them.     *)
LEMMA ClearedOK ==
  ASSUME IndInv, NEW t \in Tasks
  PROVE  /\ Cleared(CancelJobs(job, t), t)
         /\ BusyWith(job, t) = {} => Cleared(CancelQueued(job, t), t)
         /\ Live(job, t) = {} => Cleared(job, t)
<1>1. TypeOK
  BY DEF IndInv
<1>2. Cleared(CancelJobs(job, t), t)
  BY <1>1, CancelJobsOK DEF Cleared
<1>3. BusyWith(job, t) = {} => Cleared(CancelQueued(job, t), t)
  BY <1>1, <1>2, CancelQueuedOK
<1>4. Live(job, t) = {} => Cleared(job, t)
  BY <1>1 DEF Cleared, TypeOK, SameElsewhere
<1> QED BY <1>2, <1>3, <1>4

LEMMA StoppedOK ==
  ASSUME IndInv, NEW t \in Tasks, task[t].state.status \in Stopped
  PROVE  Live(job, t) = {}
BY DEF IndInv, RowsOK, JobsOK

LEMMA TaskOK ==
  ASSUME IndInv, NEW t \in Tasks
  PROVE  /\ task[t].state \in EngineeringState
         /\ StateOK(task[t].state)
         /\ task[t].version \in 0..MaxVersion
         /\ task[t].enrolled \in BOOLEAN
BY DEF IndInv, TypeOK, TaskRow, RowsOK

LEMMA CoreEnough ==
  ASSUME IndInv, Core', UNCHANGED <<open, runner, validated>>,
         interpreting' \in SUBSET Tasks
  PROVE  IndInv'
BY DEF IndInv, TypeOK, Core, RunnersOK

(* Names of actions and reasons that the handlers pass to transition().     *)
LEMMA Names ==
  /\ {"PAUSE", "CANCEL", "TAKEOVER", "RESUME", "RELEASE_TAKEOVER", "REVISE_REQUIREMENT",
      "BLOCK"} \subseteq Action \ {"VALIDATION_PASSED"}
  /\ StepAction \subseteq Action
  /\ {"NONE", "MISSING_CONFIGURATION", "MISSING_REQUIREMENT", "MERGE_CONFLICT"}
       \subseteq WaitReason
BY DEF Action, StepAction, WaitReason

(* BLOCK is permitted wherever a handler uses it.                           *)
LEMMA BlockMove ==
  ASSUME NEW s \in EngineeringState, StateOK(s), NEW reason \in WaitReason \ {"NONE"},
         s.status \notin Terminal \cup {"PAUSED"}
  PROVE  /\ GoodMove(s, Transition(s, "BLOCK", reason, FALSE))
         /\ Transition(s, "BLOCK", reason, FALSE).status = "WAITING_HUMAN"
<1>1. ~ s.takeover
  BY DEF StateOK, Consistent
<1>2. Permits(s, "BLOCK", reason)
  BY <1>1 DEF Permits
<1>3. "BLOCK" \in Action /\ "BLOCK" # "VALIDATION_PASSED"
  BY Names
<1>4. GoodMove(s, Transition(s, "BLOCK", reason, FALSE))
  BY <1>2, <1>3, OtherTransitionOK
<1>5. Transition(s, "BLOCK", reason, FALSE).status = "WAITING_HUMAN"
  BY DEF Transition, StepAction, EngineeringState
<1> QED BY <1>4, <1>5

LEMMA EnrollInv ==
  ASSUME IndInv, NEW t \in Tasks, Enroll(t)
  PROVE  IndInv'
<1> DEFINE s == [task[t].state EXCEPT !.status = "NEW", !.stage = "INTAKE", !.wait = "NONE"]
           q == CancelQueued(job, t)
<1>1. /\ task[t].state \in EngineeringState /\ StateOK(task[t].state)
      /\ task[t].version \in 0..MaxVersion /\ TypeOK
  BY TaskOK DEF IndInv
<1>2. /\ BusyWith(job, t) = {} /\ ~ task[t].state.takeover /\ Room(t, 1)
      /\ task' = [task EXCEPT ![t].state = s, ![t].version = @ + 1, ![t].enrolled = TRUE]
      /\ job' = EnqueuePhase(q, t, s, task[t].version + 1)
      /\ UNCHANGED <<open, runner, interpreting, validated>>
  BY DEF Enroll, Enrollable
<1>3. s \in EngineeringState
  BY <1>1 DEF EngineeringState, TaskStatus, Stage, WaitReason
<1>4. s.status = "NEW" /\ s.stage = "INTAKE" /\ s.wait = "NONE"
      /\ s.takeover = task[t].state.takeover /\ s.req = task[t].state.req
  BY <1>1 DEF EngineeringState
<1>5. StateOK(s)
  BY <1>1, <1>2, <1>4 DEF StateOK, Consistent, PhaseStage
<1>6. Absent # {} /\ task[t].version + 1 \in 0..MaxVersion
  BY <1>1, <1>2, RoomOK
<1>7. /\ task' \in [Tasks -> TaskRow]
      /\ task'[t].state = s
      /\ task'[t].version = task[t].version + 1
      /\ \A u \in Tasks \ {t} : task'[u] = task[u]
  BY <1>1, <1>2, <1>3, <1>6 DEF TypeOK, TaskRow
<1>8. Cleared(q, t)
  BY <1>2, ClearedOK
<1>9. /\ job' \in [JobIds -> JobRow]
      /\ JobsOK(task'[t], t, job')
      /\ SameElsewhere(job, job', t)
      /\ \A j \in JobIds : job'[j].state \in LiveState => job'[j].task \in Tasks
  <2> DEFINE v == task[t].version + 1
  <2>1. job' = EnqueuePhase(q, t, s, v) /\ v \in 0..MaxVersion
    BY <1>2, <1>6
  <2>2. task'[t].state = s /\ task'[t].version = v
    BY <1>7
  <2> HIDE DEF s, q, v
  <2> QED BY <1>3, <1>5, <1>6, <1>8, <2>1, <2>2, RequeueOK DEF Cleared
<1>10. RowsOK'
  <2>1. task'[t].state.stage \notin Delivering
    BY <1>4, <1>7 DEF Delivering
  <2>2. validated' = validated
    BY <1>2
  <2>3. StateOK(task'[t].state)
    BY <1>5, <1>7
  <2> QED BY <1>7, <1>9, <2>1, <2>2, <2>3, MoveOK
<1>11. Core'
  BY <1>7, <1>9, <1>10 DEF Core, LiveHaveTask
<1> QED BY <1>1, <1>2, <1>11, CoreEnough DEF TypeOK

LEMMA RefuseEnrollmentInv ==
  ASSUME IndInv, NEW t \in Tasks, RefuseEnrollment(t)
  PROVE  IndInv'
<1> DEFINE s == Transition(task[t].state, "BLOCK", "MISSING_CONFIGURATION", FALSE)
<1>1. task[t].state \in EngineeringState /\ StateOK(task[t].state)
  BY TaskOK
<1>2. task[t].state.status \notin Terminal \cup {"PAUSED"}
  BY DEF RefuseEnrollment, Terminal
<1>3. GoodMove(task[t].state, s) /\ s.status = "WAITING_HUMAN"
  BY <1>1, <1>2, BlockMove, Names
<1>4. Room(t, 1) /\ SetState(t, s, 1) /\ UNCHANGED <<job, open, runner, interpreting, validated>>
  BY DEF RefuseEnrollment
<1> HIDE DEF s
<1>5. Core'
  BY <1>3, <1>4, QuietMove
<1> QED BY <1>4, <1>5, CoreEnough DEF IndInv, TypeOK

LEMMA OutcomesOK ==
  ASSUME NEW s \in EngineeringState, StateOK(s), NEW out \in FeedbackOutcomes(s)
  PROVE  GoodMove(s, out.state) /\ out.steps \in Nat
<1>1. CASE out = Unfed(s)
  BY <1>1 DEF Unfed, GoodMove
<1>2. CASE FeedbackApplies(s) /\ out = Fed(s)
  <2>1. out.steps = 1
    BY <1>2 DEF Fed
  <2> QED BY <1>2, <2>1, FeedbackOK
<1>3. CASE FeedbackApplies(s) /\ out = Oversized(s)
  <2>1. out.steps = 1
    BY <1>3 DEF Oversized
  <2> QED BY <1>3, <2>1, FeedbackOK
<1> QED BY <1>1, <1>2, <1>3 DEF FeedbackOutcomes

LEMMA ControlTaskInv ==
  ASSUME IndInv, NEW t \in Tasks,
         NEW a \in {"PAUSE", "CANCEL", "TAKEOVER", "RESUME", "RELEASE_TAKEOVER"},
         ControlTask(t, a)
  PROVE  IndInv'
<1> DEFINE before  == task[t].state
           moved   == Transition(before, a, "NONE", FALSE)
<1>1. before \in EngineeringState /\ StateOK(before)
  BY TaskOK
<1>2. Permits(before, a, "NONE")
  BY DEF ControlTask
<1>3. GoodMove(before, moved)
  BY <1>1, <1>2, OtherTransitionOK, Names
<1>4. PICK out \in FeedbackOutcomes(moved) :
         /\ Room(t, 1 + out.steps)
         /\ SetState(t, out.state, 1 + out.steps)
         /\ job' = EnqueuePhase(CancelJobs(job, t), t, out.state,
                                task[t].version + 1 + out.steps)
  BY DEF ControlTask, FeedbackOutcomes
<1>5. UNCHANGED <<open, runner, interpreting, validated>>
  BY DEF ControlTask
<1> HIDE DEF before, moved
<1>6. GoodMove(moved, out.state) /\ out.steps \in Nat
  BY <1>3, OutcomesOK DEF GoodMove
<1> DEFINE k == 1 + out.steps
<1>7. k \in Nat /\ Room(t, k) /\ SetState(t, out.state, k)
  BY <1>4, <1>6
<1>8. job' = EnqueuePhase(CancelJobs(job, t), t, out.state, task[t].version + k)
  <2>1. task[t].version + 1 + out.steps = task[t].version + k
    BY <1>6, TaskOK
  <2> QED BY <1>4, <2>1
<1> HIDE DEF k
<1>9. GoodMove(task[t].state, out.state)
  BY <1>3, <1>6, GoodMoves DEF before
<1>10. Core'
  BY <1>5, <1>7, <1>8, <1>9, QueueGoodMove, ClearedOK
<1> QED BY <1>5, <1>10, CoreEnough DEF IndInv, TypeOK

(* Queueing the phase of a task that has a live job changes nothing.         *)
LEMMA ResumeNewInv ==
  ASSUME IndInv, NEW t \in Tasks, ResumeNew(t)
  PROVE  IndInv'
<1> DEFINE s == task[t].state
<1>1. s \in EngineeringState /\ StateOK(s) /\ task[t].version \in 0..MaxVersion
  BY TaskOK
<1>2. job' = EnqueuePhase(job, t, s, task[t].version)
      /\ UNCHANGED <<task, open, runner, interpreting, validated>> /\ Absent # {}
  BY DEF ResumeNew, Room
<1>3. CASE Live(job, t) # {}
  <2>1. job' = job
    BY <1>2, <1>3 DEF EnqueuePhase
  <2> QED BY <1>2, <2>1 DEF IndInv, TypeOK, LiveHaveTask, RunnersOK, RowsOK
<1>4. CASE Live(job, t) = {}
  <2>1. Cleared(job, t)
    BY <1>4, ClearedOK
  <2>2. /\ job' \in [JobIds -> JobRow]
        /\ JobsOK(task[t], t, job')
        /\ SameElsewhere(job, job', t)
        /\ \A j \in JobIds : job'[j].state \in LiveState => job'[j].task \in Tasks
    BY <1>1, <1>2, <2>1, RequeueOK DEF Cleared
  <2>3. task' = task /\ validated' = validated
    BY <1>2
  <2>4. task[t].state.stage \in Delivering => validated[t] = task[t].state.req
    BY DEF IndInv, RowsOK
  <2>5. task \in [Tasks -> TaskRow]
    BY DEF IndInv, TypeOK
  <2>6. RowsOK'
    BY <1>1, <2>2, <2>3, <2>4, <2>5, MoveOK
  <2>7. Core'
    BY <2>2, <2>3, <2>5, <2>6 DEF Core, LiveHaveTask
  <2> QED BY <1>2, <2>7, CoreEnough DEF IndInv, TypeOK
<1> QED BY <1>3, <1>4

LEMMA ArchiveInv ==
  ASSUME IndInv, NEW t \in Tasks, Archive(t)
  PROVE  IndInv'
<1>1. /\ task' \in [Tasks -> TaskRow]
      /\ \A u \in Tasks : /\ task'[u].state = task[u].state
                          /\ task'[u].version = task[u].version
                          /\ task'[u].enrolled = task[u].enrolled
  BY DEF Archive, IndInv, TypeOK, TaskRow
<1>2. UNCHANGED <<job, open, runner, interpreting, validated>>
  BY DEF Archive
<1>3. RowsOK'
  BY <1>1, <1>2 DEF IndInv, RowsOK, JobsOK
<1> QED BY <1>1, <1>2, <1>3 DEF IndInv, TypeOK, LiveHaveTask, RunnersOK

LEMMA ReviseRequirementInv ==
  ASSUME IndInv, NEW t \in Tasks, ReviseRequirement(t)
  PROVE  IndInv'
<1> DEFINE s      == task[t].state
           paused == PauseState(s, s.takeover)
           after  == ReviseState(paused)
<1>1. s \in EngineeringState /\ StateOK(s)
  BY TaskOK
<1>2. s.status \notin Terminal /\ Room(t, 2) /\ SetState(t, after, 2)
      /\ job' = CancelJobs(job, t) /\ UNCHANGED <<open, runner, interpreting, validated>>
  BY DEF ReviseRequirement
<1>3. GoodMove(s, paused) /\ paused.status = "PAUSED"
  <2>1. Permits(s, "PAUSE", "NONE")
    BY <1>2 DEF Permits
  <2>2. paused = Transition(s, "PAUSE", "NONE", FALSE)
    BY DEF Transition, StepAction
  <2>3. paused.status = "PAUSED"
    BY <1>1 DEF PauseState, EngineeringState
  <2> QED BY <1>1, <2>1, <2>2, <2>3, OtherTransitionOK, Names
<1> HIDE DEF paused
<1>4. GoodMove(paused, after) /\ after.status = "PAUSED"
  <2>1. Permits(paused, "REVISE_REQUIREMENT", "NONE")
    BY <1>3 DEF Permits, Terminal
  <2>2. after = Transition(paused, "REVISE_REQUIREMENT", "NONE", FALSE)
    BY DEF Transition, StepAction
  <2>3. after.status = "PAUSED"
    BY <1>3 DEF GoodMove, ReviseState, EngineeringState
  <2>4. paused \in EngineeringState /\ StateOK(paused)
    BY <1>3 DEF GoodMove
  <2> HIDE DEF after
  <2> QED BY <2>1, <2>2, <2>3, <2>4, OtherTransitionOK, Names
<1> HIDE DEF after
<1>5. GoodMove(task[t].state, after)
  BY <1>3, <1>4, GoodMoves
<1>6. job' = EnqueuePhase(CancelJobs(job, t), t, after, task[t].version + 2)
  BY <1>2, <1>4 DEF EnqueuePhase, Runnable
<1>7. Core'
  BY <1>2, <1>5, <1>6, QueueGoodMove, ClearedOK
<1> QED BY <1>2, <1>7, CoreEnough DEF IndInv, TypeOK

LEMMA ReviseWhilePausedInv ==
  ASSUME IndInv, NEW t \in Tasks, ReviseWhilePaused(t)
  PROVE  IndInv'
<1> DEFINE s     == task[t].state
           after == ReviseState(s)
<1>1. s \in EngineeringState /\ StateOK(s)
  BY TaskOK
<1>2. s.status = "PAUSED" /\ Room(t, 1) /\ SetState(t, after, 1)
      /\ UNCHANGED <<job, open, runner, interpreting, validated>>
  BY DEF ReviseWhilePaused
<1>3. GoodMove(s, after)
  <2>1. Permits(s, "REVISE_REQUIREMENT", "NONE")
    BY <1>2 DEF Permits, Terminal
  <2>2. after = Transition(s, "REVISE_REQUIREMENT", "NONE", FALSE)
    BY DEF Transition, StepAction
  <2> HIDE DEF after
  <2> QED BY <1>1, <2>1, <2>2, OtherTransitionOK, Names
<1>4. after.status \notin Runnable
  BY <1>1, <1>2 DEF ReviseState, EngineeringState, Runnable
<1>5. Live(job, t) = {}
  BY <1>2, StoppedOK DEF Stopped
<1> HIDE DEF after
<1>6. Core'
  BY <1>2, <1>3, <1>4, <1>5, QuietMove
<1> QED BY <1>2, <1>6, CoreEnough DEF IndInv, TypeOK

LEMMA ChangeSessionInv ==
  ASSUME IndInv, NEW t \in Tasks, ChangeSession(t)
  PROVE  IndInv'
<1> DEFINE s == task[t].state
<1>1. s \in EngineeringState /\ StateOK(s)
  BY TaskOK
<1>2. s.status \in {"PAUSED", "WAITING_HUMAN"} /\ Room(t, 1) /\ SetState(t, s, 1)
      /\ UNCHANGED <<job, open, runner, interpreting, validated>>
  BY DEF ChangeSession
<1>3. GoodMove(s, s)
  BY <1>1 DEF GoodMove
<1>4. s.status = "WAITING_HUMAN" \/ (Live(job, t) = {} /\ s.status \notin Runnable)
  BY <1>2, StoppedOK DEF Stopped, Runnable
<1> HIDE DEF s
<1>5. Core'
  BY <1>2, <1>3, <1>4, QuietMove DEF s
<1> QED BY <1>2, <1>5, CoreEnough DEF IndInv, TypeOK

LEMMA RequestValidationInv ==
  ASSUME IndInv, NEW t \in Tasks, RequestValidation(t)
  PROVE  IndInv'
<1> DEFINE s     == task[t].state
           moves == s.stage # "VALIDATING"
           after == IF moves THEN Transition(s, "VALIDATE_CANDIDATE", "NONE", FALSE) ELSE s
           k     == IF moves THEN 1 ELSE 0
<1>1. s \in EngineeringState /\ StateOK(s)
  BY TaskOK
<1>2. /\ s.status = "ACTIVE" /\ s.stage \in {"DEVELOPING", "FIXING", "VALIDATING"}
      /\ BusyWith(job, t) = {} /\ Room(t, k) /\ SetState(t, after, k)
      /\ job' = EnqueuePhase(CancelQueued(job, t), t, after, task[t].version + k)
      /\ UNCHANGED <<open, runner, interpreting, validated>>
  BY DEF RequestValidation
<1>3. GoodMove(s, after)
  <2>1. CASE moves
    <3>1. ~ s.takeover
      BY <1>1, <1>2 DEF StateOK, Consistent
    <3>2. Permits(s, "VALIDATE_CANDIDATE", "NONE")
      BY <1>2, <2>1, <3>1 DEF Permits, Terminal, StepAction, StepFrom
    <3>3. "VALIDATE_CANDIDATE" \in Action /\ "VALIDATE_CANDIDATE" # "VALIDATION_PASSED"
          /\ "NONE" \in WaitReason
      BY DEF Action, StepAction, WaitReason
    <3>4. after = Transition(s, "VALIDATE_CANDIDATE", "NONE", FALSE)
      BY <2>1
    <3> HIDE DEF after
    <3> QED BY <1>1, <3>2, <3>3, <3>4, OtherTransitionOK
  <2>2. CASE ~ moves
    BY <1>1, <2>2 DEF GoodMove
  <2> QED BY <2>1, <2>2
<1>4. k \in Nat
  OBVIOUS
<1>5. Cleared(CancelQueued(job, t), t)
  BY <1>2, ClearedOK
<1> HIDE DEF after, k
<1>6. Core'
  BY <1>2, <1>3, <1>4, <1>5, QueueGoodMove
<1> QED BY <1>2, <1>6, CoreEnough DEF IndInv, TypeOK

LEMMA ReviewFeedbackInv ==
  ASSUME IndInv, NEW t \in Tasks, ReviewFeedback(t)
  PROVE  IndInv'
<1> DEFINE s == task[t].state
<1>1. s \in EngineeringState /\ StateOK(s)
  BY TaskOK
<1>2. PICK out \in {Fed(s), Oversized(s)} :
        /\ Room(t, 1)
        /\ SetState(t, out.state, 1)
        /\ job' = EnqueuePhase(job, t, out.state, task[t].version + 1)
  BY DEF ReviewFeedback
<1>3. FeedbackApplies(s) /\ UNCHANGED <<open, runner, interpreting, validated>>
  BY DEF ReviewFeedback
<1>4. GoodMove(s, out.state)
  BY <1>1, <1>3, FeedbackOK
<1>5. s.status \in Stopped
  BY <1>1, <1>3 DEF FeedbackApplies, StateOK, EngineeringState, TaskStatus, Terminal,
                    Runnable, PhaseStage, Stopped
<1>6. Cleared(job, t)
  BY <1>5, StoppedOK, ClearedOK
<1>7. Core'
  BY <1>2, <1>3, <1>4, <1>6, QueueGoodMove
<1> QED BY <1>3, <1>7, CoreEnough DEF IndInv, TypeOK

LEMMA HeadChangedInv ==
  ASSUME IndInv, NEW t \in Tasks, HeadChanged(t)
  PROVE  IndInv'
<1> DEFINE s == Transition(task[t].state, "BLOCK", "MERGE_CONFLICT", FALSE)
<1>1. task[t].state \in EngineeringState /\ StateOK(task[t].state)
  BY TaskOK
<1>2. task[t].state.status \notin Terminal \cup {"PAUSED"}
  BY DEF HeadChanged, AwaitsReview, Terminal
<1>3. GoodMove(task[t].state, s) /\ s.status = "WAITING_HUMAN"
  BY <1>1, <1>2, BlockMove, Names
<1>4. Room(t, 1) /\ SetState(t, s, 1) /\ UNCHANGED <<job, open, runner, interpreting, validated>>
  BY DEF HeadChanged
<1> HIDE DEF s
<1>5. Core'
  BY <1>3, <1>4, QuietMove
<1> QED BY <1>4, <1>5, CoreEnough DEF IndInv, TypeOK

(* MERGE_AUTHORIZED is permitted exactly while the task awaits review.       *)
LEMMA AuthorizeMove ==
  ASSUME IndInv, NEW t \in Tasks, AwaitsReview(t)
  PROVE  LET after == Transition(task[t].state, "MERGE_AUTHORIZED", "NONE", FALSE)
         IN  /\ GoodMove(task[t].state, after)
             /\ after.status = "ACTIVE" /\ after.stage = "MERGING" /\ ~ after.takeover
             /\ Live(job, t) = {}
<1> DEFINE s     == task[t].state
           after == Transition(s, "MERGE_AUTHORIZED", "NONE", FALSE)
<1>1. s \in EngineeringState /\ StateOK(s)
  BY TaskOK
<1>2. s.stage = "REVIEWING" /\ s.status = "WAITING_EXTERNAL" /\ ~ s.takeover
  BY DEF AwaitsReview
<1>3. Permits(s, "MERGE_AUTHORIZED", "NONE")
  BY <1>2 DEF Permits, Terminal, StepAction, StepFrom
<1>4. "MERGE_AUTHORIZED" \in Action /\ "MERGE_AUTHORIZED" # "VALIDATION_PASSED"
      /\ "NONE" \in WaitReason
  BY DEF Action, StepAction, WaitReason
<1>5. GoodMove(s, after)
  BY <1>1, <1>3, <1>4, OtherTransitionOK
<1>6. after = StepState(s, "MERGE_AUTHORIZED")
  BY DEF Transition, StepAction
<1>7. StepTo("MERGE_AUTHORIZED") = "MERGING"
  BY DEF StepTo
<1>8. after.status = "ACTIVE" /\ after.stage = "MERGING" /\ ~ after.takeover
  BY <1>1, <1>2, <1>6, <1>7 DEF StepState, EngineeringState
<1>9. Live(job, t) = {}
  BY <1>2, StoppedOK DEF Stopped
<1> QED BY <1>5, <1>8, <1>9

LEMMA MergedExternallyInv ==
  ASSUME IndInv, NEW t \in Tasks, MergedExternally(t)
  PROVE  IndInv'
<1> DEFINE authorized == Transition(task[t].state, "MERGE_AUTHORIZED", "NONE", FALSE)
           merged     == Transition(authorized, "MERGED", "NONE", FALSE)
<1>1. AwaitsReview(t) /\ Room(t, 2) /\ SetState(t, merged, 2)
      /\ UNCHANGED <<job, open, runner, interpreting, validated>>
  BY DEF MergedExternally
<1>2. /\ GoodMove(task[t].state, authorized)
      /\ authorized.status = "ACTIVE" /\ authorized.stage = "MERGING" /\ ~ authorized.takeover
      /\ Live(job, t) = {}
  BY <1>1, AuthorizeMove
<1>3. authorized \in EngineeringState /\ StateOK(authorized)
  BY <1>2 DEF GoodMove
<1> HIDE DEF authorized
<1>4. Permits(authorized, "MERGED", "NONE")
  BY <1>2 DEF Permits, Terminal, StepAction, StepFrom
<1>5. "MERGED" \in Action /\ "MERGED" # "VALIDATION_PASSED" /\ "NONE" \in WaitReason
  BY DEF Action, StepAction, WaitReason
<1>6. GoodMove(authorized, merged)
  BY <1>3, <1>4, <1>5, OtherTransitionOK
<1>7. merged = StepState(authorized, "MERGED")
  BY DEF Transition, StepAction
<1>8. merged.status \notin Runnable
  BY <1>3, <1>7 DEF StepState, EngineeringState, Runnable
<1> HIDE DEF merged
<1>9. Core'
  BY <1>1, <1>2, <1>6, <1>8, GoodMoves, QuietMove
<1> QED BY <1>1, <1>9, CoreEnough DEF IndInv, TypeOK

LEMMA AuthorizeMergeInv ==
  ASSUME IndInv, NEW t \in Tasks, AuthorizeMerge(t)
  PROVE  IndInv'
<1> DEFINE s == Transition(task[t].state, "MERGE_AUTHORIZED", "NONE", FALSE)
<1>1. AwaitsReview(t) /\ Room(t, 1) /\ SetState(t, s, 1)
      /\ job' = EnqueuePhase(job, t, s, task[t].version + 1)
      /\ UNCHANGED <<open, runner, interpreting, validated>>
  BY DEF AuthorizeMerge
<1>2. GoodMove(task[t].state, s) /\ Live(job, t) = {}
  BY <1>1, AuthorizeMove
<1>3. Cleared(job, t)
  BY <1>2, ClearedOK
<1> HIDE DEF s
<1>4. Core'
  BY <1>1, <1>2, <1>3, QueueGoodMove
<1> QED BY <1>1, <1>4, CoreEnough DEF IndInv, TypeOK

LEMMA FeedbackVerdictInv ==
  ASSUME IndInv, NEW t \in Tasks, ApplyFeedbackVerdict(t)
  PROVE  IndInv'
<1> DEFINE s == task[t].state
<1>1. s \in EngineeringState /\ StateOK(s)
  BY TaskOK
<1>2. UNCHANGED <<open, runner, validated>> /\ interpreting' \in SUBSET Tasks
  BY DEF ApplyFeedbackVerdict, IndInv, TypeOK
<1>3. PICK out \in FeedbackOutcomes(s) :
         /\ Room(t, out.steps)
         /\ SetState(t, out.state, out.steps)
         /\ job' = IF out.steps = 0 THEN job
                   ELSE EnqueuePhase(job, t, out.state, task[t].version + 1)
  BY DEF ApplyFeedbackVerdict
<1>4. CASE out = Unfed(s)
  <2>1. out.state = s /\ out.steps = 0
    BY <1>4 DEF Unfed
  <2>2. Room(t, 0) /\ SetState(t, s, 0) /\ job' = job
    BY <1>3, <2>1
  <2>3. TypeOK
    BY DEF IndInv
  <2>4. task[t].version + 0 \in 0..MaxVersion
    BY TaskOK
  <2>5. /\ task' \in [Tasks -> TaskRow]
        /\ task'[t].state = s
        /\ task'[t].version = task[t].version + 0
        /\ task'[t].enrolled = task[t].enrolled
        /\ \A u \in Tasks \ {t} : task'[u] = task[u]
    BY <1>1, <2>2, <2>3, <2>4, SetStateRow
  <2>6. task'[t].version = task[t].version
    BY <2>5, TaskOK
  <2>7. JobsOK(task'[t], t, job')
    BY <2>2, <2>5, <2>6 DEF IndInv, RowsOK, JobsOK
  <2>8. SameElsewhere(job, job', t)
    BY <2>2 DEF SameElsewhere
  <2>9. s.stage \in Delivering => validated'[t] = s.req
    BY <1>2 DEF IndInv, RowsOK
  <2>10. RowsOK'
    <3>1. validated' = validated /\ StateOK(task'[t].state)
          /\ (task'[t].state.stage \in Delivering => validated'[t] = task'[t].state.req)
      BY <1>1, <1>2, <2>5, <2>9
    <3> HIDE DEF s
    <3> QED BY <2>5, <2>7, <2>8, <3>1, MoveOK
  <2>11. Core'
    BY <2>2, <2>5, <2>10 DEF Core, LiveHaveTask, IndInv, TypeOK
  <2> QED BY <1>2, <2>11, CoreEnough
<1>5. CASE FeedbackApplies(s) /\ out \in {Fed(s), Oversized(s)}
  <2>1. GoodMove(s, out.state)
    BY <1>1, <1>5, FeedbackOK
  <2>2. out.steps = 1
    <3>1. Fed(s).steps = 1 /\ Oversized(s).steps = 1
      BY DEF Fed, Oversized
    <3> QED BY <1>5, <3>1
  <2>3. Room(t, 1) /\ SetState(t, out.state, 1)
        /\ job' = EnqueuePhase(job, t, out.state, task[t].version + 1)
    BY <1>3, <2>2
  <2>4. s.status \in Stopped
    BY <1>1, <1>5 DEF FeedbackApplies, StateOK, EngineeringState, TaskStatus, Terminal,
                      Runnable, PhaseStage, Stopped
  <2>5. Cleared(job, t)
    BY <2>4, StoppedOK, ClearedOK
  <2>6. Core'
    BY <1>2, <2>1, <2>3, <2>5, QueueGoodMove
  <2> QED BY <1>2, <2>6, CoreEnough
<1> QED BY <1>4, <1>5 DEF FeedbackOutcomes

LEMMA UnknownVerdictInv ==
  ASSUME IndInv, NEW t \in Tasks, ApplyUnknownVerdict(t)
  PROVE  IndInv'
<1> DEFINE s == Transition(task[t].state, "BLOCK", "MISSING_REQUIREMENT", FALSE)
<1>1. task[t].state \in EngineeringState /\ StateOK(task[t].state)
  BY TaskOK
<1>2. task[t].state.status \notin Terminal \cup {"PAUSED"}
  BY DEF ApplyUnknownVerdict
<1>3. GoodMove(task[t].state, s) /\ s.status = "WAITING_HUMAN"
  BY <1>1, <1>2, BlockMove, Names
<1>4. Room(t, 1) /\ SetState(t, s, 1) /\ UNCHANGED <<job, open, runner, validated>>
      /\ interpreting' \in SUBSET Tasks
  BY DEF ApplyUnknownVerdict, IndInv, TypeOK
<1> HIDE DEF s
<1>5. Core'
  BY <1>3, <1>4, QuietMove
<1> QED BY <1>4, <1>5, CoreEnough

-----------------------------------------------------------------------------
(* Steps of workers, leases and recovery.                                  *)

(* A step that changes no task and no job row.                              *)
LEMMA QuietInv ==
  ASSUME IndInv, UNCHANGED <<task, job, validated>>, open' \in SUBSET Teams,
         interpreting' \in SUBSET Tasks, runner' \in [Runners -> RunnerState], RunnersOK'
  PROVE  IndInv'
BY DEF IndInv, TypeOK, LiveHaveTask, RowsOK

(* A step that changes the lease of a live row and nothing else of it.       *)
LEMMA LeaseInv ==
  ASSUME IndInv, UNCHANGED <<task, open, interpreting, validated>>,
         NEW j \in JobIds, job[j].state \in LiveState, NEW row \in JobRow,
         row.state \in LiveState, row.task = job[j].task, row.action = job[j].action,
         row.version = job[j].version, job' = [job EXCEPT ![j] = row],
         runner' \in [Runners -> RunnerState], RunnersOK'
  PROVE  IndInv'
<1>1. job' \in [JobIds -> JobRow]
  BY DEF IndInv, TypeOK
<1>2. job'[j] = row /\ \A i \in JobIds \ {j} : job'[i] = job[i]
  BY DEF IndInv, TypeOK
<1>3. \A t \in Tasks : Live(job', t) = Live(job, t)
  BY <1>2 DEF Live
<1>4. \A i \in JobIds : job'[i].version = job[i].version /\ job'[i].action = job[i].action
  BY <1>2
<1>5. RowsOK'
  BY <1>3, <1>4, StillOK
<1>6. LiveHaveTask'
  BY <1>2 DEF IndInv, LiveHaveTask
<1> QED BY <1>1, <1>5, <1>6 DEF IndInv, TypeOK

LEMMA IdleOK == Idle \in RunnerState /\ Idle.pc = "idle"
<1>1. 0 \in 0..MaxVersion
  BY ConstantsAssumption
<1> QED BY <1>1 DEF Idle, RunnerState, PC

(* A worker forgets its lease.                                              *)
LEMMA ForgetOK ==
  ASSUME IndInv, NEW r \in Runners, runner' = [runner EXCEPT ![r] = Idle]
  PROVE  runner' \in [Runners -> RunnerState] /\ RunnersOK'
<1>1. \A q \in Runners : runner'[q] = IF q = r THEN Idle ELSE runner[q]
  BY DEF IndInv, TypeOK
<1>2. runner' \in [Runners -> RunnerState]
  BY IdleOK DEF IndInv, TypeOK
<1>3. RunnersOK'
  BY <1>1, IdleOK DEF IndInv, RunnersOK
<1> QED BY <1>2, <1>3

(* A worker that holds a lease goes on with it.                             *)
LEMMA SetPCOK ==
  ASSUME IndInv, NEW r \in Runners, runner[r].pc # "idle",
         NEW pc \in PC \ {"idle", "finished"}, SetPC(r, pc)
  PROVE  runner' \in [Runners -> RunnerState] /\ RunnersOK'
<1>1. runner \in [Runners -> RunnerState] /\ runner' = [runner EXCEPT ![r].pc = pc]
  BY DEF IndInv, TypeOK, SetPC
<1>2. runner' \in [Runners -> RunnerState]
  BY <1>1 DEF RunnerState
<1>3. /\ runner'[r].pc = pc /\ runner'[r].job = runner[r].job
      /\ runner'[r].task = runner[r].task /\ runner'[r].action = runner[r].action
      /\ \A q \in Runners \ {r} : runner'[q] = runner[q]
  BY <1>1 DEF RunnerState
<1>4. RunnersOK'
  BY <1>3 DEF IndInv, RunnersOK
<1> QED BY <1>2, <1>4

LEMMA ClaimInv ==
  ASSUME IndInv, NEW r \in Runners, NEW j \in JobIds, Claim(r, j)
  PROVE  IndInv'
<1> DEFINE lease == [pc |-> "claimed", job |-> j, task |-> job[j].task,
                     action |-> job[j].action, version |-> job[j].version, req |-> 0,
                     result |-> "NONE"]
           row == [job[j] EXCEPT !.state = "CLAIMED", !.token = r]
<1>1. /\ job[j].state = "QUEUED" /\ job' = [job EXCEPT ![j].state = "CLAIMED", ![j].token = r]
      /\ runner' = [runner EXCEPT ![r] = lease]
      /\ UNCHANGED <<task, open, interpreting, validated>>
  BY DEF Claim, Claimable
<1>2. job \in [JobIds -> JobRow] /\ runner \in [Runners -> RunnerState]
  BY DEF IndInv, TypeOK
<1>3. row \in JobRow /\ row.state = "CLAIMED" /\ row.task = job[j].task
      /\ row.action = job[j].action /\ row.version = job[j].version
  BY <1>2 DEF JobRow, JobState
<1>4. job' = [job EXCEPT ![j] = row]
  BY <1>1, <1>2
<1>5. "QUEUED" \in LiveState /\ "CLAIMED" \in LiveState
  BY DEF LiveState, Executing
<1>6. job[j].task \in Tasks /\ job[j].action \in PhaseAction
  <2> DEFINE t == job[j].task
  <2>1. t \in Tasks /\ j \in Live(job, t) /\ task[t].state.status \in Runnable
    BY <1>1, <1>5 DEF IndInv, LiveHaveTask, Live, Claim, Claimable
  <2>2. StateOK(task[t].state) /\ JobsOK(task[t], t, job)
    BY <2>1 DEF IndInv, RowsOK
  <2>3. task[t].state.stage \in PhaseStage /\ job[j].action = PhaseOf(task[t].state.stage)
    BY <2>1, <2>2 DEF StateOK, JobsOK
  <2> QED BY <2>1, <2>3 DEF PhaseOf, PhaseStage, PhaseAction
<1>7. lease \in RunnerState
  BY <1>2, <1>6 DEF RunnerState, PC, JobRow
<1>8. runner' \in [Runners -> RunnerState]
  BY <1>1, <1>2, <1>7
<1>9. RunnersOK'
  <2>1. \A q \in Runners : runner'[q] = IF q = r THEN lease ELSE runner[q]
    BY <1>1, <1>2
  <2> QED BY <1>6, <2>1 DEF IndInv, RunnersOK
<1> HIDE DEF row
<1> QED BY <1>1, <1>3, <1>4, <1>5, <1>8, <1>9, LeaseInv

(* A renewed lease.                                                        *)
LEMMA RenewInv ==
  ASSUME IndInv, NEW r \in Runners, runner[r].pc # "idle", HeartbeatOk(r), Renew(r),
         NEW pc \in PC \ {"idle", "finished"}, SetPC(r, pc),
         UNCHANGED <<task, open, interpreting, validated>>
  PROVE  IndInv'
<1> DEFINE j   == runner[r].job
           row == [job[j] EXCEPT !.state = "RUNNING"]
<1>1. j \in JobIds /\ job \in [JobIds -> JobRow]
  BY DEF IndInv, RunnersOK, TypeOK
<1>2. job[j].state \in LiveState /\ "RUNNING" \in LiveState
  BY DEF HeartbeatOk, Locked, LiveState, Executing
<1>3. row \in JobRow /\ row.state = "RUNNING" /\ row.task = job[j].task
      /\ row.action = job[j].action /\ row.version = job[j].version
  BY <1>1 DEF JobRow, JobState
<1>4. job' = [job EXCEPT ![j] = row]
  BY <1>1 DEF Renew
<1>5. runner' \in [Runners -> RunnerState] /\ RunnersOK'
  BY SetPCOK
<1> HIDE DEF row, j
<1> QED BY <1>1, <1>2, <1>3, <1>4, <1>5, LeaseInv

LEMMA FirstHeartbeatInv ==
  ASSUME IndInv, NEW r \in Runners, FirstHeartbeat(r)
  PROVE  IndInv'
<1>1. runner[r].pc # "idle" /\ UNCHANGED <<task, open, interpreting, validated>>
  BY DEF FirstHeartbeat
<1>2. {"leased", "stale"} \subseteq PC \ {"idle", "finished"}
  BY DEF PC
<1>3. CASE HeartbeatOk(r) /\ Renew(r) /\ SetPC(r, "leased")
  BY <1>1, <1>2, <1>3, RenewInv
<1>4. CASE UNCHANGED job /\ SetPC(r, "stale")
  <2>1. runner' \in [Runners -> RunnerState] /\ RunnersOK'
    BY <1>1, <1>2, <1>4, SetPCOK
  <2> QED BY <1>1, <1>4, <2>1, QuietInv DEF IndInv, TypeOK
<1> QED BY <1>3, <1>4 DEF FirstHeartbeat

LEMMA StartExecutionInv ==
  ASSUME IndInv, NEW r \in Runners, StartExecution(r)
  PROVE  IndInv'
<1>1. runner[r].pc # "idle" /\ UNCHANGED <<task, open, interpreting, validated>>
  BY DEF StartExecution
<1>2. "starting" \in PC \ {"idle", "finished"}
  BY DEF PC
<1>3. CASE HeartbeatOk(r) /\ Renew(r) /\ SetPC(r, "starting")
  BY <1>1, <1>2, <1>3, RenewInv
<1>4. CASE UNCHANGED job /\ runner' = [runner EXCEPT ![r] = Idle]
  <2>1. runner' \in [Runners -> RunnerState] /\ RunnersOK'
    BY <1>4, ForgetOK
  <2> QED BY <1>1, <1>4, <2>1, QuietInv DEF IndInv, TypeOK
<1> QED BY <1>3, <1>4 DEF StartExecution

LEMMA LoadContextInv ==
  ASSUME IndInv, NEW r \in Runners, LoadContext(r)
  PROVE  IndInv'
<1> DEFINE owner == task[runner[r].task]
<1>1. /\ runner[r].pc = "starting" /\ UNCHANGED <<task, job, open, interpreting, validated>>
      /\ \/ runner' = [runner EXCEPT ![r].pc = "working", ![r].req = owner.state.req]
         \/ runner' = [runner EXCEPT ![r].pc = "failing"]
  BY DEF LoadContext
<1>2. runner \in [Runners -> RunnerState] /\ runner[r].task \in Tasks
      /\ runner[r].job \in JobIds /\ runner[r].action \in PhaseAction
  BY <1>1 DEF IndInv, TypeOK, RunnersOK
<1>3. owner.state.req \in Nat
  BY <1>2, TaskOK DEF EngineeringState
<1>4. runner' \in [Runners -> RunnerState]
  BY <1>1, <1>2, <1>3 DEF RunnerState, PC
<1>5. /\ runner'[r].pc \in {"working", "failing"} /\ runner'[r].job = runner[r].job
      /\ runner'[r].task = runner[r].task /\ runner'[r].action = runner[r].action
      /\ \A q \in Runners \ {r} : runner'[q] = runner[q]
  BY <1>1, <1>2 DEF RunnerState
<1>6. RunnersOK'
  BY <1>2, <1>5 DEF IndInv, RunnersOK
<1> QED BY <1>1, <1>4, <1>6, QuietInv DEF IndInv, TypeOK

LEMMA FinishPhaseInv ==
  ASSUME IndInv, NEW r \in Runners, FinishPhase(r)
  PROVE  IndInv'
<1>1. PICK a \in PhaseResults(runner[r].action) :
        runner' = [runner EXCEPT ![r].pc = "finished", ![r].result = a]
  BY DEF FinishPhase
<1>2. runner[r].pc = "working" /\ UNCHANGED <<task, job, open, interpreting, validated>>
  BY DEF FinishPhase
<1>3. runner \in [Runners -> RunnerState] /\ runner[r].task \in Tasks
      /\ runner[r].job \in JobIds /\ runner[r].action \in PhaseAction
  BY <1>2 DEF IndInv, TypeOK, RunnersOK
<1>4. a \in StepAction
  BY <1>1, <1>3 DEF PhaseResults, PhaseAction, StepAction
<1>5. a \in Action \cup {"NONE"}
  BY <1>4, Names
<1>6. runner' \in [Runners -> RunnerState]
  <2> DEFINE new == [runner[r] EXCEPT !.pc = "finished", !.result = a]
  <2>1. new \in RunnerState
    <3>1. runner[r] \in RunnerState
      BY <1>3
    <3> QED BY <1>5, <3>1 DEF RunnerState, PC
  <2>2. runner' = [runner EXCEPT ![r] = new]
    BY <1>1, <1>3
  <2> HIDE DEF new
  <2> QED BY <1>3, <2>1, <2>2
<1>7. /\ runner'[r].pc = "finished" /\ runner'[r].job = runner[r].job
      /\ runner'[r].task = runner[r].task /\ runner'[r].action = runner[r].action
      /\ runner'[r].result = a
      /\ \A q \in Runners \ {r} : runner'[q] = runner[q]
  BY <1>1, <1>3 DEF RunnerState
<1>8. RunnersOK'
  BY <1>3, <1>4, <1>7 DEF IndInv, RunnersOK
<1> QED BY <1>2, <1>6, <1>8, QuietInv DEF IndInv, TypeOK

(* A worker whose operation failed, was revoked, or had its result refused.  *)
LEMMA FailingInv ==
  ASSUME IndInv, NEW r \in Runners, Revoked(r) \/ FailPhase(r) \/ RejectResult(r)
  PROVE  IndInv'
<1>1. /\ runner[r].pc # "idle" /\ SetPC(r, "failing")
      /\ UNCHANGED <<task, job, open, interpreting, validated>>
  BY DEF Revoked, FailPhase, RejectResult
<1>2. "failing" \in PC \ {"idle", "finished"}
  BY DEF PC
<1>3. runner' \in [Runners -> RunnerState] /\ RunnersOK'
  BY <1>1, <1>2, SetPCOK
<1> QED BY <1>1, <1>3, QuietInv DEF IndInv, TypeOK

LEMMA ForgettingInv ==
  ASSUME IndInv, NEW r \in Runners, DropResult(r) \/ Crash(r)
  PROVE  IndInv'
<1>1. /\ runner' = [runner EXCEPT ![r] = Idle]
      /\ UNCHANGED <<task, job, open, interpreting, validated>>
  BY DEF DropResult, Crash
<1>2. runner' \in [Runners -> RunnerState] /\ RunnersOK'
  BY <1>1, ForgetOK
<1> QED BY <1>1, <1>2, QuietInv DEF IndInv, TypeOK

LEMMA ExpireInv ==
  ASSUME IndInv, NEW j \in JobIds, Expire(j)
  PROVE  IndInv'
<1> DEFINE row == [job[j] EXCEPT !.expired = TRUE]
<1>1. job \in [JobIds -> JobRow] /\ job[j].state \in LiveState
      /\ job' = [job EXCEPT ![j].expired = TRUE]
      /\ UNCHANGED <<task, open, runner, interpreting, validated>>
  BY DEF IndInv, TypeOK, Expire, LiveState
<1>2. row \in JobRow /\ row.state = job[j].state /\ row.task = job[j].task
      /\ row.action = job[j].action /\ row.version = job[j].version
  BY <1>1 DEF JobRow
<1>3. job' = [job EXCEPT ![j] = row]
  BY <1>1
<1>4. runner' \in [Runners -> RunnerState] /\ RunnersOK'
  BY <1>1 DEF IndInv, TypeOK, RunnersOK
<1> HIDE DEF row
<1> QED BY <1>1, <1>2, <1>3, <1>4, LeaseInv

(* block(): the job closes, and a task that is still runnable blocks with it. *)
LEMMA BlockRowCore ==
  ASSUME IndInv, NEW j \in JobIds, job[j].state \in Executing,
         NEW reason \in WaitReason \ {"NONE"}, BlockRow(j, reason), validated' = validated
  PROVE  Core'
<1> DEFINE t     == job[j].task
           s     == task[t].state
           after == Transition(s, "BLOCK", reason, FALSE)
           q     == [job EXCEPT ![j] = Closed]
           current == task[t].version = job[j].version /\ s.status \in Runnable
<1>1. job[j].state \in LiveState
  BY DEF LiveState
<1>2. t \in Tasks /\ Cleared(q, t)
  BY <1>1, CloseRowOK DEF Cleared
<1>3. s \in EngineeringState /\ StateOK(s)
  BY <1>2, TaskOK
<1>4. job' = q
  BY DEF BlockRow
<1>5. CASE current
  <2>1. Room(t, 1) /\ SetState(t, after, 1)
    BY <1>5 DEF BlockRow
  <2>2. s.status \notin Terminal \cup {"PAUSED"}
    BY <1>5 DEF Runnable, Terminal
  <2>3. GoodMove(s, after) /\ after.status = "WAITING_HUMAN"
    BY <1>3, <2>2, BlockMove
  <2>4. job' = EnqueuePhase(q, t, after, task[t].version + 1)
    BY <1>4, <2>3 DEF EnqueuePhase, Runnable
  <2> HIDE DEF after, q, t
  <2> QED BY <1>2, <2>1, <2>3, <2>4, QueueGoodMove
<1>6. CASE ~ current
  <2>1. task' = task
    BY <1>6 DEF BlockRow
  <2>2. s.status \notin Runnable
    <3>1. j \in Live(job, t)
      BY <1>1 DEF Live
    <3>2. s.status \in Runnable => job[j].version = task[t].version
      BY <1>2, <3>1 DEF IndInv, RowsOK, JobsOK
    <3> QED BY <1>6, <3>2
  <2>3. JobsOK(task[t], t, q)
    BY <1>2, <2>2 DEF JobsOK, Cleared
  <2>4. s.stage \in Delivering => validated[t] = s.req
    BY <1>2 DEF IndInv, RowsOK
  <2>5. task \in [Tasks -> TaskRow]
    BY DEF IndInv, TypeOK
  <2>6. SameElsewhere(job, q, t) /\ q \in [JobIds -> JobRow]
        /\ \A i \in JobIds : q[i] = job[i] \/ q[i].state \notin LiveState
    BY <1>2 DEF Cleared
  <2> HIDE DEF q, t
  <2>7. RowsOK'
    BY <1>2, <1>3, <1>4, <2>1, <2>3, <2>4, <2>5, <2>6, MoveOK
  <2>8. LiveHaveTask'
    BY <1>4, <2>6 DEF IndInv, LiveHaveTask
  <2> QED BY <1>4, <2>1, <2>5, <2>6, <2>7, <2>8 DEF Core
<1> QED BY <1>5, <1>6

LEMMA BlockInv ==
  ASSUME IndInv, NEW r \in Runners, Block(r)
  PROVE  IndInv'
<1> DEFINE j == runner[r].job
<1>1. /\ runner[r].pc # "idle" /\ runner' = [runner EXCEPT ![r] = Idle]
      /\ UNCHANGED <<open, interpreting, validated>>
  BY DEF Block
<1>2. runner' \in [Runners -> RunnerState] /\ RunnersOK'
  BY <1>1, ForgetOK
<1>3. CASE Locked(r)
  <2>1. PICK reason \in BlockReasons : BlockRow(j, reason)
    BY <1>3 DEF Block
  <2>2. reason \in WaitReason \ {"NONE"}
    BY ConstantsAssumption
  <2>3. j \in JobIds /\ job[j].state \in Executing
    BY <1>1, <1>3 DEF IndInv, RunnersOK, Locked
  <2> HIDE DEF j
  <2>4. Core'
    BY <1>1, <2>1, <2>2, <2>3, BlockRowCore
  <2> QED BY <1>1, <1>2, <2>4 DEF IndInv, TypeOK, Core
<1>4. CASE ~ Locked(r)
  <2>1. UNCHANGED <<task, job>>
    BY <1>4 DEF Block
  <2> QED BY <1>1, <1>2, <2>1, QuietInv DEF IndInv, TypeOK
<1> QED BY <1>3, <1>4

LEMMA RecoverInv ==
  ASSUME IndInv, NEW j \in JobIds, Recover(j)
  PROVE  IndInv'
<1>1. job[j].state \in Executing /\ BlockRow(j, "MISSING_CONFIGURATION")
      /\ UNCHANGED <<open, runner, interpreting, validated>>
  BY DEF Recover
<1>2. "MISSING_CONFIGURATION" \in WaitReason \ {"NONE"}
  BY DEF WaitReason
<1>3. Core'
  BY <1>1, <1>2, BlockRowCore
<1> QED BY <1>1, <1>3 DEF IndInv, TypeOK, Core, RunnersOK

(* complete(): the transition of the result, the feedback that waited for a *)
(* publication, and the job of the next phase.                              *)
LEMMA CompleteInv ==
  ASSUME IndInv, NEW r \in Runners, Complete(r)
  PROVE  IndInv'
<1> DEFINE j     == runner[r].job
           t     == runner[r].task
           a     == runner[r].result
           s     == task[t].state
           moved == Transition(s, a, "NONE", FALSE)
           done  == [job EXCEPT ![j] = Closed]
<1>1. /\ runner[r].pc = "finished" /\ MayComplete(r) /\ Permits(s, a, "NONE")
      /\ runner' = [runner EXCEPT ![r] = Idle] /\ UNCHANGED <<open, interpreting>>
      /\ validated' = IF a = "VALIDATION_PASSED"
                      THEN [validated EXCEPT ![t] = s.req] ELSE validated
  BY DEF Complete
<1>2. PICK out \in IF a = "PUBLISHED" THEN FeedbackOutcomes(moved) ELSE {Unfed(moved)} :
        /\ Room(t, 1 + out.steps)
        /\ SetState(t, out.state, 1 + out.steps)
        /\ job' = EnqueuePhase(done, t, out.state, task[t].version + 1 + out.steps)
  BY DEF Complete
<1>3. j \in JobIds /\ t \in Tasks /\ a \in StepAction
  BY <1>1 DEF IndInv, RunnersOK
<1>4. job[j].state \in LiveState /\ job[j].task = t
  BY <1>1 DEF MayComplete, Locked, LiveState
<1>5. Cleared(done, t)
  BY <1>3, <1>4, CloseRowOK DEF Cleared
<1>6. s \in EngineeringState /\ StateOK(s) /\ task[t].version \in 0..MaxVersion
      /\ validated \in [Tasks -> Nat]
  BY <1>3, TaskOK DEF IndInv, TypeOK
<1>7. a \in Action /\ "NONE" \in WaitReason
  BY <1>3, Names
<1>8. moved \in EngineeringState /\ StateOK(moved)
  <2> HIDE DEF s, a
  <2> QED BY <1>1, <1>6, <1>7, TransitionOK DEF moved
<1>9. Core'
  <2>1. CASE a = "VALIDATION_PASSED"
    <3>1. out = Unfed(moved)
      BY <1>2, <2>1
    <3>2. out.state = moved /\ out.steps = 0
      BY <3>1 DEF Unfed
    <3>3. validated' = [validated EXCEPT ![t] = s.req]
      BY <1>1, <2>1
    <3>4. moved = StepState(s, a)
      BY <2>1 DEF Transition, StepAction
    <3>5. moved.req = s.req
      BY <1>6, <3>4 DEF StepState, EngineeringState
    <3>6. validated'[t] = moved.req /\ \A u \in Tasks \ {t} : validated'[u] = validated[u]
          /\ validated' \in [Tasks -> Nat]
      BY <1>3, <1>6, <3>3, <3>5 DEF EngineeringState
    <3>7. Room(t, 1) /\ SetState(t, moved, 1)
          /\ job' = EnqueuePhase(done, t, moved, task[t].version + 1)
      <4>1. 1 + out.steps = 1 /\ task[t].version + 1 + out.steps = task[t].version + 1
        BY <1>6, <3>2
      <4> HIDE DEF moved, done, t
      <4> QED BY <1>2, <3>2, <4>1
    <3> HIDE DEF moved, done, t, s, a
    <3> QED BY <1>3, <1>5, <1>8, <3>6, <3>7, QueueMove
  <2>2. CASE a # "VALIDATION_PASSED"
    <3>1. validated' = validated
      BY <1>1, <2>2
    <3>2. GoodMove(s, moved)
      <4> HIDE DEF s, a
      <4> QED BY <1>1, <1>6, <1>7, <2>2, OtherTransitionOK DEF moved
    <3>3. GoodMove(moved, out.state) /\ out.steps \in Nat
      <4>1. CASE a = "PUBLISHED"
        <5>1. out \in FeedbackOutcomes(moved)
          BY <1>2, <4>1
        <5> HIDE DEF moved
        <5> QED BY <1>8, <5>1, OutcomesOK
      <4>2. CASE a # "PUBLISHED"
        <5>1. out.state = moved /\ out.steps = 0
          <6>1. out = Unfed(moved)
            BY <1>2, <4>2
          <6> HIDE DEF moved
          <6> QED BY <6>1 DEF Unfed
        <5> HIDE DEF moved
        <5> QED BY <1>8, <5>1 DEF GoodMove
      <4> QED BY <4>1, <4>2
    <3>4. GoodMove(s, out.state)
      <4> HIDE DEF moved, s
      <4> QED BY <3>2, <3>3, GoodMoves
    <3>5. 1 + out.steps \in Nat
          /\ job' = EnqueuePhase(done, t, out.state, task[t].version + (1 + out.steps))
      <4>1. task[t].version + 1 + out.steps = task[t].version + (1 + out.steps)
        BY <1>6, <3>3
      <4> QED BY <1>2, <3>3, <4>1
    <3>6. Room(t, 1 + out.steps) /\ SetState(t, out.state, 1 + out.steps)
      BY <1>2
    <3> DEFINE k == 1 + out.steps
               after == out.state
    <3> HIDE DEF done, t, k, after
    <3>7. k \in Nat /\ Room(t, k) /\ SetState(t, after, k)
          /\ job' = EnqueuePhase(done, t, after, task[t].version + k)
          /\ GoodMove(task[t].state, after)
      BY <3>4, <3>5, <3>6 DEF k, after
    <3> QED BY <1>3, <1>5, <3>1, <3>7, QueueGoodMove
  <2> QED BY <2>1, <2>2
<1>10. runner' \in [Runners -> RunnerState] /\ RunnersOK'
  BY <1>1, ForgetOK
<1>11. validated' \in [Tasks -> Nat]
  <2>1. s.req \in Nat
    BY <1>6 DEF EngineeringState
  <2> QED BY <1>1, <1>3, <1>6, <2>1
<1> QED BY <1>1, <1>9, <1>10, <1>11 DEF IndInv, TypeOK, Core

-----------------------------------------------------------------------------
(* The specification.                                                      *)

LEMMA TaskStepInv ==
  ASSUME IndInv, NEW t \in Tasks, TaskStep(t)
  PROVE  IndInv'
<1>1. CASE RequestExecution(t)
  BY <1>1, EnrollInv, RefuseEnrollmentInv DEF RequestExecution
<1>2. ASSUME NEW a \in Commands, Change(t, a) \/ Command(t, a)
      PROVE  IndInv'
  <2>1. a \in {"PAUSE", "CANCEL", "TAKEOVER", "RESUME"}
    BY ConstantsAssumption
  <2>2. CASE Enroll(t)
    BY <2>2, EnrollInv
  <2>3. CASE ResumeNew(t)
    BY <2>3, ResumeNewInv
  <2>4. ASSUME NEW b \in {a, "RELEASE_TAKEOVER"}, ControlTask(t, b)
        PROVE  IndInv'
    <3>1. b \in {"PAUSE", "CANCEL", "TAKEOVER", "RESUME", "RELEASE_TAKEOVER"}
      BY <2>1
    <3> QED BY <2>4, <3>1, ControlTaskInv
  <2> QED BY <1>2, <2>2, <2>3, <2>4 DEF Change, Command
<1>3. CASE ClaimReviewText(t)
  <2>1. UNCHANGED <<task, job, open, runner, validated>> /\ interpreting' \in SUBSET Tasks
    BY <1>3 DEF ClaimReviewText, IndInv, TypeOK
  <2> QED BY <2>1, QuietInv DEF IndInv, TypeOK, RunnersOK
<1>4. CASE ShutdownTask(t)
  BY <1>4, ControlTaskInv DEF ShutdownTask
<1> QED
  BY <1>1, <1>2, <1>3, <1>4, ArchiveInv, ReviseRequirementInv, ReviseWhilePausedInv,
     ChangeSessionInv, RequestValidationInv, ReviewFeedbackInv, HeadChangedInv,
     MergedExternallyInv, AuthorizeMergeInv, FeedbackVerdictInv, UnknownVerdictInv
     DEF TaskStep

LEMMA TeamStepInv ==
  ASSUME IndInv, NEW m \in Teams, CloseTeam(m) \/ OpenTeam(m)
  PROVE  IndInv'
<1>1. UNCHANGED <<task, job, runner, interpreting, validated>> /\ open' \in SUBSET Teams
  BY DEF CloseTeam, OpenTeam, IndInv, TypeOK
<1> QED BY <1>1, QuietInv DEF IndInv, TypeOK, RunnersOK

LEMMA RunnerStepInv ==
  ASSUME IndInv, NEW r \in Runners, RunnerStep(r)
  PROVE  IndInv'
BY ClaimInv, FirstHeartbeatInv, StartExecutionInv, LoadContextInv, FinishPhaseInv,
   FailingInv, ForgettingInv, CompleteInv, BlockInv DEF RunnerStep

(* The created tasks are NEW in INTAKE, there are no jobs and no workers.    *)
LEMMA InitInv == Init => IndInv
<1> SUFFICES ASSUME Init PROVE IndInv
  OBVIOUS
<1>1. NewState \in EngineeringState /\ StateOK(NewState)
      /\ NewState.status = "NEW" /\ NewState.stage = "INTAKE"
  BY NewStateConsistent
     DEF NewState, EngineeringState, TaskStatus, Stage, WaitReason, StateOK, Consistent,
         Runnable, PhaseStage
<1>2. task \in [Tasks -> TaskRow] /\ job \in [JobIds -> JobRow]
      /\ open \in SUBSET Teams /\ interpreting \in SUBSET Tasks
      /\ validated \in [Tasks -> Nat]
  <2>1. 1 \in 0..MaxVersion
    BY ConstantsAssumption
  <2> QED BY <1>1, <2>1, ClosedOK DEF Init, TaskRow
<1>3. runner \in [Runners -> RunnerState] /\ \A r \in Runners : runner[r].pc = "idle"
  BY IdleOK DEF Init
<1>4. \A j \in JobIds : job[j].state \notin LiveState
  BY DEF Init, NoJob, LiveState, Executing
<1>5. \A t \in Tasks : Live(job, t) = {}
  BY <1>4 DEF Live
<1>6. \A t \in Tasks : task[t].state = NewState /\ ~ task[t].enrolled
  BY DEF Init
<1>7. RowsOK
  <2>1. NewState.stage \notin Delivering
    BY <1>1 DEF Delivering
  <2>2. \A t \in Tasks : JobsOK(task[t], t, job)
    BY <1>1, <1>5, <1>6 DEF JobsOK
  <2> HIDE DEF NewState
  <2> QED BY <1>1, <1>6, <2>1, <2>2 DEF RowsOK
<1> QED BY <1>2, <1>3, <1>4, <1>7 DEF IndInv, TypeOK, LiveHaveTask, RunnersOK

LEMMA NextInv ==
  ASSUME IndInv, [Next]_vars
  PROVE  IndInv'
<1>1. CASE Next
  BY <1>1, TaskStepInv, TeamStepInv, RunnerStepInv, ExpireInv, RecoverInv DEF Next
<1>2. CASE UNCHANGED vars
  BY <1>2, QuietInv DEF vars, IndInv, TypeOK, RunnersOK
<1> QED BY <1>1, <1>2

(* What the invariant says, in the words of the properties that TLC checks.  *)
LEMMA InvImplies ==
  ASSUME IndInv
  PROVE  /\ TypeOK
         /\ ConsistentTasks
         /\ OneLiveJob
         /\ NoStrandedTask
         /\ StoppedWorkIsRevoked
         /\ OnlyValidatedRequirementsAdvance
<1>1. ConsistentTasks
  BY DEF IndInv, RowsOK, StateOK, ConsistentTasks
<1>2. OneLiveJob
  <2> SUFFICES ASSUME NEW i \in JobIds, NEW j \in JobIds, job[i].state \in LiveState,
                      job[j].state \in LiveState, job[i].task = job[j].task
               PROVE  i = j
    BY DEF OneLiveJob
  <2>1. job[i].task \in Tasks
    BY DEF IndInv, LiveHaveTask
  <2>2. i \in Live(job, job[i].task) /\ j \in Live(job, job[i].task)
    BY DEF Live
  <2> QED BY <2>1, <2>2 DEF IndInv, RowsOK, JobsOK
<1>3. NoStrandedTask
  <2> SUFFICES ASSUME NEW t \in Tasks, task[t].enrolled, task[t].state.status \in Runnable
               PROVE  \E j \in JobIds : /\ job[j].task = t
                                        /\ job[j].state \in LiveState
                                        /\ job[j].version = task[t].version
                                        /\ job[j].action = PhaseOf(task[t].state.stage)
    BY DEF NoStrandedTask
  <2>1. PICK j : j \in Live(job, t)
    BY DEF IndInv, RowsOK, JobsOK
  <2>2. job[j].version = task[t].version /\ job[j].action = PhaseOf(task[t].state.stage)
    BY <2>1 DEF IndInv, RowsOK, JobsOK
  <2> QED BY <2>1, <2>2 DEF Live
<1>4. StoppedWorkIsRevoked
  BY DEF IndInv, RowsOK, JobsOK, Stopped, StoppedWorkIsRevoked
<1>5. OnlyValidatedRequirementsAdvance
  BY DEF IndInv, RowsOK, Delivering, OnlyValidatedRequirementsAdvance
<1> QED BY <1>1, <1>2, <1>3, <1>4, <1>5 DEF IndInv

(* The queue is safe for any number of tasks, teams, workers and jobs: rows  *)
(* stay well formed, a task has at most one live job, an enrolled runnable   *)
(* task has exactly the job its version and phase call for, no lease         *)
(* survives a stop, and only validated requirements are delivered.           *)
THEOREM QueueIsSafe ==
  Spec => [](/\ TypeOK
             /\ ConsistentTasks
             /\ OneLiveJob
             /\ NoStrandedTask
             /\ StoppedWorkIsRevoked
             /\ OnlyValidatedRequirementsAdvance)
<1>1. Init => IndInv
  BY InitInv
<1>2. IndInv /\ [Next]_vars => IndInv'
  BY NextInv
<1>3. IndInv => /\ TypeOK
                /\ ConsistentTasks
                /\ OneLiveJob
                /\ NoStrandedTask
                /\ StoppedWorkIsRevoked
                /\ OnlyValidatedRequirementsAdvance
  BY InvImplies
<1> QED BY <1>1, <1>2, <1>3, PTL DEF Spec

(* Whatever commands, workers, recoveries and sweeps do to a task at once,   *)
(* two workers never hold live jobs of the same task.                       *)
COROLLARY NoTwoLiveJobs == Spec => []OneLiveJob
BY QueueIsSafe, PTL

(* A pause, a takeover, a cancellation or the wait for a review leaves no    *)
(* job that could still be claimed or reported.                             *)
COROLLARY StoppingRevokes == Spec => []StoppedWorkIsRevoked
BY QueueIsSafe, PTL

-----------------------------------------------------------------------------
(* The refinement of the lifecycle contract.                                *)
LEMMA SamePermits ==
  ASSUME NEW s, NEW a, NEW reason
  PROVE  Contract!Permits(s, a, reason) <=> Permits(s, a, reason)
BY DEF Contract!Permits, Permits, Contract!StepFrom, StepFrom, Contract!Terminal, Terminal,
       Contract!Suspended, Suspended, Contract!StepAction, StepAction

LEMMA SameTransition ==
  ASSUME NEW s, NEW a, NEW reason
  PROVE  Contract!Transition(s, a, reason, FALSE) = Transition(s, a, reason, FALSE)
BY DEF Contract!Transition, Transition, Contract!StepAction, StepAction, Contract!StepTo,
       StepTo, Contract!StepState, StepState, Contract!PauseState, PauseState,
       Contract!ResumeState, ResumeState, Contract!ReviseState, ReviseState

(* One transition, with a reason when it blocks.                            *)
Moves(s, a, reason, after) ==
  /\ a \in Action
  /\ reason \in WaitReason
  /\ a # "BLOCK" => reason = "NONE"
  /\ Permits(s, a, reason)
  /\ after = Transition(s, a, reason, FALSE)

(* What a transaction that records no verdict may make of a row's state.     *)
Follows(s, after) ==
  \/ after = s
  \/ \E a \in Action \ {"VALIDATION_PASSED"}, reason \in WaitReason : Moves(s, a, reason, after)
  \/ \E p \in Contract!Together, reason \in WaitReason, between \in EngineeringState :
       Moves(s, p[1], "NONE", between) /\ Moves(between, p[2], reason, after)

Implements == [Contract!Next]_(Contract!lifecycleVars)

LEMMA OneMove ==
  ASSUME NEW a, NEW reason, Moves(task[AnyTask].state, a, reason, task'[AnyTask].state),
         task'[AnyTask].enrolled = task[AnyTask].enrolled,
         validated'[AnyTask] = IF a = "VALIDATION_PASSED" THEN task[AnyTask].state.req
                               ELSE validated[AnyTask]
  PROVE  Implements
<1>1. Contract!Step(a, reason)
  BY SamePermits, SameTransition DEF Contract!Step, Moves
<1>2. a \in Contract!Action /\ reason \in Contract!ReasonsOf(a)
  BY DEF Moves, Contract!Action, Action, Contract!StepAction, StepAction, Contract!ReasonsOf,
         Contract!WaitReason, WaitReason
<1> QED BY <1>1, <1>2 DEF Implements, Contract!Next

LEMMA TwoMoves ==
  ASSUME NEW p \in Contract!Together, NEW reason, NEW between,
         Moves(task[AnyTask].state, p[1], "NONE", between),
         Moves(between, p[2], reason, task'[AnyTask].state),
         task'[AnyTask].enrolled = task[AnyTask].enrolled,
         validated'[AnyTask] = validated[AnyTask]
  PROVE  Implements
<1>1. Contract!TwoSteps(p[1], p[2], reason)
  BY SamePermits, SameTransition DEF Contract!TwoSteps, Moves
<1>2. reason \in Contract!ReasonsOf(p[2])
  BY DEF Moves, Contract!ReasonsOf, Contract!WaitReason, WaitReason
<1> QED BY <1>1, <1>2 DEF Implements, Contract!Next

LEMMA NoMove ==
  ASSUME task'[AnyTask].state = task[AnyTask].state,
         task'[AnyTask].enrolled = task[AnyTask].enrolled,
         validated'[AnyTask] = validated[AnyTask]
  PROVE  Implements
BY DEF Implements, Contract!lifecycleVars

LEMMA FollowsImplements ==
  ASSUME TypeOK, NEW t \in Tasks, NEW after, NEW k, SetState(t, after, k),
         Follows(task[t].state, after), validated' = validated
  PROVE  Implements
<1>1. /\ task'[t].state = after /\ task'[t].enrolled = task[t].enrolled
      /\ \A u \in Tasks \ {t} : task'[u] = task[u]
  BY DEF SetState, TypeOK, TaskRow
<1>2. CASE t = AnyTask
  <2>1. CASE after = task[t].state
    BY <1>1, <1>2, <2>1, NoMove
  <2>2. ASSUME NEW a \in Action \ {"VALIDATION_PASSED"}, NEW reason \in WaitReason,
               Moves(task[t].state, a, reason, after)
        PROVE  Implements
    BY <1>1, <1>2, <2>2, OneMove
  <2>3. ASSUME NEW p \in Contract!Together, NEW reason \in WaitReason,
               NEW between \in EngineeringState,
               Moves(task[t].state, p[1], "NONE", between), Moves(between, p[2], reason, after)
        PROVE  Implements
    BY <1>1, <1>2, <2>3, TwoMoves
  <2> QED BY <2>1, <2>2, <2>3 DEF Follows
<1>3. CASE t # AnyTask
  BY <1>1, <1>3, AnyTaskAssumption, NoMove
<1> QED BY <1>2, <1>3

LEMMA SameRows ==
  ASSUME UNCHANGED <<task, validated>>
  PROVE  Implements
BY NoMove

(* Feedback moves a task that awaits review by one transition.               *)
LEMMA FeedbackMoves ==
  ASSUME NEW s \in EngineeringState, StateOK(s), FeedbackApplies(s)
  PROVE  /\ Moves(s, "REVIEW_FIX", "NONE", Fed(s).state)
         /\ Moves(s, "BLOCK", "MISSING_REQUIREMENT", Oversized(s).state)
<1>1. s.status = "WAITING_EXTERNAL" /\ s.stage = "REVIEWING" /\ ~ s.takeover
  BY DEF FeedbackApplies, StateOK, EngineeringState, TaskStatus, Terminal, Runnable,
         PhaseStage
<1>2. Moves(s, "REVIEW_FIX", "NONE", Fed(s).state)
  <2>1. Permits(s, "REVIEW_FIX", "NONE")
    BY <1>1 DEF Permits, Terminal, StepAction, StepFrom
  <2> QED BY <2>1 DEF Moves, Fed, Action, StepAction, WaitReason
<1>3. Moves(s, "BLOCK", "MISSING_REQUIREMENT", Oversized(s).state)
  <2>1. Permits(s, "BLOCK", "MISSING_REQUIREMENT")
    BY <1>1 DEF Permits, Terminal
  <2> QED BY <2>1, Names DEF Moves, Oversized
<1> QED BY <1>2, <1>3

LEMMA BlockFollows ==
  ASSUME NEW s \in EngineeringState, StateOK(s), NEW reason \in WaitReason \ {"NONE"},
         s.status \notin Terminal \cup {"PAUSED"}
  PROVE  Follows(s, Transition(s, "BLOCK", reason, FALSE))
<1>1. ~ s.takeover
  BY DEF StateOK, Consistent
<1>2. Permits(s, "BLOCK", reason)
  BY <1>1 DEF Permits
<1>3. Moves(s, "BLOCK", reason, Transition(s, "BLOCK", reason, FALSE))
  BY <1>2, Names DEF Moves
<1> QED BY <1>3, Names DEF Follows

(* A transition, and the feedback that waited for it.                        *)
LEMMA OutcomesFollow ==
  ASSUME NEW s \in EngineeringState, StateOK(s),
         NEW a \in {"RESUME", "RELEASE_TAKEOVER", "PUBLISHED"}, NEW moved,
         Moves(s, a, "NONE", moved), NEW out \in FeedbackOutcomes(moved)
  PROVE  Follows(s, out.state)
<1>1. a \in Action \ {"VALIDATION_PASSED"} /\ "NONE" \in WaitReason
  BY DEF Action, StepAction, WaitReason
<1>2. moved \in EngineeringState /\ StateOK(moved)
  BY <1>1, TransitionOK DEF Moves
<1>3. CASE out = Unfed(moved)
  <2>1. out.state = moved
    BY <1>3 DEF Unfed
  <2> QED BY <1>1, <2>1 DEF Follows
<1>4. CASE FeedbackApplies(moved) /\ out = Fed(moved)
  <2>1. Moves(moved, "REVIEW_FIX", "NONE", out.state)
    BY <1>2, <1>4, FeedbackMoves
  <2>2. <<a, "REVIEW_FIX">> \in Contract!Together
    BY DEF Contract!Together
  <2> QED BY <1>1, <1>2, <2>1, <2>2 DEF Follows
<1>5. CASE FeedbackApplies(moved) /\ out = Oversized(moved)
  <2>1. Moves(moved, "BLOCK", "MISSING_REQUIREMENT", out.state)
    BY <1>2, <1>5, FeedbackMoves
  <2>2. <<a, "BLOCK">> \in Contract!Together /\ "MISSING_REQUIREMENT" \in WaitReason
    BY DEF Contract!Together, WaitReason
  <2> QED BY <1>2, <2>1, <2>2 DEF Follows
<1> QED BY <1>3, <1>4, <1>5 DEF FeedbackOutcomes

LEMMA ControlTaskImplements ==
  ASSUME IndInv, NEW t \in Tasks,
         NEW a \in {"PAUSE", "CANCEL", "TAKEOVER", "RESUME", "RELEASE_TAKEOVER"},
         ControlTask(t, a)
  PROVE  Implements
<1> DEFINE s     == task[t].state
           moved == Transition(s, a, "NONE", FALSE)
<1>1. s \in EngineeringState /\ StateOK(s) /\ TypeOK
  BY TaskOK DEF IndInv
<1>2. Moves(s, a, "NONE", moved)
  BY Names DEF ControlTask, Moves
<1>3. validated' = validated
  BY DEF ControlTask
<1>4. CASE a \in {"RESUME", "RELEASE_TAKEOVER"}
  <2>1. PICK out \in FeedbackOutcomes(moved) : SetState(t, out.state, 1 + out.steps)
    BY <1>4 DEF ControlTask
  <2> HIDE DEF s, moved
  <2>2. Follows(s, out.state)
    BY <1>1, <1>2, <1>4, OutcomesFollow
  <2> QED BY <1>1, <1>3, <2>1, <2>2, FollowsImplements DEF s
<1>5. CASE a \notin {"RESUME", "RELEASE_TAKEOVER"}
  <2>1. SetState(t, Unfed(moved).state, 1 + Unfed(moved).steps)
    BY <1>5 DEF ControlTask
  <2>2. Unfed(moved).state = moved
    BY DEF Unfed
  <2> HIDE DEF s, moved
  <2>3. Follows(s, moved)
    BY <1>2, Names DEF Follows
  <2> QED BY <1>1, <1>3, <2>1, <2>2, <2>3, FollowsImplements DEF s
<1> QED BY <1>4, <1>5

LEMMA EnrollImplements ==
  ASSUME IndInv, NEW t \in Tasks, Enroll(t)
  PROVE  Implements
<1>1. task \in [Tasks -> TaskRow]
  BY DEF IndInv, TypeOK
<1>2. validated' = validated
  BY DEF Enroll
<1>3. CASE t = AnyTask
  <2>1. /\ ~ task[AnyTask].enrolled /\ ~ task[AnyTask].state.takeover
        /\ task[AnyTask].state.status \in {"NEW", "PAUSED", "WAITING_HUMAN"}
    BY <1>3 DEF Enroll, Enrollable
  <2>2. /\ task'[AnyTask].state = [task[AnyTask].state EXCEPT !.status = "NEW", !.stage = "INTAKE",
                                                       !.wait = "NONE"]
        /\ task'[AnyTask].enrolled = TRUE
    BY <1>1, <1>3 DEF Enroll, TaskRow
  <2>3. Contract!EnrollTask
    BY <1>2, <2>1, <2>2 DEF Contract!EnrollTask
  <2> QED BY <2>3 DEF Implements, Contract!Next
<1>4. CASE t # AnyTask
  <2>1. task'[AnyTask] = task[AnyTask]
    BY <1>1, <1>4, AnyTaskAssumption DEF Enroll
  <2> QED BY <1>2, <2>1, NoMove
<1> QED BY <1>3, <1>4

LEMMA ReviseRequirementImplements ==
  ASSUME IndInv, NEW t \in Tasks, ReviseRequirement(t)
  PROVE  Implements
<1> DEFINE s      == task[t].state
           paused == PauseState(s, s.takeover)
           after  == ReviseState(paused)
<1>1. s \in EngineeringState /\ StateOK(s) /\ TypeOK
  BY TaskOK DEF IndInv
<1>2. s.status \notin Terminal /\ SetState(t, after, 2) /\ validated' = validated
  BY DEF ReviseRequirement
<1>3. Moves(s, "PAUSE", "NONE", paused)
  BY <1>2 DEF Moves, Permits, Transition, Action, StepAction, WaitReason
<1>4. paused \in EngineeringState
  BY <1>1, <1>3, TransitionOK DEF Moves
<1>5. paused.status = "PAUSED"
  BY <1>1 DEF PauseState, EngineeringState
<1> HIDE DEF s, paused
<1>6. Permits(paused, "REVISE_REQUIREMENT", "NONE")
  BY <1>5 DEF Permits, Terminal
<1>7. Moves(paused, "REVISE_REQUIREMENT", "NONE", after)
  BY <1>6 DEF Moves, Transition, Action, StepAction, WaitReason
<1>8. <<"PAUSE", "REVISE_REQUIREMENT">> \in Contract!Together /\ "NONE" \in WaitReason
  BY DEF Contract!Together, WaitReason
<1> HIDE DEF after
<1>9. Follows(s, after)
  BY <1>3, <1>4, <1>7, <1>8 DEF Follows
<1> QED BY <1>1, <1>2, <1>9, FollowsImplements DEF s

LEMMA ReviseWhilePausedImplements ==
  ASSUME IndInv, NEW t \in Tasks, ReviseWhilePaused(t)
  PROVE  Implements
<1> DEFINE s == task[t].state
<1>1. TypeOK /\ validated' = validated /\ SetState(t, ReviseState(s), 1) /\ s.status = "PAUSED"
  BY DEF IndInv, ReviseWhilePaused
<1>2. Permits(s, "REVISE_REQUIREMENT", "NONE")
  BY <1>1 DEF Permits, Terminal
<1> HIDE DEF s
<1>3. Moves(s, "REVISE_REQUIREMENT", "NONE", ReviseState(s))
  BY <1>2 DEF Moves, Transition, Action, StepAction, WaitReason
<1>4. Follows(s, ReviseState(s))
  BY <1>3, Names DEF Follows
<1> QED BY <1>1, <1>4, FollowsImplements DEF s

LEMMA RequestValidationImplements ==
  ASSUME IndInv, NEW t \in Tasks, RequestValidation(t)
  PROVE  Implements
<1> DEFINE s     == task[t].state
           moves == s.stage # "VALIDATING"
           after == IF moves THEN Transition(s, "VALIDATE_CANDIDATE", "NONE", FALSE) ELSE s
           k     == IF moves THEN 1 ELSE 0
<1>1. s \in EngineeringState /\ StateOK(s) /\ TypeOK
  BY TaskOK DEF IndInv
<1>2. /\ s.status = "ACTIVE" /\ s.stage \in {"DEVELOPING", "FIXING", "VALIDATING"}
      /\ SetState(t, after, k) /\ validated' = validated
  BY DEF RequestValidation
<1>3. Follows(s, after)
  <2>1. CASE moves
    <3>1. ~ s.takeover
      BY <1>1, <1>2 DEF StateOK, Consistent
    <3>2. Permits(s, "VALIDATE_CANDIDATE", "NONE")
      BY <1>2, <2>1, <3>1 DEF Permits, Terminal, StepAction, StepFrom
    <3>3. Moves(s, "VALIDATE_CANDIDATE", "NONE", after)
      BY <2>1, <3>2 DEF Moves, Action, StepAction, WaitReason
    <3>4. "VALIDATE_CANDIDATE" \in Action \ {"VALIDATION_PASSED"} /\ "NONE" \in WaitReason
      BY DEF Action, StepAction, WaitReason
    <3> HIDE DEF after
    <3> QED BY <3>3, <3>4 DEF Follows
  <2>2. CASE ~ moves
    BY <2>2 DEF Follows
  <2> QED BY <2>1, <2>2
<1> HIDE DEF after, k
<1> QED BY <1>1, <1>2, <1>3, FollowsImplements

LEMMA ReviewFeedbackImplements ==
  ASSUME IndInv, NEW t \in Tasks, ReviewFeedback(t)
  PROVE  Implements
<1> DEFINE s == task[t].state
<1>1. s \in EngineeringState /\ StateOK(s) /\ TypeOK
  BY TaskOK DEF IndInv
<1>2. PICK out \in {Fed(s), Oversized(s)} : SetState(t, out.state, 1)
  BY DEF ReviewFeedback
<1>3. FeedbackApplies(s) /\ validated' = validated
  BY DEF ReviewFeedback
<1>4. Follows(s, Fed(s).state) /\ Follows(s, Oversized(s).state)
  BY <1>1, <1>3, FeedbackMoves DEF Follows, Moves
<1> QED BY <1>1, <1>2, <1>3, <1>4, FollowsImplements

LEMMA FeedbackVerdictImplements ==
  ASSUME IndInv, NEW t \in Tasks, ApplyFeedbackVerdict(t)
  PROVE  Implements
<1> DEFINE s == task[t].state
<1>1. s \in EngineeringState /\ StateOK(s) /\ TypeOK
  BY TaskOK DEF IndInv
<1>2. PICK out \in FeedbackOutcomes(s) : SetState(t, out.state, out.steps)
  BY DEF ApplyFeedbackVerdict
<1>3. validated' = validated
  BY DEF ApplyFeedbackVerdict
<1>4. Follows(s, out.state)
  <2>1. CASE out = Unfed(s)
    BY <2>1 DEF Unfed, Follows
  <2>2. CASE FeedbackApplies(s) /\ out \in {Fed(s), Oversized(s)}
    BY <1>1, <2>2, FeedbackMoves DEF Follows, Moves
  <2> QED BY <2>1, <2>2 DEF FeedbackOutcomes
<1> QED BY <1>1, <1>2, <1>3, <1>4, FollowsImplements

(* The handlers that only block a task.                                     *)
LEMMA BlockingImplements ==
  ASSUME IndInv, NEW t \in Tasks,
         RefuseEnrollment(t) \/ HeadChanged(t) \/ ApplyUnknownVerdict(t)
  PROVE  Implements
<1> DEFINE s == task[t].state
<1>1. s \in EngineeringState /\ StateOK(s) /\ TypeOK
  BY TaskOK DEF IndInv
<1>2. s.status \notin Terminal \cup {"PAUSED"} /\ validated' = validated
  BY DEF RefuseEnrollment, HeadChanged, AwaitsReview, ApplyUnknownVerdict, Terminal
<1>3. PICK reason \in {"MISSING_CONFIGURATION", "MERGE_CONFLICT", "MISSING_REQUIREMENT"} :
        SetState(t, Transition(s, "BLOCK", reason, FALSE), 1)
  BY DEF RefuseEnrollment, HeadChanged, ApplyUnknownVerdict
<1>4. reason \in WaitReason \ {"NONE"}
  BY DEF WaitReason
<1>5. Follows(s, Transition(s, "BLOCK", reason, FALSE))
  BY <1>1, <1>2, <1>4, BlockFollows
<1> QED BY <1>1, <1>2, <1>3, <1>5, FollowsImplements

LEMMA AuthorizeMoves ==
  ASSUME IndInv, NEW t \in Tasks, AwaitsReview(t)
  PROVE  LET s     == task[t].state
             after == Transition(s, "MERGE_AUTHORIZED", "NONE", FALSE)
         IN  Moves(s, "MERGE_AUTHORIZED", "NONE", after)
BY DEF AwaitsReview, Moves, Permits, Terminal, StepAction, StepFrom, Action, WaitReason

LEMMA AuthorizeMergeImplements ==
  ASSUME IndInv, NEW t \in Tasks, AuthorizeMerge(t)
  PROVE  Implements
<1> DEFINE s     == task[t].state
           after == Transition(s, "MERGE_AUTHORIZED", "NONE", FALSE)
<1>1. SetState(t, after, 1) /\ validated' = validated /\ TypeOK
  BY DEF AuthorizeMerge, IndInv
<1>2. Moves(s, "MERGE_AUTHORIZED", "NONE", after)
  BY AuthorizeMoves DEF AuthorizeMerge
<1>3. "MERGE_AUTHORIZED" \in Action \ {"VALIDATION_PASSED"} /\ "NONE" \in WaitReason
  BY DEF Action, StepAction, WaitReason
<1> HIDE DEF after
<1>4. Follows(s, after)
  BY <1>2, <1>3 DEF Follows
<1> QED BY <1>1, <1>4, FollowsImplements

LEMMA MergedExternallyImplements ==
  ASSUME IndInv, NEW t \in Tasks, MergedExternally(t)
  PROVE  Implements
<1> DEFINE s          == task[t].state
           authorized == Transition(s, "MERGE_AUTHORIZED", "NONE", FALSE)
           merged     == Transition(authorized, "MERGED", "NONE", FALSE)
<1>1. AwaitsReview(t) /\ SetState(t, merged, 2) /\ validated' = validated /\ TypeOK
  BY DEF MergedExternally, IndInv
<1>2. /\ GoodMove(s, authorized)
      /\ authorized.status = "ACTIVE" /\ authorized.stage = "MERGING" /\ ~ authorized.takeover
  BY <1>1, AuthorizeMove
<1>3. Moves(s, "MERGE_AUTHORIZED", "NONE", authorized)
  BY <1>1, AuthorizeMoves
<1> HIDE DEF authorized
<1>4. Moves(authorized, "MERGED", "NONE", merged)
  BY <1>2 DEF Moves, Permits, Terminal, StepAction, StepFrom, Action, WaitReason
<1>5. <<"MERGE_AUTHORIZED", "MERGED">> \in Contract!Together /\ "NONE" \in WaitReason
  BY DEF Contract!Together, WaitReason
<1> HIDE DEF merged
<1>6. Follows(s, merged)
  BY <1>2, <1>3, <1>4, <1>5 DEF Follows, GoodMove
<1> QED BY <1>1, <1>6, FollowsImplements

LEMMA BlockRowImplements ==
  ASSUME IndInv, NEW j \in JobIds, job[j].state \in Executing,
         NEW reason \in WaitReason \ {"NONE"}, BlockRow(j, reason), validated' = validated
  PROVE  Implements
<1> DEFINE t == job[j].task
           s == task[t].state
<1>1. t \in Tasks
  BY DEF IndInv, LiveHaveTask, LiveState
<1>2. s \in EngineeringState /\ StateOK(s) /\ TypeOK
  BY <1>1, TaskOK DEF IndInv
<1>3. CASE s.status \in Runnable /\ SetState(t, Transition(s, "BLOCK", reason, FALSE), 1)
  <2>1. s.status \notin Terminal \cup {"PAUSED"}
    BY <1>3 DEF Runnable, Terminal
  <2> HIDE DEF t
  <2>2. Follows(s, Transition(s, "BLOCK", reason, FALSE))
    BY <1>2, <2>1, BlockFollows
  <2> QED BY <1>1, <1>2, <1>3, <2>2, FollowsImplements
<1>4. CASE task' = task
  BY <1>4, SameRows
<1> QED BY <1>3, <1>4 DEF BlockRow

LEMMA CompleteImplements ==
  ASSUME IndInv, NEW r \in Runners, Complete(r)
  PROVE  Implements
<1> DEFINE t     == runner[r].task
           a     == runner[r].result
           s     == task[t].state
           moved == Transition(s, a, "NONE", FALSE)
<1>1. /\ runner[r].pc = "finished" /\ Permits(s, a, "NONE")
      /\ validated' = IF a = "VALIDATION_PASSED"
                      THEN [validated EXCEPT ![t] = s.req] ELSE validated
  BY DEF Complete
<1>2. PICK out \in IF a = "PUBLISHED" THEN FeedbackOutcomes(moved) ELSE {Unfed(moved)} :
        SetState(t, out.state, 1 + out.steps)
  BY DEF Complete
<1>3. t \in Tasks /\ a \in StepAction
  BY <1>1 DEF IndInv, RunnersOK
<1>4. s \in EngineeringState /\ StateOK(s) /\ TypeOK
  BY <1>3, TaskOK DEF IndInv
<1>5. Moves(s, a, "NONE", moved)
  BY <1>1, <1>3 DEF Moves, Action, StepAction, WaitReason
<1>6. a \in Action /\ "NONE" \in WaitReason
  BY <1>5 DEF Moves
<1>7. CASE a = "VALIDATION_PASSED"
  <2>1. out.state = moved
    <3>1. out = Unfed(moved)
      BY <1>2, <1>7
    <3> HIDE DEF moved
    <3> QED BY <3>1 DEF Unfed
  <2>2. /\ task'[t].state = moved /\ task'[t].enrolled = task[t].enrolled
        /\ \A u \in Tasks \ {t} : task'[u] = task[u]
    BY <1>2, <1>3, <1>4, <2>1 DEF SetState, TypeOK, TaskRow
  <2>3. validated'[t] = s.req /\ \A u \in Tasks \ {t} : validated'[u] = validated[u]
    BY <1>1, <1>3, <1>4, <1>7 DEF TypeOK
  <2> HIDE DEF moved
  <2>4. CASE t = AnyTask
    BY <1>5, <1>7, <2>2, <2>3, <2>4, OneMove
  <2>5. CASE t # AnyTask
    BY <2>2, <2>3, <2>5, AnyTaskAssumption, NoMove
  <2> QED BY <2>4, <2>5
<1>8. CASE a = "PUBLISHED"
  <2>1. out \in FeedbackOutcomes(moved) /\ validated' = validated
    BY <1>1, <1>2, <1>8
  <2> HIDE DEF moved, s, t, a
  <2>2. Follows(s, out.state)
    BY <1>4, <1>5, <1>8, <2>1, OutcomesFollow
  <2> QED BY <1>2, <1>3, <1>4, <2>1, <2>2, FollowsImplements DEF s
<1>9. CASE a \notin {"VALIDATION_PASSED", "PUBLISHED"}
  <2>1. out.state = moved /\ validated' = validated
    <3>1. out = Unfed(moved) /\ validated' = validated
      BY <1>1, <1>2, <1>9
    <3> HIDE DEF moved
    <3> QED BY <3>1 DEF Unfed
  <2> HIDE DEF moved, s, t, a
  <2>2. Follows(s, moved)
    BY <1>5, <1>6, <1>9 DEF Follows
  <2> QED BY <1>2, <1>3, <1>4, <2>1, <2>2, FollowsImplements DEF s
<1> QED BY <1>7, <1>8, <1>9

LEMMA TaskStepImplements ==
  ASSUME IndInv, NEW t \in Tasks, TaskStep(t)
  PROVE  Implements
<1>1. CASE RequestExecution(t)
  BY <1>1, EnrollImplements, BlockingImplements DEF RequestExecution
<1>2. ASSUME NEW a \in Commands, Change(t, a) \/ Command(t, a)
      PROVE  Implements
  <2>1. a \in {"PAUSE", "CANCEL", "TAKEOVER", "RESUME"}
    BY ConstantsAssumption
  <2>2. CASE Enroll(t)
    BY <2>2, EnrollImplements
  <2>3. CASE ResumeNew(t)
    BY <2>3, SameRows DEF ResumeNew
  <2>4. ASSUME NEW b \in {a, "RELEASE_TAKEOVER"}, ControlTask(t, b)
        PROVE  Implements
    <3>1. b \in {"PAUSE", "CANCEL", "TAKEOVER", "RESUME", "RELEASE_TAKEOVER"}
      BY <2>1
    <3> QED BY <2>4, <3>1, ControlTaskImplements
  <2> QED BY <1>2, <2>2, <2>3, <2>4 DEF Change, Command
<1>3. CASE ShutdownTask(t)
  BY <1>3, ControlTaskImplements DEF ShutdownTask
<1>4. CASE Archive(t)
  <2>1. /\ task'[AnyTask].state = task[AnyTask].state
        /\ task'[AnyTask].enrolled = task[AnyTask].enrolled
    BY <1>4, AnyTaskAssumption DEF Archive, IndInv, TypeOK, TaskRow
  <2> QED BY <1>4, <2>1, NoMove DEF Archive
<1>5. CASE ChangeSession(t)
  BY <1>5, FollowsImplements DEF ChangeSession, Follows, IndInv
<1>6. CASE ClaimReviewText(t)
  BY <1>6, SameRows DEF ClaimReviewText
<1> QED
  BY <1>1, <1>2, <1>3, <1>4, <1>5, <1>6, ReviseRequirementImplements,
     ReviseWhilePausedImplements, RequestValidationImplements, ReviewFeedbackImplements,
     FeedbackVerdictImplements, BlockingImplements, AuthorizeMergeImplements,
     MergedExternallyImplements DEF TaskStep

LEMMA RunnerStepImplements ==
  ASSUME IndInv, NEW r \in Runners, RunnerStep(r)
  PROVE  Implements
<1>1. CASE Complete(r)
  BY <1>1, CompleteImplements
<1>2. CASE Block(r)
  <2>1. CASE Locked(r)
    <3>1. PICK reason \in BlockReasons : BlockRow(runner[r].job, reason)
      BY <1>2, <2>1 DEF Block
    <3>2. reason \in WaitReason \ {"NONE"}
      BY ConstantsAssumption
    <3>3. runner[r].job \in JobIds /\ job[runner[r].job].state \in Executing
          /\ validated' = validated
      BY <1>2, <2>1 DEF Block, IndInv, RunnersOK, Locked
    <3> QED BY <3>1, <3>2, <3>3, BlockRowImplements
  <2>2. CASE ~ Locked(r)
    BY <1>2, <2>2, SameRows DEF Block
  <2> QED BY <2>1, <2>2
<1>3. CASE UNCHANGED <<task, validated>>
  BY <1>3, SameRows
<1> QED BY <1>1, <1>2, <1>3 DEF RunnerStep, Claim, FirstHeartbeat, StartExecution, LoadContext,
               Revoked, FinishPhase, FailPhase, DropResult, RejectResult, Crash

LEMMA NextImplements ==
  ASSUME IndInv, [Next]_vars
  PROVE  Implements
<1>1. ASSUME NEW m \in Teams, CloseTeam(m) \/ OpenTeam(m)
      PROVE  Implements
  BY <1>1, SameRows DEF CloseTeam, OpenTeam
<1>2. ASSUME NEW j \in JobIds, Recover(j)
      PROVE  Implements
  <2>1. "MISSING_CONFIGURATION" \in WaitReason \ {"NONE"}
    BY DEF WaitReason
  <2> QED BY <1>2, <2>1, BlockRowImplements DEF Recover
<1>3. ASSUME NEW j \in JobIds, Expire(j)
      PROVE  Implements
  BY <1>3, SameRows DEF Expire
<1>4. CASE UNCHANGED vars
  BY <1>4, SameRows DEF vars
<1> QED BY <1>1, <1>2, <1>3, <1>4, TaskStepImplements, RunnerStepImplements DEF Next

(* For every task, whatever the others and the workers do, each transaction  *)
(* is one transition of the contract, a pair that some handler makes         *)
(* together, the enrollment, or leaves the row alone.                       *)
THEOREM ImplementsContract == Spec => ImplementsTaskLifecycle
<1>1. Init => Contract!Init
  <2> SUFFICES ASSUME Init PROVE Contract!Init
    OBVIOUS
  <2>1. /\ task[AnyTask].state = NewState /\ task[AnyTask].enrolled = FALSE
        /\ validated[AnyTask] = 0
    BY AnyTaskAssumption DEF Init
  <2>2. Contract!NewState = NewState
    BY DEF NewState, Contract!NewState
  <2> QED BY <2>1, <2>2 DEF Contract!Init
<1>2. Init => IndInv
  BY InitInv
<1>3. IndInv /\ [Next]_vars => IndInv'
  BY NextInv
<1>4. IndInv /\ [Next]_vars => [Contract!Next]_(Contract!lifecycleVars)
  BY NextImplements DEF Implements
<1> QED BY <1>1, <1>2, <1>3, <1>4, PTL DEF Spec, ImplementsTaskLifecycle, Contract!Spec

-----------------------------------------------------------------------------
(* The slots of Teams and of the deployment.                                *)
(* The sets that the limits count are finite, whatever JobIds is.            *)
SlotsInv ==
  /\ CapacityRespected
  /\ \A m \in Teams : IsFiniteSet(Occupied(m))
  /\ IsFiniteSet(ExecutingIn(SlotAction)) /\ IsFiniteSet(ExecutingIn({"RUN_VALIDATION"}))

(* No job starts to execute; those that go on keep their task and action.    *)
NothingStarts ==
  \A i \in JobIds : job'[i].state \in Executing =>
    /\ job[i].state \in Executing
    /\ job'[i].action = job[i].action
    /\ job'[i].task = job[i].task

(* Counting.                                                               *)
LEMMA OneMoreFits ==
  ASSUME NEW S, IsFiniteSet(S), NEW T, NEW x, T \subseteq S \cup {x},
         NEW n \in Nat, Cardinality(S) < n
  PROVE  IsFiniteSet(T) /\ Cardinality(T) <= n
<1>1. /\ IsFiniteSet(S \cup {x})
      /\ Cardinality(S \cup {x}) = IF x \in S THEN Cardinality(S) ELSE Cardinality(S) + 1
  BY FS_AddElement
<1>2. IsFiniteSet(T) /\ Cardinality(T) <= Cardinality(S \cup {x})
  BY <1>1, FS_Subset
<1>3. Cardinality(S) \in Nat /\ Cardinality(T) \in Nat
  BY <1>2, FS_CardinalityType
<1> QED BY <1>1, <1>2, <1>3

LEMMA FewerFit ==
  ASSUME NEW S, IsFiniteSet(S), NEW T, T \subseteq S, NEW n \in Nat, Cardinality(S) <= n
  PROVE  IsFiniteSet(T) /\ Cardinality(T) <= n
<1>1. IsFiniteSet(T) /\ Cardinality(T) <= Cardinality(S)
  BY FS_Subset
<1>2. Cardinality(S) \in Nat /\ Cardinality(T) \in Nat
  BY <1>1, FS_CardinalityType
<1> QED BY <1>1, <1>2

LEMMA SlotsKept ==
  ASSUME SlotsInv, NothingStarts
  PROVE  SlotsInv'
<1>1. ASSUME NEW m \in Teams
      PROVE  IsFiniteSet(Occupied(m)') /\ Cardinality(Occupied(m)') <= Capacity[m]
  <2>1. Occupied(m)' \subseteq Occupied(m)
    BY DEF NothingStarts, Occupied, BusyWith
  <2> QED BY <2>1, FewerFit, ConstantsAssumption DEF SlotsInv, CapacityRespected
<1>2. /\ IsFiniteSet(ExecutingIn(SlotAction)')
      /\ Cardinality(ExecutingIn(SlotAction)') <= DeveloperSlots
  <2>1. ExecutingIn(SlotAction)' \subseteq ExecutingIn(SlotAction)
    BY DEF NothingStarts, ExecutingIn
  <2> QED BY <2>1, FewerFit, ConstantsAssumption DEF SlotsInv, CapacityRespected
<1>3. /\ IsFiniteSet(ExecutingIn({"RUN_VALIDATION"})')
      /\ Cardinality(ExecutingIn({"RUN_VALIDATION"})') <= ValidationSlots
  <2>1. ExecutingIn({"RUN_VALIDATION"})' \subseteq ExecutingIn({"RUN_VALIDATION"})
    BY DEF NothingStarts, ExecutingIn
  <2> QED BY <2>1, FewerFit, ConstantsAssumption DEF SlotsInv, CapacityRespected
<1> QED BY <1>1, <1>2, <1>3 DEF SlotsInv, CapacityRespected

(* claim_next_job() counts before it claims, under the admission lock.       *)
LEMMA ClaimFits ==
  ASSUME IndInv, SlotsInv, NEW r \in Runners, NEW j \in JobIds, Claim(r, j)
  PROVE  SlotsInv'
<1> DEFINE t == job[j].task
<1>1. /\ Claimable(j) /\ job' = [job EXCEPT ![j].state = "CLAIMED", ![j].token = r]
      /\ job \in [JobIds -> JobRow] /\ TypeOK
  BY DEF Claim, IndInv, TypeOK
<1>2. /\ job'[j].state = "CLAIMED" /\ job'[j].action = job[j].action /\ job'[j].task = t
      /\ \A i \in JobIds \ {j} : job'[i] = job[i]
  BY <1>1 DEF JobRow
<1>3. t \in Tasks /\ TeamOf[t] \in Teams
  BY <1>1, ConstantsAssumption DEF IndInv, LiveHaveTask, LiveState, Claimable
<1>4. ASSUME NEW m \in Teams
      PROVE  IsFiniteSet(Occupied(m)') /\ Cardinality(Occupied(m)') <= Capacity[m]
  <2>1. Capacity[m] \in Nat /\ IsFiniteSet(Occupied(m)) /\ Cardinality(Occupied(m)) <= Capacity[m]
    BY ConstantsAssumption DEF SlotsInv, CapacityRespected
  <2>2. CASE m = TeamOf[t] /\ job[j].action \in SlotAction
    <3>1. Cardinality(Occupied(m)) < Capacity[m]
      BY <1>1, <2>2 DEF Claimable
    <3>2. Occupied(m)' \subseteq Occupied(m) \cup {t}
      BY <1>2 DEF Occupied, BusyWith
    <3> HIDE DEF t
    <3> QED BY <2>1, <3>1, <3>2, OneMoreFits
  <2>3. CASE ~ (m = TeamOf[t] /\ job[j].action \in SlotAction)
    <3>1. Occupied(m)' \subseteq Occupied(m)
      BY <1>2, <2>3 DEF Occupied, BusyWith
    <3> QED BY <2>1, <3>1, FewerFit
  <2> QED BY <2>2, <2>3
<1>5. IsFiniteSet(ExecutingIn(SlotAction)')
      /\ Cardinality(ExecutingIn(SlotAction)') <= DeveloperSlots
  <2>1. /\ DeveloperSlots \in Nat /\ IsFiniteSet(ExecutingIn(SlotAction))
        /\ Cardinality(ExecutingIn(SlotAction)) <= DeveloperSlots
    BY ConstantsAssumption DEF SlotsInv, CapacityRespected
  <2>2. CASE job[j].action \in SlotAction
    <3>1. Cardinality(ExecutingIn(SlotAction)) < DeveloperSlots
      BY <1>1, <2>2 DEF Claimable
    <3>2. ExecutingIn(SlotAction)' \subseteq ExecutingIn(SlotAction) \cup {j}
      BY <1>2 DEF ExecutingIn
    <3> QED BY <2>1, <3>1, <3>2, OneMoreFits
  <2>3. CASE job[j].action \notin SlotAction
    <3>1. ExecutingIn(SlotAction)' \subseteq ExecutingIn(SlotAction)
      BY <1>2, <2>3 DEF ExecutingIn
    <3> QED BY <2>1, <3>1, FewerFit
  <2> QED BY <2>2, <2>3
<1>6. IsFiniteSet(ExecutingIn({"RUN_VALIDATION"})')
      /\ Cardinality(ExecutingIn({"RUN_VALIDATION"})') <= ValidationSlots
  <2>1. /\ ValidationSlots \in Nat /\ IsFiniteSet(ExecutingIn({"RUN_VALIDATION"}))
        /\ Cardinality(ExecutingIn({"RUN_VALIDATION"})) <= ValidationSlots
    BY ConstantsAssumption DEF SlotsInv, CapacityRespected
  <2>2. CASE job[j].action = "RUN_VALIDATION"
    <3>1. Cardinality(ExecutingIn({"RUN_VALIDATION"})) < ValidationSlots
      BY <1>1, <2>2 DEF Claimable
    <3>2. ExecutingIn({"RUN_VALIDATION"})' \subseteq ExecutingIn({"RUN_VALIDATION"}) \cup {j}
      BY <1>2 DEF ExecutingIn
    <3> QED BY <2>1, <3>1, <3>2, OneMoreFits
  <2>3. CASE job[j].action # "RUN_VALIDATION"
    <3>1. ExecutingIn({"RUN_VALIDATION"})' \subseteq ExecutingIn({"RUN_VALIDATION"})
      BY <1>2, <2>3 DEF ExecutingIn
    <3> QED BY <2>1, <3>1, FewerFit
  <2> QED BY <2>2, <2>3
<1> QED BY <1>4, <1>5, <1>6 DEF SlotsInv, CapacityRespected

(* Queueing a phase and closing rows start nothing.                         *)
Tame(jobs) ==
  /\ DOMAIN jobs = JobIds
  /\ \A i \in JobIds : jobs[i].state \in Executing =>
       /\ job[i].state \in Executing
       /\ jobs[i].action = job[i].action
       /\ jobs[i].task = job[i].task

LEMMA EnqueueTame ==
  ASSUME NEW jobs, Tame(jobs), NEW t, NEW s, NEW version,
         job' = EnqueuePhase(jobs, t, s, version) \/ job' = jobs
  PROVE  NothingStarts
<1> DEFINE new == [state |-> "QUEUED", task |-> t, action |-> PhaseOf(s.stage),
                   version |-> version, token |-> NoRunner, expired |-> FALSE]
<1>1. "QUEUED" \notin Executing /\ new.state = "QUEUED"
  BY DEF Executing
<1>2. job' = [jobs EXCEPT ![Fresh] = new] \/ job' = jobs
  BY DEF EnqueuePhase
<1> HIDE DEF new
<1>3. \A i \in JobIds : job'[i] = jobs[i] \/ job'[i] = new
  BY <1>2 DEF Tame
<1> QED BY <1>1, <1>3 DEF Tame, NothingStarts

LEMMA TameOK ==
  ASSUME IndInv, NEW t
  PROVE  /\ Tame(job) /\ Tame(CancelJobs(job, t)) /\ Tame(CancelQueued(job, t))
         /\ \A j : Tame([job EXCEPT ![j] = Closed])
<1>1. job \in [JobIds -> JobRow] /\ Closed.state \notin Executing
  BY ClosedOK DEF IndInv, TypeOK, Executing
<1> QED BY <1>1 DEF Tame, CancelJobs, CancelQueued

LEMMA ControlTaskTame ==
  ASSUME IndInv, NEW t, NEW a, ControlTask(t, a)
  PROVE  NothingStarts
BY TameOK, EnqueueTame DEF ControlTask

LEMMA TaskStepTame ==
  ASSUME IndInv, NEW t \in Tasks, TaskStep(t)
  PROVE  NothingStarts
<1>1. CASE RequestExecution(t)
  BY <1>1, TameOK, EnqueueTame DEF RequestExecution, Enroll, RefuseEnrollment
<1>2. ASSUME NEW a \in Commands, Change(t, a) \/ Command(t, a)
      PROVE  NothingStarts
  BY <1>2, ControlTaskTame, TameOK, EnqueueTame DEF Change, Command, Enroll, ResumeNew
<1>3. CASE Archive(t) \/ ReviseWhilePaused(t) \/ ChangeSession(t) \/ HeadChanged(t)
           \/ MergedExternally(t) \/ ClaimReviewText(t) \/ ApplyUnknownVerdict(t)
  BY <1>3 DEF NothingStarts, Archive, ReviseWhilePaused, ChangeSession, HeadChanged,
              MergedExternally, ClaimReviewText, ApplyUnknownVerdict
<1>4. CASE ReviseRequirement(t) \/ RequestValidation(t) \/ ReviewFeedback(t)
           \/ AuthorizeMerge(t) \/ ApplyFeedbackVerdict(t)
  BY <1>4, TameOK, EnqueueTame DEF ReviseRequirement, RequestValidation, ReviewFeedback,
     AuthorizeMerge, ApplyFeedbackVerdict
<1>5. CASE ShutdownTask(t)
  BY <1>5, ControlTaskTame DEF ShutdownTask
<1> QED BY <1>1, <1>2, <1>3, <1>4, <1>5 DEF TaskStep

LEMMA RenewTame ==
  ASSUME IndInv, NEW r \in Runners, runner[r].pc # "idle", HeartbeatOk(r), Renew(r)
  PROVE  NothingStarts
<1> DEFINE j == runner[r].job
<1>1. j \in JobIds /\ job \in [JobIds -> JobRow] /\ job[j].state \in Executing
  BY DEF IndInv, RunnersOK, TypeOK, HeartbeatOk, Locked
<1>2. /\ job'[j].task = job[j].task /\ job'[j].action = job[j].action
      /\ \A i \in JobIds \ {j} : job'[i] = job[i]
  BY <1>1 DEF Renew, JobRow
<1> QED BY <1>1, <1>2 DEF NothingStarts

LEMMA RunnerStepTame ==
  ASSUME IndInv, NEW r \in Runners, RunnerStep(r), ~ \E j \in JobIds : Claim(r, j)
  PROVE  NothingStarts
<1>1. CASE FirstHeartbeat(r) \/ StartExecution(r)
  BY <1>1, RenewTame DEF FirstHeartbeat, StartExecution, NothingStarts
<1>2. CASE UNCHANGED job
  BY <1>2 DEF NothingStarts
<1>3. CASE Complete(r)
  BY <1>3, TameOK, EnqueueTame DEF Complete
<1>4. CASE Block(r)
  BY <1>4, TameOK, EnqueueTame DEF Block, BlockRow, NothingStarts
<1> QED BY <1>1, <1>2, <1>3, <1>4 DEF RunnerStep, LoadContext, Revoked, FinishPhase, FailPhase,
               DropResult, RejectResult, Crash

LEMMA NextFits ==
  ASSUME IndInv, SlotsInv, [Next]_vars
  PROVE  SlotsInv'
<1>1. ASSUME NEW r \in Runners, RunnerStep(r)
      PROVE  SlotsInv'
  BY <1>1, ClaimFits, RunnerStepTame, SlotsKept
<1>2. ASSUME NEW j \in JobIds, Expire(j) \/ Recover(j)
      PROVE  SlotsInv'
  <2>1. CASE Expire(j)
    <3>1. \A i \in JobIds : /\ job'[i].state = job[i].state
                            /\ job'[i].action = job[i].action
                            /\ job'[i].task = job[i].task
      BY <2>1 DEF Expire, IndInv, TypeOK, JobRow
    <3> QED BY <3>1, SlotsKept DEF NothingStarts
  <2>2. CASE Recover(j)
    BY <2>2, TameOK, EnqueueTame, SlotsKept DEF Recover, BlockRow
  <2> QED BY <1>2, <2>1, <2>2
<1>3. CASE UNCHANGED job
  BY <1>3, SlotsKept DEF NothingStarts
<1> QED BY <1>1, <1>2, <1>3, TaskStepTame, SlotsKept DEF Next, CloseTeam, OpenTeam, vars

(* For any number of Teams, workers and tasks, the slots of a Team and those *)
(* that all controllers share are never exceeded.                           *)
THEOREM SlotsAreRespected == Spec => []CapacityRespected
<1>1. Init => IndInv /\ SlotsInv
  <2> SUFFICES ASSUME Init PROVE SlotsInv
    BY InitInv
  <2>1. \A j \in JobIds : job[j].state \notin Executing
    BY DEF Init, NoJob, Executing
  <2>2. /\ \A m \in Teams : Occupied(m) = {}
        /\ ExecutingIn(SlotAction) = {} /\ ExecutingIn({"RUN_VALIDATION"}) = {}
    BY <2>1 DEF Occupied, BusyWith, ExecutingIn
  <2>3. IsFiniteSet({}) /\ Cardinality({}) = 0
    BY FS_EmptySet
  <2>4. DeveloperSlots \in Nat /\ ValidationSlots \in Nat /\ \A m \in Teams : Capacity[m] \in Nat
    BY ConstantsAssumption
  <2>5. 0 <= DeveloperSlots /\ 0 <= ValidationSlots /\ \A m \in Teams : 0 <= Capacity[m]
    BY <2>4
  <2>6. \A m \in Teams : IsFiniteSet(Occupied(m)) /\ Cardinality(Occupied(m)) <= Capacity[m]
    BY <2>2, <2>3, <2>5
  <2>7. /\ IsFiniteSet(ExecutingIn(SlotAction))
        /\ Cardinality(ExecutingIn(SlotAction)) <= DeveloperSlots
        /\ IsFiniteSet(ExecutingIn({"RUN_VALIDATION"}))
        /\ Cardinality(ExecutingIn({"RUN_VALIDATION"})) <= ValidationSlots
    BY <2>2, <2>3, <2>5
  <2> QED BY <2>6, <2>7 DEF SlotsInv, CapacityRespected
<1>2. IndInv /\ SlotsInv /\ [Next]_vars => IndInv' /\ SlotsInv'
  BY NextInv, NextFits
<1>3. SlotsInv => CapacityRespected
  BY DEF SlotsInv
<1> QED BY <1>1, <1>2, <1>3, PTL DEF Spec

-----------------------------------------------------------------------------
(* Leases and the requirement they were taken for.                          *)
(* A worker holds nothing while it is idle, its lease is for a version the   *)
(* task has had, and at that version the requirement is the one it loaded.   *)
LeasesInv ==
  \A r \in Runners :
    LET t == runner[r].task
    IN  /\ runner[r].pc = "idle" => t = NoTask
        /\ runner[r].pc # "idle" => runner[r].version <= task[t].version
        /\ runner[r].pc \in {"working", "finished"} /\ runner[r].version = task[t].version =>
             runner[r].req = task[t].state.req

(* The lifecycle version tells whether the row has changed.                  *)
Ages(t) ==
  \/ task'[t].version > task[t].version
  \/ task'[t].version = task[t].version /\ task'[t].state = task[t].state

LEMMA SetStateAges ==
  ASSUME IndInv, NEW t \in Tasks, NEW s, NEW k \in Nat, SetState(t, s, k),
         k = 0 => s = task[t].state
  PROVE  \A u \in Tasks : Ages(u)
<1>1. task \in [Tasks -> TaskRow] /\ task[t].version \in Nat
  BY TaskOK DEF IndInv, TypeOK
<1>2. /\ task'[t].state = s /\ task'[t].version = task[t].version + k
      /\ \A u \in Tasks \ {t} : task'[u] = task[u]
  BY <1>1 DEF SetState, TaskRow
<1> QED BY <1>1, <1>2 DEF Ages

LEMMA SameAges ==
  ASSUME task' = task
  PROVE  \A u \in Tasks : Ages(u)
BY DEF Ages

LEMMA OutcomeSteps ==
  ASSUME NEW s, NEW out \in FeedbackOutcomes(s) \cup {Unfed(s)}
  PROVE  out.steps \in Nat /\ (out.steps = 0 => out.state = s)
<1>1. /\ Unfed(s).steps = 0 /\ Unfed(s).state = s
      /\ Fed(s).steps = 1 /\ Oversized(s).steps = 1
  BY DEF Unfed, Fed, Oversized
<1> QED BY <1>1 DEF FeedbackOutcomes

LEMMA ControlTaskAges ==
  ASSUME IndInv, NEW t \in Tasks, NEW a, ControlTask(t, a)
  PROVE  \A u \in Tasks : Ages(u)
<1> DEFINE moved == Transition(task[t].state, a, "NONE", FALSE)
<1>1. PICK out \in FeedbackOutcomes(moved) \cup {Unfed(moved)} :
        SetState(t, out.state, 1 + out.steps)
  BY DEF ControlTask
<1> HIDE DEF moved
<1>2. out.steps \in Nat
  BY <1>1, OutcomeSteps
<1>3. 1 + out.steps \in Nat /\ 1 + out.steps # 0
  BY <1>2
<1> QED BY <1>1, <1>3, SetStateAges

LEMMA TaskStepAges ==
  ASSUME IndInv, NEW t \in Tasks, TaskStep(t)
  PROVE  \A u \in Tasks : Ages(u)
<1>1. CASE Enroll(t)
  <2>1. task \in [Tasks -> TaskRow] /\ task[t].version \in Nat
    BY TaskOK DEF IndInv, TypeOK
  <2>2. /\ task'[t].version = task[t].version + 1
        /\ \A u \in Tasks \ {t} : task'[u] = task[u]
    BY <1>1, <2>1 DEF Enroll, TaskRow
  <2> QED BY <2>1, <2>2 DEF Ages
<1>2. CASE RefuseEnrollment(t) \/ ReviseRequirement(t) \/ ReviseWhilePaused(t) \/ ChangeSession(t)
           \/ HeadChanged(t) \/ MergedExternally(t) \/ AuthorizeMerge(t) \/ ApplyUnknownVerdict(t)
           \/ ReviewFeedback(t)
  <2>1. \E k \in {1, 2} : \E s : SetState(t, s, k)
    BY <1>2 DEF RefuseEnrollment, ReviseRequirement, ReviseWhilePaused, ChangeSession,
       HeadChanged, MergedExternally, AuthorizeMerge, ApplyUnknownVerdict, ReviewFeedback
  <2> QED BY <2>1, SetStateAges
<1>3. ASSUME NEW a \in Commands, Change(t, a) \/ Command(t, a)
      PROVE  \A u \in Tasks : Ages(u)
  BY <1>1, <1>3, ControlTaskAges, SameAges DEF Change, Command, ResumeNew
<1>4. CASE Archive(t)
  BY <1>4 DEF Ages, Archive, IndInv, TypeOK, TaskRow
<1>5. CASE RequestValidation(t)
  <2>1. SetState(t, task[t].state, 0) \/ \E s : SetState(t, s, 1)
    BY <1>5 DEF RequestValidation
  <2> QED BY <2>1, SetStateAges
<1>6. CASE ApplyFeedbackVerdict(t)
  <2>1. PICK out \in FeedbackOutcomes(task[t].state) : SetState(t, out.state, out.steps)
    BY <1>6 DEF ApplyFeedbackVerdict
  <2> QED BY <2>1, OutcomeSteps, SetStateAges
<1>7. CASE ShutdownTask(t)
  BY <1>7, ControlTaskAges DEF ShutdownTask
<1>8. CASE ClaimReviewText(t)
  BY <1>8, SameAges DEF ClaimReviewText
<1> QED BY <1>1, <1>2, <1>3, <1>4, <1>5, <1>6, <1>7, <1>8 DEF TaskStep, RequestExecution

LEMMA BlockRowAges ==
  ASSUME IndInv, NEW j, job[j].task \in Tasks, NEW reason, BlockRow(j, reason)
  PROVE  \A u \in Tasks : Ages(u)
<1> DEFINE t == job[j].task
<1>1. task' = task \/ \E s : SetState(t, s, 1)
  BY DEF BlockRow
<1> HIDE DEF t
<1> QED BY <1>1, SetStateAges, SameAges DEF t

LEMMA RunnerStepAges ==
  ASSUME IndInv, NEW r \in Runners, RunnerStep(r)
  PROVE  \A u \in Tasks : Ages(u)
<1>1. CASE Complete(r)
  <2> DEFINE t     == runner[r].task
             moved == Transition(task[t].state, runner[r].result, "NONE", FALSE)
  <2>1. PICK out \in FeedbackOutcomes(moved) \cup {Unfed(moved)} :
          SetState(t, out.state, 1 + out.steps)
    BY <1>1 DEF Complete
  <2>2. t \in Tasks
    BY <1>1 DEF Complete, IndInv, RunnersOK
  <2> HIDE DEF moved, t
  <2>3. out.steps \in Nat
    BY <2>1, OutcomeSteps
  <2>4. 1 + out.steps \in Nat /\ 1 + out.steps # 0
    BY <2>3
  <2> QED BY <2>1, <2>2, <2>4, SetStateAges
<1>2. CASE Block(r)
  <2>1. CASE Locked(r)
    <3>1. job[runner[r].job].task \in Tasks
      BY <1>2, <2>1 DEF Block, Locked, IndInv, RunnersOK
    <3> QED BY <1>2, <2>1, <3>1, BlockRowAges DEF Block
  <2>2. CASE ~ Locked(r)
    BY <1>2, <2>2, SameAges DEF Block
  <2> QED BY <2>1, <2>2
<1>3. CASE UNCHANGED task
  BY <1>3, SameAges
<1> QED BY <1>1, <1>2, <1>3 DEF RunnerStep, Claim, FirstHeartbeat, StartExecution, LoadContext,
               Revoked, FinishPhase, FailPhase, DropResult, RejectResult, Crash

LEMMA NextAges ==
  ASSUME IndInv, Next
  PROVE  \A u \in Tasks : Ages(u)
<1>1. ASSUME NEW j \in JobIds, Expire(j) \/ Recover(j)
      PROVE  \A u \in Tasks : Ages(u)
  <2>1. CASE Recover(j)
    <3>1. job[j].task \in Tasks
      BY <2>1 DEF Recover, IndInv, LiveHaveTask, LiveState
    <3> QED BY <2>1, <3>1, BlockRowAges DEF Recover
  <2>2. CASE Expire(j)
    BY <2>2, SameAges DEF Expire
  <2> QED BY <1>1, <2>1, <2>2
<1> QED BY <1>1, TaskStepAges, RunnerStepAges, SameAges DEF Next, CloseTeam, OpenTeam

(* A worker's memory changes only by its own step.                           *)
LEMMA LeasesKept ==
  ASSUME IndInv, LeasesInv, \A u \in Tasks : Ages(u), TypeOK',
         NEW r \in Runners, runner'[r] = runner[r]
  PROVE  LET t == runner'[r].task
         IN  /\ runner'[r].pc = "idle" => t = NoTask
             /\ runner'[r].pc # "idle" => runner'[r].version <= task'[t].version
             /\ runner'[r].pc \in {"working", "finished"} /\ runner'[r].version = task'[t].version
                  => runner'[r].req = task'[t].state.req
<1>1. CASE runner[r].pc = "idle"
  BY <1>1 DEF LeasesInv
<1>2. CASE runner[r].pc # "idle"
  <2> DEFINE t == runner[r].task
  <2>1. t \in Tasks /\ Ages(t) /\ runner[r].version <= task[t].version
    BY <1>2 DEF IndInv, RunnersOK, LeasesInv
  <2>2. task[t].version \in Nat /\ task'[t].version \in Nat /\ runner[r].version \in Nat
    BY <2>1 DEF IndInv, TypeOK, TaskRow, RunnerState
  <2> QED BY <1>2, <2>1, <2>2 DEF Ages, LeasesInv
<1> QED BY <1>1, <1>2

LEMMA ForgetKeepsLeases ==
  ASSUME IndInv, LeasesInv, \A u \in Tasks : Ages(u), IndInv', NEW r \in Runners,
         runner' = [runner EXCEPT ![r] = Idle] \/ runner' = runner
  PROVE  LeasesInv'
<1>1. Idle.pc = "idle" /\ Idle.task = NoTask
  BY DEF Idle
<1>2. \A q \in Runners : runner'[q] = runner[q] \/ runner'[q] = Idle
  BY DEF IndInv, TypeOK
<1> QED BY <1>1, <1>2, LeasesKept DEF LeasesInv, IndInv

(* A worker goes on with its lease: it learns nothing new of its task.       *)
LEMMA SetPCKeepsLeases ==
  ASSUME IndInv, LeasesInv, task' = task, IndInv', NEW r \in Runners,
         runner[r].pc # "idle", NEW pc \in PC \ {"idle"}, SetPC(r, pc),
         pc = "finished" => runner[r].pc \in {"working", "finished"}, pc # "working"
  PROVE  LeasesInv'
<1>1. /\ runner'[r].pc = pc /\ runner'[r].task = runner[r].task
      /\ runner'[r].version = runner[r].version /\ runner'[r].req = runner[r].req
      /\ \A q \in Runners \ {r} : runner'[q] = runner[q]
  BY DEF IndInv, TypeOK, SetPC, RunnerState
<1> QED BY <1>1 DEF LeasesInv

LEMMA RunnerStepLeases ==
  ASSUME IndInv, LeasesInv, IndInv', NEW r \in Runners, RunnerStep(r)
  PROVE  LeasesInv'
<1>1. \A u \in Tasks : Ages(u)
  BY RunnerStepAges
<1>2. runner \in [Runners -> RunnerState]
  BY DEF IndInv, TypeOK
<1>3. ASSUME NEW j \in JobIds, Claim(r, j)
      PROVE  LeasesInv'
  <2> DEFINE t == job[j].task
  <2>1. /\ runner'[r].pc = "claimed" /\ runner'[r].task = t
        /\ runner'[r].version = job[j].version /\ task' = task
        /\ \A q \in Runners \ {r} : runner'[q] = runner[q]
    BY <1>2, <1>3 DEF Claim
  <2>2. t \in Tasks /\ j \in Live(job, t) /\ task[t].state.status \in Runnable
    BY <1>3 DEF Claim, Claimable, IndInv, LiveHaveTask, LiveState, Live
  <2>3. job[j].version = task[t].version /\ task[t].version \in Nat
    BY <2>2 DEF IndInv, RowsOK, JobsOK, TypeOK, TaskRow
  <2>4. runner'[r].version <= task[t].version
    BY <2>1, <2>3
  <2> QED BY <2>1, <2>4 DEF LeasesInv
<1>4. CASE FirstHeartbeat(r) \/ StartExecution(r) \/ Revoked(r) \/ FailPhase(r) \/ RejectResult(r)
  <2>1. task' = task /\ runner[r].pc # "idle"
    BY <1>4 DEF FirstHeartbeat, StartExecution, Revoked, FailPhase, RejectResult
  <2>2. \/ \E pc \in {"leased", "stale", "starting", "failing"} : SetPC(r, pc)
        \/ runner' = [runner EXCEPT ![r] = Idle]
    BY <1>4 DEF FirstHeartbeat, StartExecution, Revoked, FailPhase, RejectResult
  <2> QED BY <1>1, <2>1, <2>2, SetPCKeepsLeases, ForgetKeepsLeases DEF PC
<1>5. CASE LoadContext(r)
  <2>1. /\ runner[r].pc = "starting" /\ task' = task
        /\ runner'[r].task = runner[r].task /\ runner'[r].version = runner[r].version
        /\ \/ runner'[r].pc = "working" /\ runner'[r].req = task[runner[r].task].state.req
           \/ runner'[r].pc = "failing"
        /\ \A q \in Runners \ {r} : runner'[q] = runner[q]
    BY <1>2, <1>5 DEF LoadContext, RunnerState
  <2> QED BY <2>1 DEF LeasesInv
<1>6. CASE FinishPhase(r)
  <2>1. /\ runner[r].pc = "working" /\ task' = task
        /\ runner'[r].task = runner[r].task /\ runner'[r].version = runner[r].version
        /\ runner'[r].pc = "finished" /\ runner'[r].req = runner[r].req
        /\ \A q \in Runners \ {r} : runner'[q] = runner[q]
    BY <1>2, <1>6 DEF FinishPhase, RunnerState
  <2> QED BY <2>1 DEF LeasesInv
<1>7. CASE Complete(r) \/ DropResult(r) \/ Block(r) \/ Crash(r)
  BY <1>1, <1>7, ForgetKeepsLeases DEF Complete, DropResult, Block, Crash
<1> QED BY <1>3, <1>4, <1>5, <1>6, <1>7 DEF RunnerStep

(* No command reaches into a worker.                                        *)
LEMMA CommandsKeepRunners ==
  ASSUME NEW t \in Tasks, TaskStep(t)
  PROVE  runner' = runner
<1>1. ASSUME NEW a, ControlTask(t, a)
      PROVE  runner' = runner
  BY <1>1 DEF ControlTask
<1>2. CASE RequestExecution(t)
  BY <1>2 DEF RequestExecution, Enroll, RefuseEnrollment
<1>3. ASSUME NEW a \in Commands, Change(t, a) \/ Command(t, a)
      PROVE  runner' = runner
  BY <1>1, <1>3 DEF Change, Command, Enroll, ResumeNew
<1>4. CASE ShutdownTask(t)
  BY <1>1, <1>4 DEF ShutdownTask
<1>5. CASE ReviseRequirement(t) \/ ReviseWhilePaused(t) \/ ChangeSession(t)
           \/ RequestValidation(t) \/ Archive(t)
  BY <1>5 DEF ReviseRequirement, ReviseWhilePaused, ChangeSession, RequestValidation, Archive
<1>6. CASE ReviewFeedback(t) \/ HeadChanged(t) \/ MergedExternally(t) \/ AuthorizeMerge(t)
           \/ ClaimReviewText(t) \/ ApplyFeedbackVerdict(t) \/ ApplyUnknownVerdict(t)
  BY <1>6 DEF ReviewFeedback, HeadChanged, MergedExternally, AuthorizeMerge, ClaimReviewText,
              ApplyFeedbackVerdict, ApplyUnknownVerdict
<1> QED BY <1>2, <1>3, <1>4, <1>5, <1>6 DEF TaskStep

LEMMA NextLeases ==
  ASSUME IndInv, LeasesInv, IndInv', [Next]_vars
  PROVE  LeasesInv'
<1>1. ASSUME ~ \E r \in Runners : RunnerStep(r)
      PROVE  LeasesInv'
  <2>1. runner' = runner
    BY <1>1, CommandsKeepRunners DEF Next, CloseTeam, OpenTeam, Expire, Recover, vars
  <2>2. \A u \in Tasks : Ages(u)
    BY NextAges, SameAges DEF vars
  <2>3. TypeOK'
    BY DEF IndInv
  <2> QED BY <2>1, <2>2, <2>3, LeasesKept DEF LeasesInv
<1> QED BY <1>1, RunnerStepLeases

(* A row carries one token, and a task has one live job: two workers cannot  *)
(* both hold it.                                                            *)
LEMMA OneHolder ==
  ASSUME IndInv, LeasesInv, NEW r \in Runners, NEW q \in Runners,
         runner[r].task \in Tasks, runner[q].task = runner[r].task, Locked(r), Locked(q)
  PROVE  q = r
<1>1. runner[q].pc # "idle" /\ runner[r].pc # "idle"
  BY ConstantsAssumption DEF LeasesInv
<1>2. runner[q].job \in Live(job, runner[r].task) /\ runner[r].job \in Live(job, runner[r].task)
  BY <1>1 DEF IndInv, RunnersOK, Locked, Live, LiveState
<1>3. runner[q].job = runner[r].job
  BY <1>2 DEF IndInv, RowsOK, JobsOK
<1> QED BY <1>3 DEF Locked

(* Only complete() moves a task while its own worker forgets a result.        *)
LEMMA OnlyComplete ==
  ASSUME IndInv, [Next]_vars, NEW r \in Runners, runner[r].pc = "finished",
         task' # task, runner'[r] # runner[r]
  PROVE  Complete(r)
<1>1. PICK q \in Runners : RunnerStep(q)
  BY CommandsKeepRunners DEF Next, CloseTeam, OpenTeam, Expire, Recover, vars
<1>2. runner \in [Runners -> RunnerState]
  BY DEF IndInv, TypeOK
<1>3. CASE Complete(q)
  BY <1>2, <1>3 DEF Complete
<1>4. CASE Block(q)
  <2>1. runner' = [runner EXCEPT ![q] = Idle] /\ runner[q].pc # "finished"
    BY <1>4 DEF Block
  <2> QED BY <1>2, <2>1
<1>5. CASE UNCHANGED task
  BY <1>5
<1> QED BY <1>1, <1>3, <1>4, <1>5 DEF RunnerStep, Claim, FirstHeartbeat, StartExecution,
               LoadContext, Revoked, FinishPhase, FailPhase, DropResult, RejectResult, Crash

(* A result that complete() applies fits the requirement that is stored, on  *)
(* a runnable task that nobody else holds.                                  *)
THEOREM NoStaleResult == Spec => ResultsFitTheirRequirement
<1> DEFINE Fits(r) ==
      LET t == runner[r].task
      IN  (runner[r].pc = "finished" /\ task' # task /\ runner'[r] # runner[r]) =>
            /\ runner[r].req = task[t].state.req
            /\ task[t].state.status \in Runnable
            /\ \A q \in Runners \ {r} : runner[q].task = t => ~ Locked(q)
<1>1. Init => IndInv /\ LeasesInv
  <2> SUFFICES ASSUME Init PROVE LeasesInv
    BY InitInv
  <2>1. Idle.pc = "idle" /\ Idle.task = NoTask
    BY DEF Idle
  <2> QED BY <2>1 DEF Init, LeasesInv
<1>2. IndInv /\ LeasesInv /\ [Next]_vars => IndInv' /\ LeasesInv'
  BY NextInv, NextLeases
<1>3. IndInv /\ LeasesInv /\ [Next]_vars => \A r \in Runners : Fits(r)
  <2> SUFFICES ASSUME IndInv, LeasesInv, [Next]_vars, NEW r \in Runners,
                      runner[r].pc = "finished", task' # task, runner'[r] # runner[r]
               PROVE  LET t == runner[r].task
                      IN  /\ runner[r].req = task[t].state.req
                          /\ task[t].state.status \in Runnable
                          /\ \A q \in Runners \ {r} : runner[q].task = t => ~ Locked(q)
    OBVIOUS
  <2>1. MayComplete(r)
    BY OnlyComplete DEF Complete
  <2>2. runner[r].task \in Tasks
    BY DEF IndInv, RunnersOK
  <2>3. runner[r].req = task[runner[r].task].state.req
    BY <2>1 DEF MayComplete, LeasesInv
  <2>4. \A q \in Runners \ {r} : runner[q].task = runner[r].task => ~ Locked(q)
    BY <2>1, <2>2, OneHolder DEF MayComplete
  <2> QED BY <2>1, <2>3, <2>4 DEF MayComplete
<1>4. IndInv /\ LeasesInv /\ [Next]_vars =>
        [\A r \in Runners :
           LET t == runner[r].task
           IN  (runner[r].pc = "finished" /\ task' # task /\ runner'[r] # runner[r]) =>
                 /\ runner[r].req = task[t].state.req
                 /\ task[t].state.status \in Runnable
                 /\ \A q \in Runners \ {r} : runner[q].task = t => ~ Locked(q)]_vars
  BY <1>3
<1> QED BY <1>1, <1>2, <1>4, PTL DEF Spec, ResultsFitTheirRequirement
=============================================================================
