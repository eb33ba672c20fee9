------------------------------ MODULE Sessions ------------------------------
(***************************************************************************)
(* The Developer's session of one task over many turns: what a turn is     *)
(* told, which native thread it is told on, and what its receipt settles.  *)
(* Sources: engineering/application/{development_control, develop,         *)
(* developer_failures}, engineering/infrastructure/{executor,              *)
(* developer_request, phase_context}, agent_runtime/infrastructure/        *)
(* {accounting, repair_generation, bounded_recovery, token_efficiency,     *)
(* sessions, phase_mounts}.  The harness is one that can resume and        *)
(* compact (codex, claude).  A change request is a number: the deltas a    *)
(* prompt carries are a set, and next_feedback is one too.                 *)
(***************************************************************************)
EXTENDS Integers, Sequences, FiniteSets

CONSTANTS
  MaxRollovers,  \* token_policy.max_rollovers
  Automatic,     \* token_policy: ENFORCE with automatic_rollover
  Compaction,    \* compact_before_feedback_tokens is set; max_compactions is 1
  MaxDeltas, MaxThreads \* bounds: change requests and threads of the task

ASSUME SessionsAssumption ==
  /\ MaxRollovers \in Nat /\ MaxDeltas \in Nat /\ MaxThreads \in Nat
  /\ Automatic \in BOOLEAN /\ Compaction \in BOOLEAN

VARIABLES
  devTask,   \* the Task row (HELD: PAUSED or WAITING_HUMAN; ACTIVE: it has a job)
             \* and the deltas its requirement carries
  session,   \* the newest DeveloperSession row, with its checkpoint
  contexts,  \* DeveloperContextGeneration rows
  lastRun,   \* the newest Developer AIRun
  lease,     \* the execution that holds, or held, the job's lease
  adrift,    \* a turn whose lease is revoked, still in flight beside the next
  newest,    \* change requests so far
  threads    \* native threads so far

sessionVars == <<devTask, session, contexts, lastRun, lease, adrift, newest, threads>>

NoThread == 0
NoRollover == [made |-> FALSE, version |-> 0, deltas |-> {}]
NoLease == [pc |-> "idle", live |-> FALSE, todo |-> <<>>, dirs |-> {}, prepared |-> FALSE,
            bounded |-> FALSE, view |-> <<>>, version |-> 0, asked |-> {}, known |-> {}, sent |-> {}]

FreshSession(n) ==
  [number |-> n, id |-> NoThread, state |-> "CREATED", version |-> 1, feedback |-> {},
   packet |-> {}, rollover |-> NoRollover, acked |-> FALSE, pending |-> FALSE,
   handoff |-> FALSE, guidance |-> [version |-> 0, deltas |-> {}], full |-> 0, compacted |-> FALSE,
   bounded |-> FALSE]

SessionsInit ==
  /\ devTask = [stage |-> "DEVELOPING", status |-> "ACTIVE", version |-> 1,
                asked |-> {}, planned |-> 0, repaired |-> FALSE]
  /\ session = FreshSession(1) /\ contexts = <<>> /\ lease = NoLease /\ adrift = NoLease
  /\ lastRun = [status |-> "NONE", code |-> "", version |-> 0, checks |-> "none", settled |-> TRUE]
  /\ newest = 0 /\ threads = 0

-----------------------------------------------------------------------------
(* Helpers.                                                                 *)

Mode == Head(lease.todo)
Idle == lease.pc = "idle"
Develops == devTask.stage \in {"DEVELOPING", "FIXING"}
Settled == lastRun.settled /\ lastRun.status # "RUNNING"
Resting == session.state # "RUNNING"

(* assert_current() and _assert_runnable(): the lease still has the job.    *)
AssertRunnable == lease.live /\ devTask.status = "ACTIVE" /\ Develops

NewDelta == newest < MaxDeltas /\ newest' = newest + 1

Live == {c \in 1..Len(contexts) : contexts[c].of = session.number /\ contexts[c].status = "ACTIVE"}
SealedCount == Cardinality({c \in 1..Len(contexts) : contexts[c].status = "SEALED"})

SealAll == [c \in 1..Len(contexts) |->
              IF c \in Live THEN [contexts[c] EXCEPT !.status = "SEALED"] ELSE contexts[c]]
NewContext(id) == [of |-> session.number, status |-> "ACTIVE", thread |-> id]

(* ensure_generation(): the ACTIVE one, or a new one.                       *)
EnsureGeneration(list) ==
  IF Live # {} THEN list ELSE Append(list, NewContext(session.id))

(* PhaseBlocked, or any other exception of the phase, which stops a task    *)
(* only while the lease is held.                                            *)
Blocks ==
  /\ devTask' = IF lease.live THEN [devTask EXCEPT !.status = "HELD"] ELSE devTask
  /\ lease' = NoLease

(* complete(): the action of the phase moves the task and queues the next   *)
(* phase, if the lease is still held.                                       *)
PhaseEnds(stage) ==
  /\ devTask' = IF lease.live THEN [devTask EXCEPT !.stage = stage] ELSE devTask
  /\ lease' = NoLease

GoesTo(pc) == lease' = [lease EXCEPT !.pc = pc]

(* execute(): the rows as this execution will see them until begin_run().   *)
LoadContext(l, modes, row) ==
  [l EXCEPT !.todo = modes, !.pc = "recover", !.view = row,
            !.version = devTask.version, !.asked = devTask.asked]
Then(modes, row) == lease' = LoadContext(lease, modes \o Tail(lease.todo), row)

-----------------------------------------------------------------------------
(* One execution of the job, and the executions it makes of itself.         *)

Claim ==
  /\ Idle /\ Develops /\ devTask.status = "ACTIVE"
  /\ lease' = LoadContext([NoLease EXCEPT !.live = TRUE], <<"plain">>, session)
  /\ UNCHANGED <<devTask, session, contexts, lastRun, adrift, newest, threads>>

(* The last turn hit its input limit on this requirement and is paid for.   *)
Cut ==
  /\ lastRun.status = "INTERRUPTED" /\ lastRun.code = "TURN_INPUT_LIMIT"
  /\ lastRun.version = devTask.version /\ Settled

(* schedule_candidate_validation(): its checks pass on this very diff.      *)
CandidateReady == AssertRunnable /\ Resting /\ Cut /\ lastRun.checks = "passed"

(* schedule_bounded_repair(): only unused variables are left; once a task.  *)
RepairReady ==
  /\ AssertRunnable /\ Resting /\ Cut /\ lastRun.checks = "lint"
  /\ devTask.stage = "DEVELOPING" /\ ~devTask.repaired

ValidateCandidate ==
  /\ lease.pc \in {"recover", "limit"} /\ CandidateReady
  /\ PhaseEnds("VALIDATING") \* VALIDATE_CANDIDATE
  /\ UNCHANGED <<session, contexts, lastRun, adrift, newest, threads>>

BoundedRepair ==
  /\ lease.pc \in {"recover", "limit"} /\ ~CandidateReady /\ RepairReady /\ NewDelta
  /\ session' = [session EXCEPT !.feedback = {newest'}, !.bounded = TRUE]
  /\ devTask' = [devTask EXCEPT !.repaired = TRUE, !.stage = "FIXING"]
  /\ lease' = NoLease
  /\ UNCHANGED <<contexts, lastRun, adrift, threads>>

MustPrepare ==
  devTask.stage = "FIXING" /\ lease.view.feedback # {} /\ Mode \notin {"compact", "ack"}

(* prepare_repair() ends the context the old thread worked in.              *)
Retired == SealAll

(* Mutant: the packet is built without the deltas.                          *)
PreparedBare ==
  [session EXCEPT !.id = NoThread, !.state = "CREATED", !.packet = {},
     !.rollover = NoRollover, !.acked = FALSE, !.pending = FALSE, !.handoff = FALSE,
     !.full = 0, !.compacted = FALSE, !.bounded = FALSE]

(* prepare_repair(): a fresh thread for this repair, told by a packet; once *)
(* a job, and not when there is no thread to leave.                         *)
Prepared ==
  [session EXCEPT !.id = NoThread, !.state = "CREATED", !.packet = session.feedback,
     !.rollover = NoRollover, !.acked = FALSE, !.pending = FALSE, !.handoff = FALSE,
     !.full = 0, !.compacted = FALSE, !.bounded = FALSE]

PrepareRepair ==
  /\ lease.pc = "recover" /\ ~CandidateReady /\ ~RepairReady /\ MustPrepare
  /\ \/ /\ AssertRunnable /\ (lease.prepared \/ session.id = NoThread)
        /\ lease' = [lease EXCEPT !.pc = "continue", !.view = session]
        /\ UNCHANGED <<devTask, session, contexts>>
     \/ /\ AssertRunnable /\ ~lease.prepared /\ session.id # NoThread /\ Resting /\ Settled
        /\ session' = Prepared /\ contexts' = Retired
        /\ lease' = [lease EXCEPT !.pc = "continue", !.view = session', !.prepared = TRUE,
                                  !.bounded = session.bounded]
        /\ UNCHANGED devTask
     \/ Blocks /\ UNCHANGED <<session, contexts>> \* not stopped, not settled, packet too large
  /\ UNCHANGED <<lastRun, adrift, newest, threads>>

Continues ==
  \/ lease.pc = "continue"
  \/ lease.pc = "recover" /\ ~CandidateReady /\ ~RepairReady /\ ~MustPrepare

(* rollover(): the checkpoint keeps the pending deltas, the context is      *)
(* sealed and a new one waits for its thread.                               *)
RolledOver ==
  [session EXCEPT !.id = NoThread, !.state = "CREATED", !.compacted = FALSE,
     !.rollover = [made |-> TRUE, version |-> devTask.version, deltas |-> session.feedback],
     !.acked = FALSE]

MayRoll == session.id # NoThread /\ Settled /\ Resting /\ SealedCount < MaxRollovers
RollsOver ==
  /\ session' = RolledOver
  /\ contexts' = Append(SealAll, NewContext(NoThread))

AutoRolls(modes) ==
  \/ /\ AssertRunnable /\ MayRoll /\ Automatic /\ lease.version = devTask.version
     /\ RollsOver /\ Then(modes, session') /\ UNCHANGED devTask
  \/ Blocks /\ UNCHANGED <<session, contexts>> \* CHECKPOINT_PERSISTENCE_FAILED

(* continue_session(), whose order decides.  The bounded policy has no      *)
(* automatic rollover.                                                      *)
Unacknowledged == lease.view.rollover.made /\ ~lease.view.acked /\ Mode # "ack"
SoftLimit ==
  /\ Mode \notin {"compact", "ack"} /\ lease.view.id # NoThread /\ lease.view.feedback # {}
  /\ Automatic /\ ~lease.bounded /\ lease.view.full = 2
WantsCompaction ==
  /\ Mode \notin {"compact", "compacted"} /\ Compaction /\ lease.view.id # NoThread
  /\ lease.view.full > 0 /\ ~lease.view.compacted /\ lease.view.feedback # {}

Acknowledge ==
  /\ Continues /\ Unacknowledged
  /\ IF lease.view.id # NoThread THEN Blocks ELSE Then(<<"ack", "plain">>, session) /\ UNCHANGED devTask
  /\ UNCHANGED <<session, contexts, lastRun, adrift, newest, threads>>

RollAtSoftLimit ==
  /\ Continues /\ ~Unacknowledged /\ SoftLimit
  /\ AutoRolls(<<"plain">>)
  /\ UNCHANGED <<lastRun, adrift, newest, threads>>

Compact ==
  /\ Continues /\ ~Unacknowledged /\ ~SoftLimit /\ WantsCompaction
  /\ Then(<<"compact", "compacted">>, session)
  /\ UNCHANGED <<devTask, session, contexts, lastRun, adrift, newest, threads>>

-----------------------------------------------------------------------------
(* The prompt.                                                              *)

Suffix == CASE Mode = "compact" -> "compact" [] Mode = "ack" -> "ack" [] OTHER -> "plain"
Starting == lease.view.id = NoThread
Continuing == lease.view.rollover.made /\ (Starting \/ lease.view.pending)

(* The request: the requirement, and what a new thread must know besides.   *)
FullRequest ==
  lease.asked
  \union (IF Starting THEN lease.view.packet ELSE {})
  \union (IF Continuing THEN lease.view.rollover.deltas ELSE {})
  \union (IF Starting /\ lease.view.handoff THEN lease.view.feedback ELSE {})

Guided == lease.view.guidance.version # 0 /\ Mode \notin {"compact", "ack"}
Guidance == IF Guided THEN lease.view.guidance.deltas ELSE {}

(* What the turn is told: a thread that exists hears the delta alone,       *)
(* unless it continues a checkpoint.                                        *)
Prompt ==
  Guidance \union
  (CASE Mode = "ack" -> {}
     [] Mode # "ack" /\ (Starting \/ Continuing) -> FullRequest
     [] OTHER -> lease.view.feedback)

Unsendable ==
  \/ Continuing /\ lease.view.rollover.version # lease.version
  \/ ~Starting /\ ((lease.view.feedback = {} /\ ~Continuing) \/ Mode = "ack")
  \/ Guided /\ lease.view.guidance.version # lease.version

(* admit_development() refuses unsettled usage, and the supervisor may want *)
(* to wait; phase_mounts() makes the control directory of this lease and    *)
(* kind of turn, which must not exist.                                      *)
Admit ==
  /\ Continues /\ ~Unacknowledged /\ ~SoftLimit /\ ~WantsCompaction
  /\ \/ Blocks
     \/ /\ lastRun.settled /\ ~Unsendable /\ Suffix \notin lease.dirs
        /\ lease' = [lease EXCEPT !.pc = "begin", !.sent = Prompt, !.dirs = @ \union {Suffix}]
        /\ UNCHANGED devTask
  /\ UNCHANGED <<session, contexts, lastRun, adrift, newest, threads>>

-----------------------------------------------------------------------------
(* The turn.                                                                *)

(* begin_run().  A turn adrift has a run that is over and settled by now:   *)
(* its receipt can only be refused.                                         *)
BeginRun ==
  /\ lease.pc = "begin"
  /\ \/ /\ AssertRunnable /\ lease.version = devTask.version /\ Resting /\ lastRun.status # "RUNNING"
        /\ session' = [session EXCEPT !.state = "RUNNING", !.version = lease.version]
        /\ contexts' = EnsureGeneration(contexts)
        /\ lastRun' = [status |-> "RUNNING", code |-> "", version |-> lease.version,
                       checks |-> "none", settled |-> FALSE]
        /\ lease' = [lease EXCEPT !.pc = IF Starting THEN "start" ELSE "send",
                                  !.known = lease.view.feedback, !.view = <<>>, !.asked = {}]
        /\ adrift' = NoLease /\ UNCHANGED devTask
     \/ Blocks /\ UNCHANGED <<session, contexts, lastRun, adrift>>
  /\ UNCHANGED <<newest, threads>>

(* session_started(): the id is in the row before the request is sent.      *)
SessionStarted ==
  /\ lease.pc = "start" /\ AssertRunnable /\ session.id = NoThread /\ threads < MaxThreads
  /\ threads' = threads + 1
  /\ session' = [session EXCEPT !.id = threads']
  /\ contexts' = [c \in 1..Len(contexts) |->
                    IF c \in Live THEN [contexts[c] EXCEPT !.thread = threads'] ELSE contexts[c]]
  /\ lease' = [lease EXCEPT !.pc = "send"]
  /\ UNCHANGED <<devTask, lastRun, adrift, newest>>

(* Anything fails before run_turn: fail_run() knows nothing was spent.      *)
FailBeforeTurn ==
  /\ lease.pc \in {"start", "send"}
  /\ Blocks
  /\ IF lastRun.status = "RUNNING"
     THEN /\ lastRun' = [lastRun EXCEPT !.status = "FAILED", !.settled = TRUE]
          /\ session' = [session EXCEPT !.state = "BLOCKED"]
     ELSE UNCHANGED <<lastRun, session>>
  /\ UNCHANGED <<contexts, adrift, newest, threads>>

SendTurn ==
  /\ lease.pc = "send" /\ AssertRunnable
  /\ GoesTo("turn")
  /\ UNCHANGED <<devTask, session, contexts, lastRun, adrift, newest, threads>>

(* The turn is cut: fail_run() leaves its cost unknown.                     *)
FailTurn ==
  /\ lease.pc = "turn"
  /\ Blocks
  /\ IF lastRun.status = "RUNNING"
     THEN /\ lastRun' = [lastRun EXCEPT !.status = "FAILED"]
          /\ session' = [session EXCEPT !.state = "BLOCKED"]
     ELSE UNCHANGED <<lastRun, session>>
  /\ UNCHANGED <<contexts, adrift, newest, threads>>

Late == lastRun.status = "INTERRUPTED" /\ lastRun.code = "ORPHAN_STOPPED" /\ ~lastRun.settled

Working(m) == m \in {"plain", "compacted"}

(* Mutant: the requirement's version is not compared.                       *)
ConsumesBlindly(m) == Working(m)

(* A completed turn answers the deltas, unless the requirement has changed. *)
Consumes(m) == Working(m) /\ devTask.version = session.version

(* What a receipt reports of the thread's context: short of the threshold   *)
(* of a compaction, past it, or past the soft limit.                        *)
Levels == 0..2

(* finish_run() of a completed turn t.                                      *)
Accepts(t) ==
  LET m == Head(t.todo)
  IN  /\ \E level \in Levels : session' = [session EXCEPT
           !.state = "READY", !.full = level,
           !.pending = @ /\ ~Working(m),
           !.compacted = @ \/ m = "compact",
           !.feedback = IF Consumes(m) THEN {} ELSE @,
           !.guidance = IF Consumes(m) THEN [version |-> 0, deltas |-> {}] ELSE @]
      /\ lastRun' = [lastRun EXCEPT !.status = "COMPLETED", !.settled = TRUE]

ReceiptCompleted ==
  /\ lease.pc = "turn" /\ lastRun.status = "RUNNING" /\ Mode # "ack"
  /\ Accepts(lease)
  /\ GoesTo("finish")
  /\ UNCHANGED <<devTask, contexts, adrift, newest, threads>>

(* The turn is stopped, at its input limit or for another reason.           *)
ReceiptStopped ==
  /\ lease.pc = "turn" /\ lastRun.status = "RUNNING" /\ Mode # "ack"
  /\ \E level \in Levels :
       session' = [session EXCEPT !.state = "BLOCKED", !.full = level,
                     !.compacted = @ \/ Mode = "compact"]
  /\ \/ /\ Mode # "compact"
        /\ \E checks \in {"none", "passed", "lint"} :
             lastRun' = [lastRun EXCEPT !.status = "INTERRUPTED", !.settled = TRUE,
                           !.code = "TURN_INPUT_LIMIT", !.checks = checks]
        /\ GoesTo("limit") /\ UNCHANGED devTask
     \/ /\ lastRun' = [lastRun EXCEPT !.status = "FAILED", !.settled = TRUE]
        /\ Blocks \* block_failed_turn(), by the failure code
  /\ UNCHANGED <<contexts, adrift, newest, threads>>

(* The answer to the checkpoint: its digest, or anything else.              *)
ReceiptAck ==
  /\ lease.pc = "turn" /\ lastRun.status = "RUNNING" /\ Mode = "ack"
  /\ \/ /\ \E ack \in BOOLEAN, level \in Levels :
             session' = [session EXCEPT !.state = IF ack THEN "READY" ELSE "BLOCKED",
                           !.acked = ack, !.pending = @ \/ ack, !.full = level]
        /\ lastRun' = [lastRun EXCEPT !.status = "COMPLETED", !.settled = TRUE]
        /\ Then(<<>>, session') /\ UNCHANGED devTask
     \/ /\ \E level \in Levels :
             session' = [session EXCEPT !.state = "BLOCKED", !.full = level]
        /\ lastRun' = [lastRun EXCEPT !.status = "FAILED", !.settled = TRUE]
        /\ Blocks
  /\ UNCHANGED <<contexts, adrift, newest, threads>>

(* The lease is revoked under the turn, and its worker has not noticed.     *)
Drift ==
  /\ lease.pc = "turn" /\ ~lease.live /\ adrift = NoLease
  /\ adrift' = lease /\ lease' = NoLease
  /\ UNCHANGED <<devTask, session, contexts, lastRun, newest, threads>>

AdriftCompleted ==
  /\ adrift # NoLease /\ lastRun.status = "RUNNING" /\ Head(adrift.todo) # "ack"
  /\ Accepts(adrift) /\ adrift' = NoLease
  /\ UNCHANGED <<devTask, contexts, lease, newest, threads>>

(* A receipt that raced orphan recovery is billed, and moves nothing else.  *)
AdriftLate ==
  /\ adrift # NoLease /\ Late
  /\ lastRun' = [lastRun EXCEPT !.settled = TRUE]
  /\ session' = [session EXCEPT !.state = "BLOCKED"] /\ adrift' = NoLease
  /\ UNCHANGED <<devTask, contexts, lease, newest, threads>>

(* The worker notices, and stops the turn.                                  *)
AdriftFails ==
  /\ adrift # NoLease /\ adrift' = NoLease
  /\ IF lastRun.status = "RUNNING"
     THEN /\ lastRun' = [lastRun EXCEPT !.status = "FAILED"]
          /\ session' = [session EXCEPT !.state = "BLOCKED"]
     ELSE UNCHANGED <<lastRun, session>>
  /\ UNCHANGED <<devTask, contexts, lease, newest, threads>>

(* finish(): no candidate and no small repair; the failure is classified.   *)
BlockFailedTurn ==
  /\ lease.pc = "limit" /\ ~CandidateReady /\ ~RepairReady
  /\ Blocks
  /\ UNCHANGED <<session, contexts, lastRun, adrift, newest, threads>>

(* finish(): what a completed turn says of the work.                        *)
FinishCompaction ==
  /\ lease.pc = "finish" /\ Mode = "compact"
  /\ Then(<<>>, session)
  /\ UNCHANGED <<devTask, session, contexts, lastRun, adrift, newest, threads>>

FinishDevelopment ==
  /\ lease.pc = "finish" /\ Mode # "compact"
  /\ \/ PhaseEnds("VALIDATING") \* IMPLEMENTED
     \/ PhaseEnds("PLANNING")   \* NEEDS_PLAN
     \/ Blocks                  \* NEEDS_HUMAN, FAILED
  /\ UNCHANGED <<session, contexts, lastRun, adrift, newest, threads>>

FinishMilestone ==
  /\ lease.pc = "finish" /\ Mode # "compact" /\ ~lease.bounded
  /\ AutoRolls(<<"plain">>)
  /\ UNCHANGED <<lastRun, adrift, newest, threads>>

-----------------------------------------------------------------------------
(* The controller's other hands.                                            *)

(* The process dies, or its lease expires and the task is blocked.          *)
LoseLease ==
  /\ lease.live
  /\ devTask' = [devTask EXCEPT !.status = "HELD"]
  /\ \/ lease' = NoLease
     \/ lease' = [lease EXCEPT !.live = FALSE]
  /\ UNCHANGED <<session, contexts, lastRun, adrift, newest, threads>>

(* reap_orphans(): the container of a lease that is gone is stopped.        *)
StopOrphan ==
  /\ lastRun.status = "RUNNING" /\ ~lease.live
  /\ lastRun' = [lastRun EXCEPT !.status = "INTERRUPTED", !.code = "ORPHAN_STOPPED"]
  /\ session' = [session EXCEPT !.state = "BLOCKED"]
  /\ UNCHANGED <<devTask, contexts, lease, adrift, newest, threads>>

(* An operator enters the cost of a turn that left none.                    *)
ReconcileTurn ==
  /\ ~lastRun.settled /\ lastRun.status # "RUNNING"
  /\ lastRun' = [lastRun EXCEPT !.settled = TRUE]
  /\ UNCHANGED <<devTask, session, contexts, lease, adrift, newest, threads>>

ValidationPassed ==
  /\ devTask.stage = "VALIDATING" /\ devTask.status = "ACTIVE"
  /\ devTask' = [devTask EXCEPT !.stage = "REVIEWING"]
  /\ lastRun' = [lastRun EXCEPT !.checks = "none"] \* a commit: another diff
  /\ UNCHANGED <<session, contexts, lease, adrift, newest, threads>>

(* A failed command, or the Reviewer's objection.                           *)
ValidationFailed ==
  /\ devTask.stage = "VALIDATING" /\ devTask.status = "ACTIVE" /\ NewDelta
  /\ session' = [session EXCEPT !.feedback = {newest'}]
  /\ devTask' = [devTask EXCEPT !.stage = "FIXING"]
  /\ UNCHANGED <<contexts, lastRun, lease, adrift, threads>>

(* The Thinker's plan: one per version of the requirement.                  *)
PlanReady ==
  /\ devTask.stage = "PLANNING" /\ devTask.status = "ACTIVE" /\ NewDelta
  /\ devTask.planned < devTask.version
  /\ session' = [session EXCEPT !.feedback = {newest'}]
  /\ devTask' = [devTask EXCEPT !.stage = "DEVELOPING", !.planned = devTask.version]
  /\ UNCHANGED <<contexts, lastRun, lease, adrift, threads>>

(* review_fix(): needs a thread, and does not revise the requirement.       *)
ReviewFix ==
  /\ devTask.stage = "REVIEWING" /\ devTask.status = "ACTIVE" /\ session.id # NoThread /\ NewDelta
  /\ session' = [session EXCEPT !.feedback = {newest'}]
  /\ devTask' = [devTask EXCEPT !.stage = "FIXING"]
  /\ UNCHANGED <<contexts, lastRun, lease, adrift, threads>>

-----------------------------------------------------------------------------
(* Outside: operators, trackers and the Coordinator.                        *)

RevisedTask(status) ==
  [devTask EXCEPT !.version = @ + 1, !.stage = "FIXING", !.status = status]
Revokes == lease' = [lease EXCEPT !.live = FALSE]

Hold ==
  /\ devTask.status = "ACTIVE"
  /\ devTask' = [devTask EXCEPT !.status = "HELD"] /\ Revokes
  /\ UNCHANGED <<session, contexts, lastRun, adrift, newest, threads>>

Release ==
  /\ devTask.status = "HELD"
  /\ devTask' = [devTask EXCEPT !.status = "ACTIVE"]
  /\ UNCHANGED <<session, contexts, lastRun, lease, adrift, newest, threads>>

(* /feedback: the requirement takes it only while there is no thread.       *)
OperatorFeedback ==
  /\ NewDelta /\ Revokes
  /\ session' = [session EXCEPT !.feedback = {newest'}]
  /\ devTask' = [RevisedTask("HELD") EXCEPT !.asked =
                   IF session.id = NoThread THEN @ \union {newest'} ELSE @]
  /\ UNCHANGED <<contexts, lastRun, adrift, threads>>

(* requirements_changed(): the tracker's text is the requirement.           *)
TrackerEdit ==
  /\ NewDelta /\ Revokes
  /\ session' = [session EXCEPT !.feedback = {newest'}]
  /\ devTask' = [RevisedTask("HELD") EXCEPT !.asked = @ \union {newest'}]
  /\ UNCHANGED <<contexts, lastRun, adrift, threads>>

(* The Coordinator's REPAIR: an amendment, a delta and guidance in one; it  *)
(* waits for the running turn and refuses an unknown cost.                  *)
CoordinatorRepair ==
  /\ Settled /\ NewDelta /\ Revokes
  /\ devTask' = [RevisedTask("ACTIVE") EXCEPT !.asked = @ \union {newest'}]
  /\ session' = [session EXCEPT !.feedback = {newest'},
                   !.guidance = [version |-> devTask'.version, deltas |-> {newest'}]]
  /\ UNCHANGED <<contexts, lastRun, adrift, threads>>

(* _blocker(): the session is changed only while nothing works on it.       *)
MayChange ==
  devTask.status = "HELD" /\ Resting /\ ~lease.live /\ Settled

OperatorRollover ==
  /\ MayChange /\ MayRoll /\ RollsOver
  /\ UNCHANGED <<devTask, lastRun, lease, adrift, newest, threads>>

(* KEEP_NATIVE: another model on the same thread, told before the rest.     *)
KeepNative ==
  /\ MayChange /\ session.id # NoThread /\ NewDelta
  /\ session' = [session EXCEPT !.feedback = @ \union {newest'}]
  /\ UNCHANGED <<devTask, contexts, lastRun, lease, adrift, threads>>

(* HANDOFF: a successor with the deltas and a summary, and nothing else.    *)
Handoff ==
  /\ MayChange /\ session.number = 1 \* bound: one handoff
  /\ session' = [FreshSession(2) EXCEPT !.feedback = session.feedback, !.handoff = TRUE,
                   !.version = devTask.version]
  /\ UNCHANGED <<devTask, contexts, lastRun, lease, adrift, newest, threads>>

-----------------------------------------------------------------------------
ExecutionStep ==
  \/ Claim \/ ValidateCandidate \/ BoundedRepair \/ PrepareRepair
  \/ Acknowledge \/ RollAtSoftLimit \/ Compact \/ Admit
TurnStep ==
  \/ BeginRun \/ SessionStarted \/ FailBeforeTurn \/ SendTurn \/ FailTurn
  \/ ReceiptCompleted \/ ReceiptStopped \/ ReceiptAck
  \/ Drift \/ AdriftCompleted \/ AdriftLate \/ AdriftFails
  \/ BlockFailedTurn \/ FinishCompaction \/ FinishDevelopment \/ FinishMilestone
ControllerStep ==
  \/ LoseLease \/ StopOrphan \/ ReconcileTurn \/ ValidationPassed \/ ValidationFailed
  \/ PlanReady \/ ReviewFix
OutsideStep ==
  \/ Hold \/ Release \/ OperatorFeedback \/ TrackerEdit \/ CoordinatorRepair
  \/ OperatorRollover \/ KeepNative \/ Handoff
SessionsNext == ExecutionStep \/ TurnStep \/ ControllerStep \/ OutsideStep

SessionsSpec == SessionsInit /\ [][SessionsNext]_sessionVars

-----------------------------------------------------------------------------
(* Properties.                                                              *)

(* The turn whose receipt is taken, and the deltas a receipt drops.         *)
Answering == IF lease.pc = "turn" THEN lease ELSE adrift
Answers == session.number = session'.number /\ session.feedback # {} /\ session'.feedback = {}

(* A receipt drops only deltas that were pending when its turn was built: a *)
(* feedback, an edit or a repair that arrives while the turn is in flight,  *)
(* or after its lease was revoked, survives it.                             *)
ReceiptSparesNewer == [][Answers => session.feedback \subseteq Answering.known]_sessionVars

(* A repair turn that answers the pending deltas was told them, whichever   *)
(* of packet, checkpoint, handoff, requirement and resume carried them.     *)
RepairWasTold ==
  [][Answers /\ devTask.stage = "FIXING" => session.feedback \subseteq Answering.sent]_sessionVars

(* docs/task-lifecycle.md: "The Developer request contains the              *)
(* authoritative requirement, current feedback, repair evidence,            *)
(* checkpoints": so does every turn whose receipt drops the feedback.       *)
RequestCarriesFeedback == [][Answers => session.feedback \subseteq Answering.sent]_sessionVars
=============================================================================
