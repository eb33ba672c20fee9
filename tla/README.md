# Verification of the Autonomous Engineering Worker

TLA+ models of the control plane in `backend/app`, their TLC instances and TLAPS proofs.
`PROJECT.json` lists every component, run, mutant, theorem, hazard and the source lines behind
each definition. Paths below are relative to `src/backend/app` unless they start with `src/`.

## 1. The system

The program moves engineering tasks from a tracker issue to a merged pull request. PostgreSQL is
the only shared state. Several controller replicas, the messaging and activity processes, the
HTTP interface and the webhooks race on its rows; row locks, an admission lock, version numbers
and leases are what keeps them apart.

| Component | State | Operations | Meets |
|---|---|---|---|
| Task lifecycle (`engineering/domain`) | status, stage, wait reason, takeover, requirement version, lifecycle version | `transition()` for 21 actions | everyone, through `record_transition` |
| Phase jobs (`engineering/infrastructure/jobs.py`, `job_queue.py`) | `jobs` rows with lease token and expiry | enqueue, claim, heartbeat, complete, block, recover | scheduler, workers, controls |
| Controls, enrollment, intake edits | task row, snapshot | pause, resume, cancel, takeover, release, enroll, revise | jobs (revocation), Teams |
| Prerequisites (`dependencies.py`) | `task_dependencies` | replace | claims, through the admission lock |
| Teams (`teams/infrastructure`) | capacity, `enabled`, `execution_paused`, `archived_at` | assign, unassign, update, archive, wake, shutdown | claims, controls, spending |
| Outbox and broker (`platform/messaging`) | `notification_outbox`, RabbitMQ queues | claim, publish, retry, prune; consume, republish, dead-letter | lifecycle writes rows, activity reads |
| Activity projection (`activity`) | `activity_events` | project, retention, cursor reads | woken by the broker and by a timer |
| Coordinator (`coordinator`) | events, runs, actions, human requests | ingest, claim batch, infer, complete, execute, deliver, reconcile, recover | providers, tasks, spending |
| Delivery (`delivery`) | pull request, evidence, review cycles | publish, gate, merge, recheck | GitHub |
| Status sync (`delivery/infrastructure/status_sync.py`) | one row per task: wanted status, attempts | enqueue, claim and move, confirm, fail | trackers |
| Spending (`agent_runtime/infrastructure`) | `ai_runs`, reservations, receipts | reserve, begin, finish, fail, sweep, reconcile | developer turns, helpers, Supervisor, Coordinator, interpreter |
| Developer sessions (`agent_runtime`, `engineering/infrastructure`) | session, generations, checkpoint, feedback | prepare, tell, acknowledge, roll over, compact, hand off, repair, receive | phase executor, spending |
| Patch pipeline (`adaptive_patch.py`, `patch_pipeline.py`) | history file, workspace | buy, apply, check, replan, recover | sessions, spending |
| Native turns (`docker_harness.py`, `runner.py`, harnesses) | container, control directory, log | launch, authorise, supervise, stop, close | sessions, Docker |
| Intake (`intake`) | deliveries, snapshots | ingest, process, retry, poll | tasks, trackers, status sync |
| Observer (`observability/observer`) | questions, model runs, events, preference | ask, claim, stream, finish, clean up; detect, snooze, acknowledge | pages, every process's switch |
| Analytics, telemetry, frontend, desktop | read models | read | nothing depends on them |

**What is hard.** A model call, a git push or a provider post happens with no lock held, between
two transactions; everything may change in between, and the second transaction has to notice. A
worker may die, or be slow and come back after its work was given to someone else. Commands and
tracker edits arrive at any point. Sends to a broker or a provider may succeed without an answer.
Controllers are replicated and compete for the same slots.

**What makes each part correct.** Tasks: no command or late result leaves an inconsistent row, a
runnable task always has a job that can advance it, stopped work has no authority, nothing is
delivered for a requirement that was not validated. Prerequisites: no cycle, no lost edit, no
execution ahead of a prerequisite. Teams: when a shutdown has ended, nothing runs in the Team until
it is woken. Notifications: at least once, and every commit reaches the projection. Coordinator:
decisions of a task are serial, no message is lost, the operator has the last word, replies are said
at most once. Delivery: what ends `MERGED` is the validated revision of the pull request that GitHub
merged, a merge leaves only with authority, and a merge that happened is noticed. Spending: what
providers charge stays within every limit, although it is learnt late or never. Sessions: a turn's
receipt consumes only what was pending when the turn was built. Patches: no crash buys a request
twice, a receipt that claims to know its cost does, and what is reported implemented was checked as
it is. Native turns: a thread is paid only after its id is stored, and no container outlives its
turn. Intake: one task per item, one message per comment, a changed text stops the work on it, the
task ends with the tracker's text, and every delivery and status settles while the routes are right.
Observer: no question is answered twice, none stays open, and a notice of pressure opens only of a
pressure that lasted.

## 2. Modules

| Module | Models | Theorems in |
|---|---|---|
| `Lifecycle` | `transition()`, the phase table and `EngineeringState`, as operators | `LifecycleProofs` |
| `TaskLifecycle` | the abstract contract of one task: the transitions and enrollment | `TaskProofs` |
| `PhaseJobs` | job queue, workers, recovery, commands, revisions, reviews, Team shutdown | `PhaseJobsProofs` |
| `PhaseJobsRefinement` | `PhaseJobs` implements `TaskLifecycle` for every task | `PhaseJobsProofs` |
| `Dependencies` | editing prerequisites against claims | `AdmissionProofs` |
| `Teams` | Teams, assignment, archiving, wake and shutdown, against claims, heartbeats and resumptions | `TaskProofs` |
| `Notifications` | outbox, dispatcher, broker, consumer, projection | `NotificationsProofs` |
| `Coordinator` | inbox, decision loop, application of a decision | `CoordinatorProofs` |
| `Replies` | delivery of a decision's message to a provider | `OperatorProofs` |
| `Delivery` | validation evidence, publication, merge gate, merge and recheck of one task, against GitHub | `CandidateProofs` |
| `Budget` | reservations, receipts and recovery of the paid requests of every role | `AdmissionProofs` |
| `Sessions` | the Developer's session of one task over many turns | `TaskProofs` |
| `PatchTurn` | the purchases and the composition of a patch, over the turns of one generation | `CandidateProofs` |
| `NativeTurn` | the protocol of one native turn between controller, container, runner and harness | `CandidateProofs` |
| `Intake` | an outside item, its events, polls, task text and the status shown back | `TaskProofs` |
| `Observer` | questions to the assistant, in several processes, and its switch | `OperatorProofs` |
| `Attention` | notices of the assistant, written by several detectors | `OperatorProofs` |

`MC*` modules instantiate them for TLC.

**Granularity.** An action is one database transaction, or one step of a process that holds no
lock. A transaction is atomic because it takes the row lock of the task (or the admission lock)
before it reads what it decides on; where the code does *not* lock first, the model has two
actions. What a process remembers between its transactions is its own variable (`runner`,
`sender`, `receiver`, `loop`, `worker`, `editor`, `claim`).

**`Lifecycle`, `TaskLifecycle`.** `state` is `EngineeringState`; `Permits` is the set of raises of
`transition()`, `Transition` its return value. `validated` records the requirement version of the
last `VALIDATION_PASSED`; it is a history variable and guards nothing. `TwoSteps` is a transaction
that records two transitions (a pause and a revision, for instance).

**`PhaseJobs`.** `task` is the row with its lifecycle version, `job` the `jobs` table (a finished
job is `CLOSED`; its tokens cannot be used again, so a lease is the job's `holder`), `open` the
Teams that are not shut down, `runner` a worker slot, `interpreting` the review texts being
interpreted. `Claim` is `claim_job` up to its commit; `FirstHeartbeat` the check that follows in
a new transaction; `LoadContext` the read of the task by the phase, after the lease check;
`Complete`, `DropResult`, `RejectResult` the three ways `complete()` ends. `Expire` lets a lease
run out at any time, also under a live worker; `Recover` is the block of one expired lease.
`Requires` are prerequisites that do not change; `Dependencies` lets them change.

**`Dependencies`.** `admission` is the holder of the advisory lock, so that an edit that waits,
reads, checks and saves is four steps and a claim two. `Transit` lets other actors move the task.

**`Notifications`.** `Commit` inserts a row with a transition; `Claim`, `Publish`, `Published`,
`Retry` are the dispatcher's steps; `PublishUnconfirmed` and lost connections are faults, at most
`MaxFaults`. The broker is external: it keeps a multiset of messages per attempt and takes back
what was not acknowledged. `BeginScan`/`EndScan` are one `project()` transaction of the timer; a
consumer that finds the lock taken returns at once, as `pg_try_advisory_xact_lock` does.

**`Coordinator`.** One task and its conversation; `loop` is `process_one()` between transactions.
`mode` is the mode of the conversation's provider. `Transit` is any other actor that moves the
task; `generating` stands for any `RUNNING` AIRun. `Execute` is `execute_one()` with its four ways
out.

**`Replies`.** `posts` counts what really stands in the conversation; the code never reads it.
`Post` may succeed without an answer, `Echo` delivers a message's webhook in any order,
`ClaimReconciliation` looks the message up in the provider's bounded history.

**`Delivery`.** One task between a developer turn and its merge. `PhaseJobs` shows that a runnable
task has exactly one live job, for its current version; here that job is just its lease (`holder`,
`expired`), and a transition (`Move`) ends the lease. `worker` is what a phase remembers between its
transactions: the version it was leased for, the row `load_phase_context` gave it, the receipt of
its container. `container` is the isolated runner; it holds the workspace lock, survives its
controller and is stopped by `Sweep`. Commits are numbers along the branch, `Foreign` is a commit
somebody else pushed; `branch`, `pulls`, `clear` and `late` are GitHub, where `clear` stands for
every blocker that GitHub decides and `late` for a merge request that outlives its caller.
`RowFree` is the row lock that `merge_phase()` holds across its call to GitHub. A reviewer's text is
just `ReviewFeedback`; `PhaseJobs` has its interpretation.

**`Teams`.** `team` and `ticket` are the rows, `request` what a request of the API has read and
which Task row it holds, `picked` the job a claim transaction has selected. Shutdown, wake and
claims take the advisory lock of `lock_admission()`; assignment, archiving, resumption and settings
do not, so each of them is two actions: what it read, and what it writes. A heartbeat looks at the
Team under the rows of the task and its job (`asked`) and then lets the job run; a claim alone
starts nothing. A job does not imply enrollment: a `/resume` in a conversation queues one for a task
that has no session (`Resumed`), as `control_task()` does. `stopped` is history: a shutdown has
ended and no wake has followed. A batch of 25 tasks is one task per action, which is finer than the
code and allows everything its batches allow. A Team whose repository, policy or profile is missing
is the choice `Refuse` of `Requested`.

**`Budget`.** A member of `Runs` is one paid request: its caller (`pc`), its `AIRun` row and
`charge`, what the provider really charged, which the code never reads and learns from a receipt
only. `Scenarios` are the pairs of roles and tasks that meet. `LockFree` is the order of
`reserve_budget()`: account, Team, Task, held to the commit; a helper, the Supervisor, the
interpreter and the Coordinator check in transactions of their own where the code does. `Sweep` is
`orphans.py`, `RecoverExpired` the accounting half of `SqlPhaseJobs.recover()`.

**`Sessions`.** A change request is a number; `feedback`, `packet`, `rollover.deltas`,
`devTask.asked` and `guidance` are where the code may carry it, and `lease.sent` is the set of
requests the prompt of a turn contains. `lease` is one execution of the phase from `LoadContext` to its
result, `adrift` a turn whose lease was revoked and which is still in flight. `ReceiptCompleted`,
`ReceiptStopped`, `ReceiptAck` are the three outcomes of `finish_run()`, each with its report of how
full the context is (`Levels`); the rest of the executor is
one action per transaction.

**`PatchTurn`.** `saved` is the history file, `heard` its copy in memory, `ledger` the totals and
admissions of `BoundedInference`; `charges` is what the provider charged. A crash keeps the file,
the workspace and the charges. The size of a packet, the wording of a plan and the content of an
edit are choices; `diff` is the fingerprint of the workspace.

**`NativeTurn`.** `host` is `DockerHarness`, `dock` Docker, `wire` the lines of the container's log
not read yet, `control` the control directory, `runner` `execute()`, `turn` the model's turn with
the progress governor, `sup` the supervision task. Each harness (`codex`, `claude`, `responses`) has
its own actions. Every await may be cut by a deadline, a cancellation or a dead process.

**`Intake`.** One item of any of five sources. `item` and `events` are the provider's, `inbox` the
`webhook_deliveries` rows, `hands` what each replica holds between two steps: a delivery is split
where it reads the task without a lock and where it commits, a poll at its HTTP read, its reads of
the database and its commit; a failed delivery of Linear or GitHub is let go in one step (`Retry`)
and counted in another (`CountAttempt`). `jammed` says that Slack messages are routed to a Team or
repository that does not exist: `process_source_delivery()` lets that error out without counting an
attempt, until somebody corrects the routes (`Reroute`). `sync` is the status row; `MoveCard` the
tracker's move, which may succeed without an answer. It EXTENDS `Lifecycle`: a task's pause and
revision are the same `Transition` as in `PhaseJobs`.

**`Observer`, `Attention`.** `runtime` is `ObserverRuntime` of each process with the configuration it
has applied, has read, or has been told of; `stream` the request each API process answers. Times are
kept by what they decide: an answer ends within 85 seconds of its claim, a claim counts for 90, a
question is given up on after five minutes. `Attention` has one event and counts minutes, the
interval of the detectors; `host` records what really was, and no action of the code reads it.

## 3. Runs

| Run | Instance | Shows |
|---|---|---|
| `capacity` | `PhaseJobs`: 2 tasks, Team of capacity 1, 1 validation slot, 2 workers; `Budget`: 6 meetings of 2 requests, 3 tasks, 2 Teams, 2 months | no task stranded, slots and limits never exceeded, a session is busy exactly while its run is |
| `implements_contract` | 1 task, 1 worker, 7 jobs, 8 versions, fair | refinement of `TaskLifecycle` up to `MERGED`, one live job, stopped work revoked, results fit their requirement, every claimed job is settled |
| `prerequisites` | `Dependencies`: 3 tasks, 2 editors, 1 claim; `Teams`: 1 task, 2 Teams, 2 requests, 1 claim | no cycle of any length, prerequisites merged, no lost edit, nothing runs in a Team after its shutdown |
| `notifications` | 2 events, 1 process, 2 attempts, 2 faults, fair | nothing lost, every commit is projected, the outbox drains |
| `decisions` | 2 messages, 2 loops, 2 runs, 3 directives | decisions are serial, no message lost, the operator has the last word |
| `messages_settle` | 2 messages, 4 runs, all modes, fair | every message settles |
| `replies` | `Replies`: 2 replies, equal or different texts, 2 workers; `Observer`: 1 question, 2 processes, 2 asides; `Attention`: 2 detectors, 3 minutes; fair | at most one post, every reply settles, every question settles, a notice opens only of what lasted |
| `delivery` | 1 task, 2 workers, 1 commit above the base, 1 pull request, 8 versions, fair | `MERGED` means delivered, the reviewed head is the validated one, merges are authorized and noticed |
| `intake` | 1 item of each of 5 sources, 2 replicas, 2 events, 2 texts, 2 attempts, fair | taken once, a changed text stops work, the task converges to the tracker, nothing pends for ever once Slack routes are right |
| `development` | `Sessions`: 2 change requests, 2 threads; `PatchTurn`: 3 turns, 2 units, 3 attempts, 1 replan; `NativeTurn`: 3 harnesses, 3 inferences; `Observer`: 2 API processes, 1 question | section 1, "Sessions" to "Native turns", and no question answered twice |
| `validated_is_publishable` | as `delivery`, 1 worker, 10 versions | *violated*, see section 6 |
| `request_carries_feedback` | as `development`, 3 threads | *violated*, see section 6 |

**Layers.** Components that share no state are checked in one run where each behaviour is one of
either: `layer` says which, chosen at the start and never changed, and the others stay where they
began. The states of a run are the sum, not the product, of its components. Fairness is asked of all
of them; a component that is not the layer begins where no action that fairness asks for is enabled,
so nothing is asked of it.

**Bounds.** Two workers are enough for a late worker and its successor; a third would hold a job
that is fenced in the same way. Six or seven jobs and versions let a task be claimed, lost,
recovered, revised and validated again (seven reach `MERGED`). Two tasks are the least that compete
for a slot, three the least with a cycle that is not a pair of mutual edits. Two messages and two
runs let one run be superseded while another message waits. In `delivery` eight versions are a
lifecycle up to `MERGED` with two detours (a block and a resume, a revision, a review round), and
two workers a late one with its successor; `Commands` is `RESUME` alone because a pause only adds a
version before it. Two faults are the least with which a fault meets the recovery from another; with
one event, two processes and five faults the safety properties of `Notifications` hold too (1.1
million states). In the runs with `CHECK_DEADLOCK FALSE` a behaviour may end: all rows of a bounded
table are used, or everything is settled.

**Fairness.** `PhaseJobs`: the scheduler loop claims and recovers for ever, a living worker takes
its next step (each is under a timeout), and a lease that nobody renews runs out; commands and
crashes are never required. `Notifications`: the loops of `bootstrap/messaging.py` restart after
every exception, and time passes; strong fairness of the periodic scan, because the lock it wants
is free again and again and its timer keeps trying. `Coordinator`: `bootstrap/coordinator.py`
runs the decision loop, the effect loop and recovery; strong fairness of `Execute`, which is
disabled while a generation runs. `Replies`: one effect iteration calls `deliver_one()` and
`reconcile_one()` (bootstrap/coordinator.py:47-68), so neither claim is postponed for ever, and
`recover()` runs every thirty seconds. `Delivery`: as `PhaseJobs`, and the periodic recheck
(bootstrap/scheduler.py calls `recheck_review()` in every pass) is answered by GitHub in the end;
nothing is assumed of its users, of webhooks or of `Sweep`.

`Intake`: a replica's integration loop takes deliveries, polls and updates the tracker in every round
(platform/scheduling/scheduler.py:102) and ends what it began; a Trello delivery waits for the lock of
the integration row as often as needed. An error that a Slack message lets out ends the round after its
poll and before deliveries and status updates (intake/application/process_deliveries.py:18), so these
two are asked for only while nothing is jammed. Nothing is assumed of webhooks, nor of `Reroute`.
`Observer`: a process
connects again every five seconds and applies what it hears, an answer ends (it is under a timeout),
time passes, and a controller that is on cleans up; nothing is assumed of pages. The safety-only
components (`Budget`, `Sessions`, `PatchTurn`, `NativeTurn`, `Teams`, `Attention`) have no fairness.

**Bounds of the other components.** In `capacity` two requests are the least that meet at a limit;
the six meetings are the pairs of roles whose checks differ, and the limits let one worst case fit
and two not. In `development` two change requests are the least of which one is told and one is not,
two threads one that a rollover or a handoff replaced (`request_carries_feedback` has three: both);
three patch turns a purchase, a recovery and a follow-up. In `prerequisites` two Teams and two
requests let an assignment between Teams race a shutdown of either, with a claim in between, and one
task shows what the property says of each. In `development` one question is enough for two streams
to want it. In `intake` two events and two replicas let a delivery, a late one and a poll race; one
crash, fault or step of an operator meets each of them; a Slack message jams the queue as the item
itself, or beside a card of Trello (`BesideJams`), whose deliveries are taken from the same queue.
In `replies` a hold of two minutes and a gap of one are the least for which a window can break in
its middle; the theorem has no such bound.

**Mutants.** Each property of a passing run has a mutated definition, kept directly above the one
it mutates: a dropped guard, a missing reset, an optimistic lock. Mutants are in no next-state
relation.

## 4. Proofs

All theorems hold for every value of the constants that the named ASSUMEs allow: any sets of
tasks, workers, Teams, editors, events, and any bounds. Each invariant named below was first checked
by TLC on the instance of a run.

**Tasks and their queue.**

* `TaskProofs!ContractHolds`. The invariant adds to the three properties that a task in a
  delivery stage has its requirement validated *also while suspended*, which is what a resume
  relies on. `LifecycleProofs` has the lemmas about `Transition`: what each action preserves.
* `PhaseJobsProofs!QueueIsSafe`, `!NoTwoLiveJobs`, `!StoppingRevokes`. `IndInv` = `TypeOK`,
  `LiveHaveTask`, `RunnersOK`, `RowsOK`. `RowsOK` couples each task with its live jobs: the version
  and phase of the live job of a runnable task, none for a stopped one, and at most one.
  `NoStrandedTask` is not inductive by itself: a completion moves the version and the stage together
  and must know that the job it closes is the only one.
* `PhaseJobsProofs!SlotsAreRespected`. `SlotsInv` adds that the occupied sets are finite, so that a
  claim, which counts under the admission lock, adds one at most to a set that had room. Every other
  step starts nothing (`NothingStarts`), and a running job keeps its task and phase.
* `PhaseJobsProofs!NoStaleResult`. `LeasesInv`: a worker's version is one the task has had, and as
  long as it is still the task's, the requirement is the one the worker loaded. A row changes only
  with its version (`Ages`), and of one live job there is one holder, so a result that `complete()`
  applies is of the present requirement.
* `PhaseJobsProofs!ImplementsContract`, the refinement. `RowsOK` gives every mapped transition its
  guard (a verdict of validation only from `VALIDATING`, a delivery stage only with evidence); each
  transaction is one transition of the contract, one `TwoSteps`, the enrollment, or leaves the row
  alone. It is proved for each task beside all others, where the run has one task.

* `TaskProofs!ItemsAreTakenOnce`, `!TextNeverChangesUnderWork`. A replica commits on what it read of
  the task without a lock. `IntakeInv` says what of it still holds (`ViewOK`): a task that was there
  is there, one that was over is over, and at the same version it is over only if it was seen so.
  With that, a revision under an unchanged version finds a task that may be paused, and the one text
  written without comparing versions is that of an ended task. A delivery and a status update are in
  one replica's hands at a time (`HandsOK`), so an attempt is counted once and a comment told once.

**Admission.**

* `AdmissionProofs!PrerequisitesAreSound`, `!RunningTasksAreUnblocked`, `!EditsAreNotLost`. The
  invariant says that the steps under the lock have its holder's evidence: an editor that passed
  `Admit` still sees the prerequisites it compared, and nothing reachable from its wish leads back.
  `SaveKeepsNoCycle` is the graph argument: a set without a sink after the save would contain the
  edited task, and what is reachable from its new prerequisites would have been such a set before.
* `TaskProofs!ShutdownEndsWork`. The invariant follows the rows, not the claims: a heartbeat that
  has found the Team open holds the rows, and every batch of a shutdown waits for them, so the last
  batch finds no task that could run (`RunsWhereOpen`); a request that moves a task to another Team
  found, under the Task row, that no worker is on it, and no heartbeat begins before it commits
  (`RowsHaveOneHolder`). Enrollment plays no part, and a claim may commit in a Team that is shut
  down (section 6): its first heartbeat asks for the Team that the task then has.

**Spending.** Amounts are added with `MapThenSumSet`, whose definition picks elements by CHOOSE. The
lemmas `SumAdd`, `SumAgrees` and `SumCover` (sums do not depend on the order, and how two of them
compare) go by a least counterexample: a smallest subset for which the claim fails, by
`SmallestExists`. They need that the requests are finite in number, `IsFiniteSet(Runs)`.

* `AdmissionProofs!LimitsAreRespected`. The property speaks of what was charged, the program only
  sees reservations and receipts, late or never. `LimitsInv` bounds the `Exposure` of each request:
  its plan while it is admitted, the reservation until the call, then the charge. Three parts carry
  `WithinLimits`: a row whose cost is known tells all of it, also after a recovery or an operator's
  correction (`CostsCovered`); requests that share a limit are admitted one at a time
  (`OneAdmission`), by the Team's row and the account's advisory lock; and an admission that is open
  when the month ends is the only one that counts in the new month. No step but an admission raises an
  exposure (`ExposureFalls`), and what `reserve_budget()` reads covers the others (`AdmissionFits`).
* `AdmissionProofs!SessionsFollowRuns`. `SessionInv`: the native requests of one job come one
  after another (`OneByOne`), and a Developer that may still be admitted has seen the cost of each
  other one (`SeesCosts`), so none runs beside it and no late receipt is outstanding that would
  park its session. Without the second part `AloneAtWork` is not inductive: a receipt of an
  interrupted run could block the session of the next.

**Messages, decisions, questions.**

* `NotificationsProofs!AtLeastOnce`. `RowsSafe` strengthens the property to rows a dispatcher has
  had confirmed and not yet marked, and `CountsOK` bounds the attempt number a message carries by
  the failures of its handler.
* `CoordinatorProofs!DecidesOneAtATime`, `!NoMessageIsLost`. `CoordinatorInv` needs the two
  together: a claim takes only messages without a run and only while no run of the task decides,
  and recovery gives back what its run still owns. The rows are numbered, so "the oldest" exists:
  `SmallestExists` gets it from well-founded induction on a set of numbers.
* `CoordinatorProofs!OperatorDecides`. Only `Execute` applies an action, in one transaction that
  reads the task it moves; `Outcomes` are transitions whose
  guards hold for no ended, paused or taken-over row, or none at all.
* `OperatorProofs!RepliesAtMostOnce`. `UnclaimedUnposted` (a row that can still be claimed for
  sending has no post), `HeldOK` and `OneSender` (of the workers that remember a row, one at most
  has still to post) make "at most once" inductive.
* `OperatorProofs!QuestionsAreAnsweredOnce`. `ObserverInv`: a question is asked by one stream, before
  it has a row (`AskedOnce`); one that a stream has in hand was claimed, and no step makes it
  `PENDING` or `STALE` again, not the cleanup and not a switch, so no other stream gets it
  (`InHandIsClaimed`). It does not say that one question at a time is answered, see section 6.
* `OperatorProofs!OpensOnlyWhatLasted`. A row's window may be wrong only after an absence longer than
  the gap, and then the row was seen so long ago that the next observation begins a new window
  (`WindowIsSteady`); an observation is never older than the condition (`SamplesAreRecent`), which
  needs that a sample is written within the interval of the detectors and that the gap is at least
  that long.

**A candidate, from its turn to its merge.**

* `CandidateProofs!MergedWorkIsDelivered`, `!ReviewedIsValidated`. `DeliveryInv` says what each
  stage has (`StageOK`: under review the recorded pull request shows the validated revision; after
  it, GitHub merged that one), and what each worker may still rely on (`CurrentOK`), as long as the
  lease it holds is the task's; one that lost it, and the container it left behind, know no newer
  revision than the task's (`ContainerOK`). A late push therefore cannot put back an older one.
* `CandidateProofs!SubmitsWhatIsAuthorized`. A worker about to submit holds the rows: the invariant
  keeps its revision, pull request and stage those of the task until GitHub has the request.
* `CandidateProofs!OneTurnPays`, `!ReceiptsAreHonest`, `!ImplementedWorkIsChecked`. `PurchasesInv`:
  what was charged was admitted, what was admitted is saved (`AdmissionsAreSaved`), so a turn that
  may still buy comes before any charge; and the receipts add up to the ledger (`LedgerIsWhole`).
* `CandidateProofs!NothingIsPaidUnrecorded`, `!CloseRemovesTheContainer`. `NativeInv`: what the
  controller authorized, the runner asks for, and was paid, all imply that the thread is recorded;
  and who runs has a container that was asked for.
* `TaskProofs!ReceiptsSpareNewer`, `!RepairsAreTold`. Only the two receipts take deltas away
  (`DeltasStay`), so both are about the turn in flight, which may be adrift beside the next
  execution. `TurnsInv` follows a prompt from its rows to the turn. Until `BeginRun`, an execution
  with a lease sees the session as it is, or with deltas that a late receipt has just taken
  (`AsLoaded`); at `Admit` the prompt holds the pending deltas (`RepairPrompt`), because a session
  without a thread has them in its packet, its requirement or its handoff (`Untold`), one with a
  prepared checkpoint has them there (`PreparedOK`), and an unacknowledged checkpoint goes nowhere
  (`RolloverOK`). `Untold` also says why a candidate cannot be validated and a small repair cannot
  start while a fresh thread is still owed a packet. From then on a new delta either revises the
  requirement or needs a job that ended, so the receipt of the old turn no longer consumes
  (`InFlightOK`, `VersionsOK`).

**Only model-checked.** Liveness and ENABLED, which the provers do not reach: `LeasesSettle`,
`EveryMessageSettles`, `EveryReplySettles`, `QuestionsSettle`, `OutboxDrains`,
`EveryCommitIsProjected`, `MergeIsNoticed`, `TrackerConverges` and `NothingPendsForever`. Every
other property of the passing runs has a theorem. Induction over data by an operator is out of
reach (no installed prover instantiates one); where it was needed, for sums and for least row
numbers, induction on a *set* of numbers or subsets took its place.

## 5. Not modelled

Left out for good: provider HTTP, prices and prompts, the repository index and packet selection
(I/O around text; the models take their outcomes as choices), analytics, metrics and telemetry, the
supervisor's texts, configuration screens, the frontend and the desktop shell. They change no row
that the modules above read. Task creation through the API is one transaction with a unique request
key. Activity cursors, file events and retention read or delete rows that are final. Of the Observer,
model installation, the residency guard, the rate limit and retention. Of Teams, profiles, policies
and assignment records. Docker incidents (`observability/infrastructure/docker_events.py`) are a
record of their own, see the observation below.

## 6. Findings and observations

Two runs show a disagreement between the code and its documents.

* `validated_is_publishable`. A commit with one failed result is refused by the publication gate
  for good, also when a later validation of the same commit passed: `delivery_gate()`
  (`delivery/infrastructure/workflow.py:38`) asks that *all* rows of the commit passed. A failed check
  leaves its rows at the HEAD from which the edits started, so undoing the edits, or a check that
  failed by timeout, is enough. Every resume is blocked again until the commit or the requirement
  changes.
* `request_carries_feedback`. A turn that continues a checkpoint on an existing thread is sent the
  full request in place of `next_feedback` (`engineering/infrastructure/developer_request.py:64`). The
  request repeats the changes the rollover stored in its checkpoint, not those written since, and the
  receipt drops `next_feedback`: a change request written after an acknowledged rollover is told to
  nobody. `RepairWasTold` shows that it cannot happen to a repair turn.

What follows was met while modelling and is not a property of a run.

*Tasks and Teams.* `RETRY_WAIT` and `external_wait=True` exist in the code and are never used. A
prerequisite that ends `CANCELLED` or `FAILED` holds its dependants back until the prerequisites are
edited. `assign_in_transaction()` reads the Team without a lock and `enroll()` sees the same copy, so
an assignment that races `archive()` can enroll a task into an archived Team, where it can neither be
claimed, resumed nor reassigned. `archive()` counts running jobs without the admission lock: a claim
may start one beside it, which its first heartbeat ends. A resume or an assignment that races a
shutdown leaves a queued task that the shutdown did not pause; it starts after the next wake.
`docs/guide.md:141` says "Shutdown first persists the Team pause, preventing new admissions even if a
later batch fails". One admission is still possible: a `/resume` in a conversation
(`intake/infrastructure/operator_messages.py:57`) queues a job for a task that is not enrolled, a
claim picks it, and before the claim commits the task is assigned to a Team that is shut down, which
`assign_in_transaction()` refuses only for a claimed or running job or a workspace. The job is then
claimed there. Its first heartbeat refuses and the phase is blocked, so nothing runs: that is why
`NothingRunsAfterShutdown` speaks of phases that run.

*Notifications.* `docs/architecture.md:54` says the consumer projects committed records before it
acknowledges. When another scan holds the lock, `project()` returns without projecting and the message
is acknowledged; the periodic scan repairs it (`EveryCommitIsProjected`), so the effect is a delay.

*Coordinator.* A task that advances before the model call is admitted
(`coordinator/infrastructure/model.py:97`, a `ValueError`) ends its batch as failed, while the same
change a moment later supersedes the run and keeps the feedback. An echo is matched by text, newest
first and `EXECUTED` rows included (`coordinator/infrastructure/inbox.py:68`), so it can be credited to
a confirmed identical reply. `SUSPENDED` events are never queued again.

*Delivery.* A pull request merged by a person while its task is `FIXING` leads to a second one; a
task blocked for a human is reconciled with its merged pull request only after a resume.

*Sessions.* A milestone followed by a rollover, its acknowledgement and another execution of the
same lease creates the same mount directory twice (`phase_mounts.py`, `exist_ok=False`) and blocks
the task after a paid acknowledgement. `coordinator_guidance` is dropped only by a completed turn of its
requirement version, so a later tracker edit makes every Developer phase block with "Coordinator
handoff is stale". A candidate that passed targeted checks and failed full validation is validated
again from `FIXING` without a repair until the no-progress counter blocks it. After a rollover a
requirement revision blocks every continuation ("Checkpoint requirement version changed") until an
operator hands off. `next_feedback` has one value: a later writer overwrites an earlier one that was
not sent yet.

*Spending and turns.* The row of a request whose process died between the sweep's checks can stay
`RUNNING` (`orphans.py:58`), which keeps its reservation. `codex.py:108` says "A late decision never
restarts or relabels completed work", but a STOP answered before the stream reads the completed turn
relabels it.

*Intake.* A Linear issue whose description is null arrives as the text "None" by webhook
(`linear_events.py:69`) and as "" by the next poll, which pauses and revises the task though nobody
changed anything. An exception of another type than the four that `process_source_delivery()`
expects counts no attempt: the row stays first in line and ends every integration round of every
replica before its deliveries and status updates, until the cause is gone. `jammed` is the case the
code itself can produce, a route to a Team or repository that does not exist
(`source_deliveries.py:129`), and `NothingPendsForever` promises nothing while it lasts. A status
update whose answer was lost leaves the snapshot at the old list: a later update back to that list
is skipped and marked `SYNCED` while the tracker shows the other, although `status_sync.py:114` says
"Setting an absolute state is idempotent if a response is lost." So `SYNCED` is the word of the row,
and `NothingPendsForever` says no more than that the row settles. A poll that read the item before
it was removed creates its task.

*Observer.* `docs/architecture.md:788` says "Persisted claims prevent duplicate inference, with one
global active answer". The cleanup, a shutdown or a quick off and on of any process marks a question
as interrupted while another process still answers it (`bootstrap/observer.py:194`,
`SqlObserverStore.cleanup()`), and another question may then be claimed: two answers run at once, in
eleven steps with two processes and two questions. The text of the first is streamed as completed
and not stored. The first half of the sentence holds: `NoDuplicateInference`.

*Docker events.* "Replayed events are idempotent", but `collect()` reads again from two seconds
before its last event, and a replayed "healthy" closes an incident opened after it, whose
`closed_at` then lies before its `opened_at`.
