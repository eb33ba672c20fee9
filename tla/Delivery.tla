------------------------------- MODULE Delivery -------------------------------
(***************************************************************************)
(* From a developed candidate to a merged pull request                     *)
(* (engineering/infrastructure/validation_phase.py, validator_runner.py,   *)
(* delivery/infrastructure/publication.py, workflow.py, github.py,         *)
(* git_runner.py, rechecks.py, intake/infrastructure/engineering_events.py): *)
(* deterministic validation and its evidence, the fast-forward push, the   *)
(* pull request, the merge gate and the merge, with GitHub and its users   *)
(* as actors that change the pull request at any moment.                   *)
(*                                                                         *)
(* One task.  Its live job is the pair holder, expired: PhaseJobs shows    *)
(* that there is one exactly while the task can run, made for the current  *)
(* version, so each transition ends one lease and offers the next job.     *)
(* A developer turn is one step here; every step of the three phases that  *)
(* talk to Git and GitHub is an action of its own.                         *)
(***************************************************************************)
EXTENDS Lifecycle

CONSTANTS
  Workers,     (* job slots of the controllers                              *)
  Nobody,      (* no worker                                                 *)
  MaxRevision, (* bound: commits of the task branch, the base included      *)
  MaxPull,     (* bound: pull requests opened for the branch                *)
  MaxVersion,  (* bound: lifecycle versions                                 *)
  Commands     (* bound: the operator commands explored                     *)

ASSUME DeliveryAssumption ==
  /\ Nobody \notin Workers
  /\ MaxRevision \in Nat \ {0}
  /\ MaxPull \in Nat
  /\ MaxVersion \in Nat \ {0}
  /\ Commands \subseteq {"PAUSE", "CANCEL", "TAKEOVER", "RESUME", "RELEASE_TAKEOVER"}

VARIABLES
  state,      (* the EngineeringState of the Task row                       *)
  version,    (* its lifecycle_version                                      *)
  revision,   (* its current_revision                                       *)
  pull,       (* its pull_request_number, 0 when it has none                *)
  evidence,   (* ValidationRun rows                                         *)
  tree,       (* the workspace: its HEAD, and whether it holds edits        *)
  holder,     (* the worker whose lease token the live job carries          *)
  expired,    (* that lease ran out                                         *)
  worker,     (* what each worker keeps in memory                           *)
  container,  (* the isolated runner that holds the workspace lock          *)
  branch,     (* the task branch on GitHub                                  *)
  pulls,      (* pull requests on GitHub                                    *)
  clear,      (* approved, green and mergeable, at the head of the branch   *)
  late        (* head of a merge request still on its way to GitHub         *)

row    == <<state, version, revision, pull>>
lease  == <<holder, expired>>
github == <<branch, pulls, clear, late>>
vars   == <<row, evidence, tree, lease, worker, container, github>>

(* Commits are numbered along the branch; the base comes first, and a commit *)
(* somebody else pushes descends from none of the task's later ones.         *)
Base     == 1
Revision == 1..MaxRevision
Foreign  == MaxRevision + 1
Heads    == 0..Foreign

NoPull == [open |-> FALSE, merged |-> FALSE, head |-> 0]
NoRun  == [op |-> "none", owner |-> Nobody, version |-> 0, sha |-> 0]
Idle   == [pc |-> "idle", phase |-> "NONE", version |-> 0, req |-> 0, rev |-> 0,
           sha |-> 0, passed |-> FALSE, pull |-> 0, result |-> "NONE"]

(* A task whose workspace is prepared: _prepare() stored the base revision. *)
Init ==
  /\ state = [NewState EXCEPT !.status = "ACTIVE", !.stage = "DEVELOPING"]
  /\ version = 1
  /\ revision = Base
  /\ pull = 0
  /\ evidence = {}
  /\ tree = [head |-> Base, dirty |-> FALSE]
  /\ holder = Nobody
  /\ expired = FALSE
  /\ worker = [w \in Workers |-> Idle]
  /\ container = NoRun
  /\ branch = 0
  /\ pulls = [n \in 1..MaxPull |-> NoPull]
  /\ clear = FALSE
  /\ late = 0

-----------------------------------------------------------------------------
(* Queries and updates shared by the transactions.                         *)

(* Mutant: merge_phase() reads the rows without locking them.               *)
RowNeverLocked == TRUE

(* merge_phase() keeps the Task and Job rows locked from its evidence check  *)
(* to GitHub's answer; every other writer of the task waits.                *)
RowFree == \A w \in Workers : worker[w].pc # "submitting"

(* record_transition(): a new version revokes the lease of the old one.     *)
Move(s, k) ==
  /\ version + k <= MaxVersion
  /\ state' = s
  /\ version' = version + k
  /\ holder' = Nobody
  /\ expired' = FALSE

(* delivery_gate(): rows exist for the revision and the requirement version, *)
(* and every one of them PASSED.                                           *)
Rows(sha, req)      == {e \in evidence : e.sha = sha /\ e.req = req}
AllPassed(sha, req) == Rows(sha, req) # {} /\ \A e \in Rows(sha, req) : e.passed

(* The lease still counts for the version that was claimed.                 *)
Leased(w) == holder = w /\ ~ expired /\ worker[w].version = version

OpenPulls == {n \in 1..MaxPull : pulls[n].open}
NewPulls  == {n \in 1..MaxPull : ~ pulls[n].open /\ ~ pulls[n].merged}

(* The head GitHub reports: an open pull request follows its branch.        *)
HeadOf(n) == IF pulls[n].open THEN branch ELSE pulls[n].head

-----------------------------------------------------------------------------
(* Operator commands, requirement revisions and development.               *)

Control(a) ==
  /\ RowFree
  /\ Permits(state, a, "NONE")
  /\ Move(Transition(state, a, "NONE", FALSE), 1)
  /\ UNCHANGED <<revision, pull, evidence, tree, worker, container, github>>

(* requirements_changed(): PAUSE and REVISE_REQUIREMENT in one transaction. *)
Revise ==
  /\ RowFree
  /\ state.status \notin Terminal
  /\ Move(ReviseState(PauseState(state, state.takeover)), 2)
  /\ UNCHANGED <<revision, pull, evidence, tree, worker, container, github>>

(* A developer turn, or request_validation() of the candidate it left; both  *)
(* lead to validation.  The turn may edit, leave or undo edits; it does not *)
(* commit.  It needs the workspace lock.                                    *)
DeveloperTurn ==
  /\ RowFree
  /\ state.status = "ACTIVE"
  /\ state.stage \in {"DEVELOPING", "FIXING"}
  /\ holder = Nobody
  /\ container = NoRun
  /\ \E dirty \in BOOLEAN : tree' = [tree EXCEPT !.dirty = dirty]
  /\ Move(Transition(state, "IMPLEMENTED", "NONE", FALSE), 1)
  /\ UNCHANGED <<revision, pull, evidence, worker, container, github>>

-----------------------------------------------------------------------------
(* Leases.                                                                 *)

(* claim_next_job() and the heartbeats that follow it.                      *)
Claim(w) ==
  /\ RowFree
  /\ worker[w].pc = "idle"
  /\ state.status = "ACTIVE"
  /\ state.stage \in {"VALIDATING", "PUBLISHING", "MERGING"}
  /\ holder = Nobody
  /\ holder' = w
  /\ worker' = [worker EXCEPT ![w] = [Idle EXCEPT !.pc = "claimed", !.phase = state.stage,
                                                  !.version = version]]
  /\ UNCHANGED <<row, evidence, tree, expired, container, github>>

Expire ==
  /\ holder # Nobody
  /\ ~ expired
  /\ expired' = TRUE
  /\ UNCHANGED <<row, evidence, tree, holder, worker, container, github>>

BlockTask(reason) ==
  /\ Move(Transition(state, "BLOCK", reason, FALSE), 1)
  /\ UNCHANGED <<revision, pull, evidence, tree>>

(* recover(): the expired lease is blocked for a human, never rerun.        *)
Recover ==
  /\ RowFree
  /\ expired
  /\ BlockTask("MISSING_CONFIGURATION")
  /\ UNCHANGED <<worker, container, github>>

(* What a worker still needs when its phase raised, or chose its result.     *)
Failing(w)     == [Idle EXCEPT !.pc = "failing", !.version = worker[w].version]
Chosen(w, act) == [Idle EXCEPT !.pc = "recorded", !.version = worker[w].version, !.result = act]

(* The controller dies; its container runs on and keeps the workspace lock. *)
Crash(w) ==
  /\ worker[w].pc # "idle"
  /\ worker' = [worker EXCEPT ![w] = Idle]
  /\ container' = IF container.owner = w THEN [container EXCEPT !.owner = Nobody] ELSE container
  /\ UNCHANGED <<row, evidence, tree, lease, github>>

(* sweep() stops a running container whose lease is no longer valid; the     *)
(* worker that waits for it, if it lives, sees it fail.                     *)
Sweep ==
  /\ container # NoRun
  /\ ~ (holder # Nobody /\ ~ expired /\ container.version = version)
  /\ container' = NoRun
  /\ worker' = [w \in Workers |->
       IF w = container.owner THEN Failing(w) ELSE worker[w]]
  /\ UNCHANGED <<row, evidence, tree, lease, github>>

(* The phase raises: a failed step, a revoked lease, a controller that      *)
(* stops.  run_container_job() stops the container it was waiting for.      *)
Raise(w) ==
  /\ worker' = [worker EXCEPT ![w] = Failing(w)]
  /\ container' = IF container.owner = w THEN NoRun ELSE container

FailPhase(w) ==
  /\ worker[w].pc \in {"claimed", "loaded", "running", "ran", "opened", "recorded"}
  /\ Raise(w)
  /\ UNCHANGED <<row, evidence, tree, lease, github>>

(* block(): only with the token of the lease, and the task with its job.    *)
Block(w) ==
  /\ RowFree
  /\ worker[w].pc = "failing"
  /\ worker' = [worker EXCEPT ![w] = Idle]
  /\ IF holder = w /\ worker[w].version = version
     THEN \E reason \in {"MISSING_CONFIGURATION", "MISSING_REQUIREMENT"} : BlockTask(reason)
     ELSE UNCHANGED <<row, evidence, tree, lease>>
  /\ UNCHANGED <<container, github>>

(* complete(): fenced by the token, the expiry and the version.             *)
Complete(w) ==
  /\ RowFree
  /\ worker[w].pc = "recorded"
  /\ Leased(w)
  /\ LET moved == Transition(state, worker[w].result, "NONE", FALSE)
     IN  \/ Move(moved, 1)
         \/ /\ worker[w].result = "PUBLISHED"
            /\ Move(Transition(moved, "REVIEW_FIX", "NONE", FALSE), 2)
  /\ worker' = [worker EXCEPT ![w] = Idle]
  /\ UNCHANGED <<revision, pull, evidence, tree, container, github>>

DropResult(w) ==
  /\ RowFree
  /\ worker[w].pc = "recorded"
  /\ ~ Leased(w)
  /\ worker' = [worker EXCEPT ![w] = Idle]
  /\ UNCHANGED <<row, evidence, tree, lease, container, github>>

-----------------------------------------------------------------------------
(* Validation and publication.                                             *)

(* load_phase_context() keeps the task's row as it is now; publish_phase()   *)
(* then asks the gate about that row.                                      *)
Load(w) ==
  /\ worker[w].pc = "claimed"
  /\ worker[w].phase \in {"VALIDATING", "PUBLISHING"}
  /\ IF worker[w].phase = "PUBLISHING" => AllPassed(revision, state.req)
     THEN worker' = [worker EXCEPT ![w].pc = "loaded", ![w].req = state.req,
                                   ![w].rev = revision]
     ELSE worker' = [worker EXCEPT ![w] = Failing(w)]
  /\ UNCHANGED <<row, evidence, tree, lease, container, github>>

(* run_container_job(): the container takes the workspace lock or exits.    *)
StartContainer(w) ==
  /\ worker[w].pc = "loaded"
  /\ IF container = NoRun
     THEN /\ container' = [op |-> worker[w].phase, owner |-> w,
                           version |-> worker[w].version, sha |-> worker[w].rev]
          /\ worker' = [worker EXCEPT ![w].pc = "running"]
     ELSE /\ worker' = [worker EXCEPT ![w] = Failing(w)]
          /\ UNCHANGED container
  /\ UNCHANGED <<row, evidence, tree, lease, github>>

(* The container ends; its controller, if it lives, has the receipt.        *)
EndContainer(sha, passed) ==
  /\ container' = NoRun
  /\ worker' = [w \in Workers |->
       IF w = container.owner
       THEN [worker[w] EXCEPT !.pc = "ran", !.sha = sha, !.passed = passed]
       ELSE worker[w]]

(* validate(): the checks pass or fail; what passed is committed.           *)
RunChecks ==
  /\ container.op = "VALIDATING"
  /\ \E passed \in BOOLEAN :
       LET head == IF passed /\ tree.dirty THEN tree.head + 1 ELSE tree.head
       IN  /\ head \in Revision
           /\ tree' = [head |-> head, dirty |-> tree.dirty /\ ~ passed]
           /\ EndContainer(head, passed)
  /\ UNCHANGED <<row, evidence, lease, github>>

(* Mutant: the result is stored although the task has moved on.             *)
RecordLate(w) ==
  /\ RowFree
  /\ worker[w].pc = "ran"
  /\ worker[w].phase = "VALIDATING"
  /\ evidence' = evidence \cup {[sha |-> worker[w].sha, req |-> worker[w].req,
                                 passed |-> worker[w].passed]}
  /\ revision' = worker[w].sha
  /\ worker' = [worker EXCEPT ![w] =
       Chosen(w, IF worker[w].passed THEN "VALIDATION_PASSED" ELSE "VALIDATION_FAILED")]
  /\ UNCHANGED <<state, version, pull, tree, lease, container, github>>

(* The evidence and the revision are stored together, unless the task moved. *)
RecordValidation(w) ==
  /\ RowFree
  /\ worker[w].pc = "ran"
  /\ worker[w].phase = "VALIDATING"
  /\ IF worker[w].version = version
     THEN /\ evidence' = evidence \cup {[sha |-> worker[w].sha, req |-> worker[w].req,
                                         passed |-> worker[w].passed]}
          /\ revision' = worker[w].sha
          /\ \E result \in {"VALIDATION_FAILED"} \cup
                           (IF worker[w].passed THEN {"VALIDATION_PASSED"} ELSE {}) :
               worker' = [worker EXCEPT ![w] = Chosen(w, result)]
     ELSE /\ worker' = [worker EXCEPT ![w] = Failing(w)]
          /\ UNCHANGED <<evidence, revision>>
  /\ UNCHANGED <<state, version, pull, tree, lease, container, github>>

(* execute() of the Git runner: a fast-forward push, never a forced one.    *)
FastForward(sha) == branch <= sha

Push ==
  /\ container.op = "PUBLISHING"
  /\ FastForward(container.sha)
  /\ branch' = container.sha
  /\ clear' = (clear /\ branch = container.sha)
  /\ EndContainer(container.sha, TRUE)
  /\ UNCHANGED <<row, evidence, tree, lease, pulls, late>>

(* GitHubDelivery.publish(): the open pull request of the branch, or a new  *)
(* one, which GitHub refuses for a branch without commits of its own; its   *)
(* head has to be the revision just pushed.                                 *)
OpenPull(w) ==
  /\ worker[w].pc = "ran"
  /\ worker[w].phase = "PUBLISHING"
  /\ OpenPulls = {} => NewPulls # {}
  /\ LET n == IF OpenPulls # {} THEN CHOOSE p \in OpenPulls : TRUE
              ELSE CHOOSE p \in NewPulls : \A q \in NewPulls : p <= q
     IN  IF OpenPulls = {} /\ branch = Base
         THEN /\ worker' = [worker EXCEPT ![w] = Failing(w)]
              /\ UNCHANGED pulls
         ELSE /\ pulls' = [pulls EXCEPT ![n].open = TRUE]
              /\ worker' = [worker EXCEPT ![w] =
                   IF branch = worker[w].sha THEN [worker[w] EXCEPT !.pc = "opened", !.pull = n]
                   ELSE Failing(w)]
  /\ UNCHANGED <<row, evidence, tree, lease, container, branch, clear, late>>

(* The pull request is stored, unless the task moved.                       *)
RecordPull(w) ==
  /\ RowFree
  /\ worker[w].pc = "opened"
  /\ IF worker[w].version = version
     THEN /\ pull' = worker[w].pull
          /\ worker' = [worker EXCEPT ![w] = Chosen(w, "PUBLISHED")]
     ELSE /\ worker' = [worker EXCEPT ![w] = Failing(w)]
          /\ UNCHANGED pull
  /\ UNCHANGED <<state, version, revision, evidence, tree, lease, container, github>>

-----------------------------------------------------------------------------
(* The merge gate.                                                         *)

(* evidence() and MergePolicy.blockers(), on what GitHub reports now.       *)
Eligible ==
  /\ pulls[pull].open
  /\ branch = revision
  /\ AllPassed(revision, state.req)
  /\ clear

(* Mutant: merged at whatever head.                                         *)
MergedAtAnyHead == pulls[pull].merged

MergedAsExpected == pulls[pull].merged /\ HeadOf(pull) = revision

(* merge_phase(): the rows are locked, the lease and the evidence checked.  *)
DecideMerge(w) ==
  LET decided(result) == worker' = [worker EXCEPT ![w] = Chosen(w, result)]
  IN  /\ RowFree
      /\ worker[w].pc = "claimed"
      /\ worker[w].phase = "MERGING"
      /\ IF Leased(w) /\ pull > 0
         THEN \/ MergedAsExpected /\ decided("MERGED")
              \/ ~ MergedAsExpected /\ Eligible
                 /\ worker' = [worker EXCEPT ![w].pc = "submitting", ![w].sha = revision,
                                             ![w].pull = pull]
              \/ ~ MergedAsExpected /\ ~ Eligible /\ decided("MERGE_RECHECK")
         ELSE worker' = [worker EXCEPT ![w] = Failing(w)]
      /\ UNCHANGED <<row, evidence, tree, lease, container, github>>

(* GitHub merges an open pull request whose head is the one asked for.      *)
Accepts(n, sha) == n > 0 /\ pulls[n].open /\ branch = sha
MergeAt(n)      == pulls' = [pulls EXCEPT ![n] = [open |-> FALSE, merged |-> TRUE,
                                                  head |-> branch]]

(* The merge request and its answer.  A request may be refused, be lost, be  *)
(* answered too late, or be carried out after the program stopped waiting.  *)
SubmitMerge(w) ==
  /\ worker[w].pc = "submitting"
  /\ \/ /\ Accepts(worker[w].pull, worker[w].sha)
        /\ ~ expired
        /\ MergeAt(worker[w].pull)
        /\ \/ worker' = [worker EXCEPT ![w] = Chosen(w, "MERGED")]
           \/ worker' = [worker EXCEPT ![w] = Failing(w)]
        /\ UNCHANGED late
     \/ /\ worker' = [worker EXCEPT ![w] = Failing(w)]
        /\ late' \in IF expired THEN {late} ELSE {late, worker[w].sha}
        /\ UNCHANGED pulls
  /\ UNCHANGED <<row, evidence, tree, lease, container, branch, clear>>

-----------------------------------------------------------------------------
(* github_event(), for a webhook and for the periodic recheck.              *)

AwaitsReview ==
  /\ RowFree
  /\ state.status = "WAITING_EXTERNAL"
  /\ state.stage = "REVIEWING"
  /\ ~ state.takeover
  /\ pull > 0

Keep == UNCHANGED <<revision, pull, evidence, tree, worker, container, github>>

ReviewFeedback ==
  /\ AwaitsReview
  /\ Move(Transition(state, "REVIEW_FIX", "NONE", FALSE), 1)
  /\ Keep

HeadChanged ==
  /\ AwaitsReview
  /\ HeadOf(pull) # revision
  /\ Move(Transition(state, "BLOCK", "MERGE_CONFLICT", FALSE), 1)
  /\ Keep

(* Mutant: the recheck leaves a task without an open pull request alone.    *)
MergedWhileOpen ==
  /\ AwaitsReview
  /\ OpenPulls # {}
  /\ MergedAsExpected
  /\ Move(Transition(Transition(state, "MERGE_AUTHORIZED", "NONE", FALSE),
                     "MERGED", "NONE", FALSE), 2)
  /\ Keep

MergedExternally ==
  /\ AwaitsReview
  /\ MergedAsExpected
  /\ Move(Transition(Transition(state, "MERGE_AUTHORIZED", "NONE", FALSE),
                     "MERGED", "NONE", FALSE), 2)
  /\ Keep

AuthorizeMerge ==
  /\ AwaitsReview
  /\ Eligible
  /\ Move(Transition(state, "MERGE_AUTHORIZED", "NONE", FALSE), 1)
  /\ Keep

Recheck == HeadChanged \/ MergedExternally \/ AuthorizeMerge

-----------------------------------------------------------------------------
(* GitHub and its users.                                                   *)

Unrelated == UNCHANGED <<row, evidence, tree, lease, worker, container>>

(* Approvals, checks, blocking reviews and mergeability come and go.        *)
Review ==
  /\ OpenPulls # {}
  /\ clear' = ~ clear
  /\ Unrelated /\ UNCHANGED <<branch, pulls, late>>

ForeignPush ==
  /\ OpenPulls # {}
  /\ branch' = Foreign
  /\ clear' = FALSE
  /\ Unrelated /\ UNCHANGED <<pulls, late>>

HumanMerge ==
  /\ \E n \in OpenPulls : MergeAt(n)
  /\ Unrelated /\ UNCHANGED <<branch, clear, late>>

LateMerge ==
  /\ late > 0
  /\ late' = 0
  /\ IF \E n \in OpenPulls : Accepts(n, late)
     THEN \E n \in OpenPulls : MergeAt(n)
     ELSE UNCHANGED pulls
  /\ Unrelated /\ UNCHANGED <<branch, clear>>

-----------------------------------------------------------------------------
WorkerStep(w) ==
  \/ Load(w) \/ StartContainer(w) \/ RecordValidation(w)
  \/ OpenPull(w) \/ RecordPull(w) \/ DecideMerge(w) \/ SubmitMerge(w)
  \/ Complete(w) \/ DropResult(w) \/ Block(w)

Next ==
  \/ \E a \in Commands : Control(a)
  \/ Revise
  \/ DeveloperTurn
  \/ \E w \in Workers : Claim(w) \/ WorkerStep(w) \/ FailPhase(w) \/ Crash(w)
  \/ Expire \/ Recover \/ Sweep
  \/ RunChecks \/ Push
  \/ ReviewFeedback \/ Recheck
  \/ Review \/ ForeignPush \/ HumanMerge \/ LateMerge

Spec == Init /\ [][Next]_vars

(***************************************************************************)
(* Fairness: the scheduler claims and recovers, a living worker goes on, a  *)
(* lease that nobody renews runs out, and the recheck loop comes back every *)
(* minute.  Operators and GitHub's users are never required to act.        *)
(***************************************************************************)
Lapse == Expire /\ \A w \in Workers : ~ (holder = w /\ worker[w].pc # "idle")
Fairness ==
  /\ \A w \in Workers : WF_vars(WorkerStep(w))
  /\ WF_vars(\E w \in Workers : Claim(w))
  /\ WF_vars(Lapse) /\ WF_vars(Recover) /\ WF_vars(Recheck)
FairSpec == Spec /\ Fairness

-----------------------------------------------------------------------------
(* A task that ends MERGED was delivered: its recorded pull request is       *)
(* merged on GitHub, at the recorded revision, and that revision passed      *)
(* every check for the requirement the task ended with.  Lost answers,       *)
(* merges by people, late requests, revisions and dead workers included.     *)
MergedIsDelivered ==
  state.status = "MERGED" =>
    /\ pull > 0
    /\ pulls[pull].merged
    /\ pulls[pull].head = revision
    /\ AllPassed(revision, state.req)

(* What is reviewed is what was validated: while the task waits for review  *)
(* or merges, its recorded pull request shows the recorded revision, unless *)
(* somebody else pushed; no container or worker of an earlier attempt moves  *)
(* either of the two.                                                      *)
ReviewedHeadIsOurs ==
  state.stage \in {"REVIEWING", "MERGING"} =>
    /\ pull > 0
    /\ HeadOf(pull) \in {revision, Foreign}
    /\ AllPassed(revision, state.req)

(* The moment a merge request leaves for GitHub, the task still authorizes   *)
(* it: active, merging, not taken over, at this revision and with passing    *)
(* evidence for its present requirement.  Nothing can slip between the check *)
(* and the request.                                                        *)
SubmitsOnlyAuthorized ==
  [][\A w \in Workers :
       worker[w].pc = "submitting" /\ (pulls' # pulls \/ late' # late)
         /\ worker'[w].pc # "submitting" =>
           /\ state.status = "ACTIVE"
           /\ state.stage = "MERGING"
           /\ revision = worker[w].sha
           /\ pull = worker[w].pull
           /\ AllPassed(revision, state.req)]_vars

(* A merge that GitHub carried out, by the program or by a person, is        *)
(* noticed: the task does not go on waiting for it, even when the answer was *)
(* lost and the worker died (unless the bound on versions stops the task).   *)
MergeIsNoticed ==
  (pull > 0 /\ MergedAsExpected /\ state.status \in {"ACTIVE", "WAITING_EXTERNAL"}
     /\ state.stage \in {"REVIEWING", "MERGING"}) ~>
    \/ state.status \notin {"ACTIVE", "WAITING_EXTERNAL"}
    \/ state.stage \notin {"REVIEWING", "MERGING"}
    \/ version >= MaxVersion - 1

(* docs/task-lifecycle.md: "After successful validation, the task advances   *)
(* to publishing.  Publication creates or updates the GitHub pull request." *)
(* A candidate that passed validation and reached PUBLISHING can pass the    *)
(* gate of publish_phase(), which asks for that very evidence.              *)
ValidatedIsPublishable ==
  state.stage = "PUBLISHING" /\ revision # Base => AllPassed(revision, state.req)
=============================================================================
