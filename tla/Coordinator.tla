----------------------------- MODULE Coordinator -----------------------------
(***************************************************************************)
(* Conversation decisions about one task: the inbox of events, the claim    *)
(* of a batch, the model call made without any lock, and the application of  *)
(* the decision (coordinator/infrastructure/inbox.py, processor.py,         *)
(* model.py, actions.py; coordinator/application/process.py;                *)
(* coordinator/domain/protocol.py).  The message an applied decision leaves  *)
(* behind is delivered in module Replies.                                   *)
(*                                                                         *)
(* Every action is one transaction under the Task row lock, or a step of a   *)
(* decision loop in memory.  created_at orders events: run.seen and          *)
(* act.seen are the number of events that existed when the row was made.     *)
(***************************************************************************)
EXTENDS Lifecycle, FiniteSets

CONSTANTS
  MaxEvents,    (* bound: rows of coordinator_events                        *)
  MaxRuns,      (* bound: rows of coordinator_runs                          *)
  MaxVersion,   (* bound: lifecycle versions explored                       *)
  BatchLimit,   (* events of one claim                                      *)
  Loops,        (* decision loops of the controller replicas                *)
  Directives,   (* the decisions the model may return                       *)
  Outside,      (* lifecycle actions that other actors take                 *)
  Modes         (* COORDINATOR_MODE of the conversation's provider          *)

ASSUME CoordinatorAssumption ==
  /\ MaxEvents \in Nat /\ MaxRuns \in Nat /\ MaxVersion \in Nat \ {0}
  /\ BatchLimit \in Nat \ {0}
  /\ Directives \subseteq {"WAIT", "REPLY", "REQUEST_REVIEW", "UPDATE_SUMMARY",
                           "SYNC_STATUS", "REQUEST_VALIDATION", "ASK_HUMAN",
                           "IMPLEMENT", "REPAIR", "PAUSE", "CANCEL"}
  /\ Outside \subseteq Action \ {"BLOCK"}
  /\ Modes \subseteq {"off", "shadow", "active"}

VARIABLES
  task,        (* the Task row: state, lifecycle_version, enrolled           *)
  suspended,   (* its Team is disabled, paused or archived                   *)
  generating,  (* an AIRun of the task is RUNNING                            *)
  mode,        (* the configured mode of the conversation's provider         *)
  event,       (* CoordinatorEvent rows in the order of created_at           *)
  run,         (* CoordinatorRun rows in the order of created_at             *)
  act,         (* the CoordinatorAction of each run                          *)
  human,       (* the HumanRequest of each run                               *)
  loop         (* what process_one() holds between its transactions          *)

vars == <<task, suspended, generating, mode, event, run, act, human, loop>>

Events == 1..MaxEvents
Runs   == 1..MaxRuns

Quiet == {"WAIT", "REPLY"}
Work  == {"IMPLEMENT", "REPAIR"}

EventRow == [status : {"ABSENT", "QUEUED", "CLAIMED", "PROCESSED", "FAILED", "SUSPENDED",
                       "UNAUTHORIZED"},
             engineering : BOOLEAN, run : Runs \cup {0}, answers : Runs \cup {0}]
RunRow   == [status : {"ABSENT", "CLAIMED", "READY", "SHADOW", "COMPLETED", "SUPERSEDED",
                       "REJECTED", "FAILED"},
             mode : Modes \cup {"off"}, version : 0..MaxVersion, req : Nat,
             seen : 0..MaxEvents, engineering : BOOLEAN]
ActRow   == [status : {"ABSENT", "PENDING", "WAITING_ENGINEER", "APPLIED", "SUPERSEDED",
                       "REJECTED"},
             directive : Directives \cup {"NONE"}, seen : 0..MaxEvents]
HumanRow == [status : {"ABSENT", "OPEN", "ANSWERED", "CANCELLED"},
             version : 0..MaxVersion, req : Nat]
LoopRow  == [pc : {"idle", "admitting", "inferring", "checking", "completing", "failing"},
             run : Runs \cup {0}, call : {0, 1}, directive : Directives \cup {"NONE"},
             cause : {"none", "advanced", "other"}, superseded : BOOLEAN]

Resting == [pc |-> "idle", run |-> 0, call |-> 0, directive |-> "NONE", cause |-> "none",
            superseded |-> FALSE]

Init ==
  /\ task \in {[state |-> NewState, version |-> 1, enrolled |-> b] : b \in BOOLEAN}
  /\ suspended = FALSE
  /\ generating = FALSE
  /\ mode \in Modes
  /\ event = [e \in Events |-> [status |-> "ABSENT", engineering |-> FALSE, run |-> 0,
                                answers |-> 0]]
  /\ run = [r \in Runs |-> [status |-> "ABSENT", mode |-> "off", version |-> 0, req |-> 0,
                            seen |-> 0, engineering |-> FALSE]]
  /\ act = [r \in Runs |-> [status |-> "ABSENT", directive |-> "NONE", seen |-> 0]]
  /\ human = [r \in Runs |-> [status |-> "ABSENT", version |-> 0, req |-> 0]]
  /\ loop = [p \in Loops |-> Resting]

-----------------------------------------------------------------------------
(* Queries.                                                                *)

(* The rows that exist are an initial segment of their identities.          *)
Arrived == IF \E e \in Events : event[e].status = "ABSENT"
           THEN (CHOOSE e \in Events : /\ event[e].status = "ABSENT"
                                       /\ \A f \in 1..(e - 1) : event[f].status # "ABSENT") - 1
           ELSE MaxEvents
FreshRun == CHOOSE r \in Runs : /\ run[r].status = "ABSENT"
                                /\ \A s \in 1..(r - 1) : run[s].status # "ABSENT"

Queued   == {e \in Events : event[e].status = "QUEUED"}
Batch(r) == {e \in Events : event[e].run = r}
Deciding == {r \in Runs : run[r].status \in {"CLAIMED", "READY"}}

Current(row) == row.version = task.version /\ row.req = task.state.req

(* latest_human_request(): open or answered at the task's own revisions.     *)
Asked == {r \in Runs : human[r].status \in {"OPEN", "ANSWERED"} /\ Current(human[r])}
Latest(S) == CHOOSE r \in S : \A s \in S : s <= r

(* Mutant: the requeued messages keep the run that gave them up.               *)
RequeueInRun(r) ==
  [e \in Events |-> IF e \in Batch(r) THEN [event[e] EXCEPT !.status = "QUEUED"] ELSE event[e]]

(* requeue_run_events(), and the other ends of a batch.                      *)
Requeue(r) ==
  [e \in Events |-> IF e \in Batch(r) THEN [event[e] EXCEPT !.status = "QUEUED", !.run = 0]
                    ELSE event[e]]
Mark(r, status) ==
  [e \in Events |-> IF e \in Batch(r) THEN [event[e] EXCEPT !.status = status] ELSE event[e]]

-----------------------------------------------------------------------------
(* The inbox.                                                              *)

Append(row) == event' = [event EXCEPT ![Arrived + 1] = row]

(* enqueue(): a comment or message.  An authorized one answers the question   *)
(* that is open for the current revisions, if it came by that conversation.   *)
Enqueue ==
  /\ Arrived < MaxEvents
  /\ mode # "off"
  /\ \/ /\ Append([status |-> "UNAUTHORIZED", engineering |-> FALSE, run |-> 0,
                   answers |-> 0])
        /\ UNCHANGED human
     \/ /\ Append([status |-> "QUEUED", engineering |-> FALSE, run |-> 0, answers |-> 0])
        /\ UNCHANGED human
     \/ /\ mode = "active"
        /\ Asked # {}
        /\ Append([status |-> "QUEUED", engineering |-> FALSE, run |-> 0,
                   answers |-> Latest(Asked)])
        /\ human' = [human EXCEPT ![Latest(Asked)].status = "ANSWERED"]
  /\ UNCHANGED <<task, suspended, generating, mode, run, act, loop>>

(* human_response(): the dashboard's answer form.                           *)
Respond(r) ==
  /\ Arrived < MaxEvents
  /\ ~ suspended
  /\ ~ task.state.takeover
  /\ task.state.status \notin Terminal \cup {"PAUSED"}
  /\ human[r].status = "OPEN"
  /\ Current(human[r])
  /\ mode = "active"
  /\ Append([status |-> "QUEUED", engineering |-> FALSE, run |-> 0, answers |-> r])
  /\ human' = [human EXCEPT ![r].status = "ANSWERED"]
  /\ UNCHANGED <<task, suspended, generating, mode, run, act, loop>>

(* record_transition() by anyone but the Coordinator, with the event that     *)
(* notify_engineering() adds once somebody has spoken about the task.         *)
Announced == {"PUBLISHED", "MERGED", "BLOCK", "START", "IMPLEMENTED", "VALIDATION_PASSED",
              "VALIDATION_FAILED", "CANCEL"}
Spoken == \E e \in Events : /\ event[e].status \notin {"ABSENT", "UNAUTHORIZED"}
                            /\ ~ event[e].engineering

Transit(a) ==
  /\ Permits(task.state, a, "NONE")
  /\ task.version < MaxVersion
  /\ task' = [task EXCEPT !.state = Transition(@, a, "NONE", FALSE), !.version = @ + 1]
  /\ IF a \in Announced /\ Spoken /\ mode # "off"
     THEN /\ Arrived < MaxEvents
          /\ Append([status |-> "QUEUED", engineering |-> TRUE, run |-> 0, answers |-> 0])
     ELSE UNCHANGED event
  /\ UNCHANGED <<suspended, generating, mode, run, act, human, loop>>

(* A Team is shut down or woken; a Developer generation starts or settles; a   *)
(* restart changes the configured mode.                                       *)
Toggle ==
  /\ \/ suspended' = ~ suspended /\ UNCHANGED <<generating, mode>>
     \/ ~ generating /\ generating' = TRUE /\ UNCHANGED <<suspended, mode>>
     \/ /\ \E configured \in Modes \ {mode} : mode' = configured
        /\ UNCHANGED <<suspended, generating>>
  /\ UNCHANGED <<task, event, run, act, human, loop>>

Settle ==
  /\ generating
  /\ generating' = FALSE
  /\ UNCHANGED <<task, suspended, mode, event, run, act, human, loop>>

-----------------------------------------------------------------------------
(* Decisions.                                                              *)

Authorized == ~ suspended /\ ~ task.state.takeover
Admittable == Queued # {} /\ Deciding = {}
Oldest == {e \in Queued : Cardinality({f \in Queued : f < e}) < BatchLimit}

(* claim() finds the task out of bounds: one event is set aside.              *)
SuspendEvent(p) ==
  /\ loop[p].pc = "idle"
  /\ Admittable
  /\ ~ Authorized
  /\ \E e \in Queued : event' = [event EXCEPT ![e].status = "SUSPENDED"]
  /\ UNCHANGED <<task, suspended, generating, mode, run, act, human, loop>>

(* claim() with the provider switched off: the whole batch is set aside.       *)
SuspendBatch(p) ==
  /\ loop[p].pc = "idle"
  /\ Admittable
  /\ Authorized
  /\ mode = "off"
  /\ event' = [e \in Events |-> IF e \in Oldest THEN [event[e] EXCEPT !.status = "SUSPENDED"]
                               ELSE event[e]]
  /\ UNCHANGED <<task, suspended, generating, mode, run, act, human, loop>>

(* claim(): the oldest queued events, those whose author has lost authority    *)
(* refused; the rest become the batch of a new run at the task's revisions.    *)
NewRun(status, admitted) ==
  [status |-> status, mode |-> mode, version |-> task.version, req |-> task.state.req,
   seen |-> Arrived, engineering |-> \A e \in admitted : event[e].engineering]

Claim(p) ==
  /\ loop[p].pc = "idle"
  /\ Admittable
  /\ Authorized
  /\ mode # "off"
  /\ \E r \in Runs : run[r].status = "ABSENT"
  /\ \E admitted \in SUBSET Oldest :
       /\ \A e \in Oldest : event[e].engineering => e \in admitted
       /\ LET refused == [e \in Events |->
                IF e \in Oldest \ admitted THEN [event[e] EXCEPT !.status = "UNAUTHORIZED"]
                ELSE event[e]]
              batch(status) == [e \in Events |->
                IF e \in admitted THEN [refused[e] EXCEPT !.status = status, !.run = FreshRun]
                ELSE refused[e]]
          IN  \/ /\ admitted = {}
                 /\ event' = refused
                 /\ UNCHANGED <<run, loop>>
              \/ /\ admitted # {}
                 /\ event' = batch("CLAIMED")
                 /\ run' = [run EXCEPT ![FreshRun] = NewRun("CLAIMED", admitted)]
                 /\ loop' = [loop EXCEPT ![p] = [Resting EXCEPT !.pc = "admitting",
                                                                !.run = FreshRun]]
              \/ /\ admitted # {}  (* the requirement exceeds its bound       *)
                 /\ event' = batch("FAILED")
                 /\ run' = [run EXCEPT ![FreshRun] = NewRun("FAILED", admitted)]
                 /\ UNCHANGED loop
  /\ UNCHANGED <<task, suspended, generating, mode, act, human>>

Fails(p, cause, superseded) ==
  loop' = [loop EXCEPT ![p].pc = "failing", ![p].cause = cause, ![p].superseded = superseded]
Goes(p, pc) == loop' = [loop EXCEPT ![p].pc = pc]
InMemory == UNCHANGED <<task, suspended, generating, mode, event, run, act, human>>

(* MeteredDecisionModel.decide() before the request: its refusals are plain    *)
(* ValueErrors, a changed task and an exhausted budget alike.                  *)
Admit(p) ==
  /\ loop[p].pc = "admitting"
  /\ \/ /\ run[loop[p].run].status = "CLAIMED" /\ Current(run[loop[p].run])
        /\ Goes(p, "inferring")
     \/ /\ run[loop[p].run].status = "CLAIMED" /\ ~ Current(run[loop[p].run])
        /\ Fails(p, "advanced", FALSE)
     \/ Fails(p, "other", FALSE)
  /\ InMemory

(* The answer: a decision, one request for more evidence, or nothing usable.    *)
Infer(p) ==
  /\ loop[p].pc = "inferring"
  /\ \/ \E d \in Directives :
          loop' = [loop EXCEPT ![p].pc = "checking", ![p].directive = d]
     \/ /\ loop[p].call = 0
        /\ loop' = [loop EXCEPT ![p].pc = "admitting", ![p].call = 1]
     \/ Fails(p, "other", FALSE)
  /\ InMemory

Awake(p) == loop[p].pc \in {"admitting", "inferring", "checking", "completing"}

(* ensure_authorized() raising, in the watcher at any time or at the end.       *)
Revoke(p) ==
  /\ Awake(p)
  /\ \/ /\ ~ Authorized \/ run[loop[p].run].status # "CLAIMED"
        /\ Fails(p, "other", FALSE)
     \/ /\ Authorized /\ run[loop[p].run].status = "CLAIMED"
        /\ ~ Current(run[loop[p].run])
        /\ Fails(p, "advanced", TRUE)
  /\ InMemory

TimeOut(p) == Awake(p) /\ Fails(p, "other", FALSE) /\ InMemory

FinalCheck(p) ==
  /\ loop[p].pc = "checking"
  /\ Authorized
  /\ run[loop[p].run].status = "CLAIMED"
  /\ Current(run[loop[p].run])
  /\ Goes(p, "completing")
  /\ InMemory

(* Mutant: complete() trusts the claim it made before the model call.           *)
StillClaimedLate(r) == TRUE

StillClaimed(r) == run[r].status = "CLAIMED"

(* complete(): the decision becomes a durable action of a READY run.            *)
Complete(p) ==
  LET r == loop[p].run
  IN  /\ loop[p].pc = "completing"
      /\ \/ /\ ~ StillClaimed(r)
            /\ loop' = [loop EXCEPT ![p] = Resting]
            /\ UNCHANGED <<event, run, act>>
         \/ /\ StillClaimed(r) /\ ~ Current(run[r])
            /\ Fails(p, "advanced", TRUE)
            /\ UNCHANGED <<event, run, act>>
         \/ /\ StillClaimed(r) /\ Current(run[r])
            /\ run' = [run EXCEPT ![r].status = IF run[r].mode = "shadow" THEN "SHADOW"
                                                  ELSE "READY"]
            /\ act' = IF run[r].mode = "shadow" THEN act
                      ELSE [act EXCEPT ![r] = [status |-> "PENDING", seen |-> Arrived,
                                               directive |-> loop[p].directive]]
            /\ event' = Mark(r, "PROCESSED")
            /\ loop' = [loop EXCEPT ![p] = Resting]
      /\ UNCHANGED <<task, suspended, generating, mode, human>>

(* fail()                                                                    *)
Fail(p) ==
  LET r == loop[p].run
  IN  /\ loop[p].pc = "failing"
      /\ IF run[r].status # "CLAIMED" THEN UNCHANGED <<event, run>>
         ELSE /\ run' = [run EXCEPT ![r].status = IF loop[p].superseded THEN "SUPERSEDED"
                                                  ELSE "FAILED"]
              /\ event' = IF loop[p].superseded THEN Requeue(r) ELSE Mark(r, "FAILED")
      /\ loop' = [loop EXCEPT ![p] = Resting]
      /\ UNCHANGED <<task, suspended, generating, mode, act, human>>

Crash(p) ==
  /\ loop[p].pc # "idle"
  /\ loop' = [loop EXCEPT ![p] = Resting]
  /\ InMemory

(* Mutant: recovery fails the run and forgets its messages.                     *)
RecoverRunOnly(r) ==
  /\ run[r].status = "CLAIMED"
  /\ run' = [run EXCEPT ![r].status = "FAILED"]
  /\ UNCHANGED <<task, suspended, generating, mode, event, act, human, loop>>

(* SqlCoordinationRuns.recover(): a paid attempt that was interrupted stays      *)
(* stopped; a suspended process may still be holding it.                        *)
Recover(r) ==
  /\ run[r].status = "CLAIMED"
  /\ run' = [run EXCEPT ![r].status = "FAILED"]
  /\ event' = Mark(r, "FAILED")
  /\ UNCHANGED <<task, suspended, generating, mode, act, human, loop>>

-----------------------------------------------------------------------------
(* Effects.                                                                *)

Newer(seen) == \E e \in Queued : e > seen

(* The actions execute_one() selects.                                        *)
Executable(r) ==
  \/ act[r].status = "PENDING"
  \/ act[r].status = "WAITING_ENGINEER" /\ (~ generating \/ Newer(act[r].seen))

(* _apply() looks at the Team and the mode again.                              *)
Allowed == ~ suspended /\ mode = "active"

(* An answered question that this batch carries the answer to.                *)
HumanContinuation(r) ==
  /\ Asked # {}
  /\ human[Latest(Asked)].status = "ANSWERED"
  /\ \E e \in Batch(r) : event[e].answers = Latest(Asked)

(* Mutant: only finished tasks are closed to decisions.                        *)
ValidateTerminalOnly(r) ==
  /\ ~ task.state.takeover
  /\ act[r].directive \notin Quiet => ~ run[r].engineering /\ task.state.status \notin Terminal

(* validate_effect(), the revisions compared before it.                        *)
ValidEffect(r) ==
  /\ ~ task.state.takeover
  /\ act[r].directive \notin Quiet =>
       /\ ~ run[r].engineering
       /\ task.state.status \notin Terminal \cup {"PAUSED"}
       /\ task.state.status = "WAITING_HUMAN" => HumanContinuation(r)

(* The Task rows a directive leads to; none when the lifecycle refuses it.      *)
Step(a, reason) ==
  IF Permits(task.state, a, reason)
  THEN {[task EXCEPT !.state = Transition(@, a, reason, FALSE), !.version = @ + 1]}
  ELSE {}

(* _request_engineering(): an enrolled task is paused, revised and resumed; any  *)
(* other gets a new requirement version and request_execution().                *)
Amended ==
  LET s       == task.state
      revised == [s EXCEPT !.req = @ + 1]
  IN  IF task.enrolled
      THEN {[task EXCEPT !.state = ResumeState(ReviseState(PauseState(s, FALSE))),
                         !.version = @ + 3]}
      ELSE {[task EXCEPT !.state = [revised EXCEPT !.status = "NEW", !.stage = "INTAKE",
                                                   !.wait = "NONE"],
                         !.version = @ + 1, !.enrolled = TRUE],
            [task EXCEPT !.state = Transition(revised, "BLOCK", "MISSING_CONFIGURATION", FALSE),
                         !.version = @ + 1]}

(* request_validation()                                                      *)
Revalidated ==
  IF ~ task.enrolled \/ task.state.status # "ACTIVE" THEN {}
  ELSE IF task.state.stage = "VALIDATING" THEN {task}
  ELSE Step("VALIDATE_CANDIDATE", "NONE")

Outcomes(d) ==
  CASE d = "ASK_HUMAN"          -> Step("BLOCK", "MISSING_REQUIREMENT")
    [] d \in Work               -> Amended
    [] d \in {"PAUSE", "CANCEL"} -> Step(d, "NONE")
    [] d = "REQUEST_VALIDATION" -> Revalidated
    [] OTHER                    -> {task}

Ends(r, runStatus, actStatus) ==
  /\ run' = [run EXCEPT ![r].status = runStatus]
  /\ act' = [act EXCEPT ![r].status = actStatus]

(* execute_one() when the task or the conversation has moved on: the batch is     *)
(* decided again.                                                              *)
Supersede(r) ==
  /\ Executable(r)
  /\ ~ Current(run[r]) \/ (Allowed /\ ValidEffect(r) /\ Newer(run[r].seen))
  /\ Ends(r, "SUPERSEDED", "SUPERSEDED")
  /\ event' = Requeue(r)
  /\ UNCHANGED <<task, suspended, generating, mode, human, loop>>

(* Some check of _apply() raises ValueError: authority, scope, an oversized        *)
(* message, unknown usage, or an effect that is not valid.                       *)
Reject(r) ==
  /\ Executable(r)
  /\ Current(run[r])
  /\ Ends(r, "REJECTED", "REJECTED")
  /\ UNCHANGED <<task, suspended, generating, mode, event, human, loop>>

Applicable(r) ==
  /\ Executable(r)
  /\ Current(run[r])
  /\ Allowed
  /\ ValidEffect(r)
  /\ ~ Newer(run[r].seen)

(* EngineeringBusy: a paid generation is never cancelled for an amendment.         *)
AwaitEngineer(r) ==
  /\ Applicable(r)
  /\ act[r].directive \in Work
  /\ generating
  /\ act' = [act EXCEPT ![r].status = "WAITING_ENGINEER"]
  /\ UNCHANGED <<task, suspended, generating, mode, event, run, human, loop>>

(* _apply() and _record_effect()                                              *)
Apply(r) ==
  /\ Applicable(r)
  /\ act[r].directive \in Work => ~ generating
  /\ \E after \in Outcomes(act[r].directive) :
       /\ after.version <= MaxVersion
       /\ task' = after
       /\ human' = IF act[r].directive # "ASK_HUMAN" THEN human
                   ELSE [q \in Runs |->
                           IF q = r THEN [status |-> "OPEN", version |-> after.version,
                                          req |-> after.state.req]
                           ELSE IF Asked # {} /\ q = Latest(Asked)
                           THEN [human[q] EXCEPT !.status = "CANCELLED"] ELSE human[q]]
  /\ Ends(r, "COMPLETED", "APPLIED")
  /\ UNCHANGED <<suspended, generating, mode, event, loop>>

Execute(r) == Supersede(r) \/ Reject(r) \/ AwaitEngineer(r) \/ Apply(r)

-----------------------------------------------------------------------------
Proceed(p) == \/ Admit(p) \/ Infer(p) \/ Revoke(p) \/ TimeOut(p) \/ FinalCheck(p)
              \/ Complete(p) \/ Fail(p)

Next ==
  \/ Enqueue
  \/ \E r \in Runs : Respond(r) \/ Recover(r) \/ Execute(r)
  \/ \E a \in Outside : Transit(a)
  \/ Toggle \/ Settle
  \/ \E p \in Loops : Claim(p) \/ SuspendEvent(p) \/ SuspendBatch(p) \/ Proceed(p) \/ Crash(p)

Spec == Init /\ [][Next]_vars

(* The decision loops poll and every step of one is bounded by a timeout; the      *)
(* effect loop polls execute_one() and recover(); a generation ends or its lease    *)
(* is recovered.                                                                *)
FairSpec ==
  /\ Spec
  /\ WF_vars(\E p \in Loops : Claim(p) \/ SuspendEvent(p) \/ SuspendBatch(p))
  /\ \A p \in Loops : WF_vars(Proceed(p))
  /\ \A r \in Runs : WF_vars(Recover(r)) /\ SF_vars(Execute(r))
  /\ WF_vars(Settle)

-----------------------------------------------------------------------------
(* Replicas that claim, crash, recover and finish late never have two decisions     *)
(* of a task under way, so decisions are made and applied one after another.        *)
OneDecisionAtATime == \A r, s \in Deciding : r = s

(* A message always has exactly one place: it waits without a run, or belongs to    *)
(* the run whose outcome it shares.  A superseded run keeps none, a decided or      *)
(* failed one loses none, whatever late worker or recovery touches them.           *)
NoMessageLost ==
  \A e \in Events :
    LET s == event[e].status
        r == event[e].run
    IN  /\ s \in {"ABSENT", "QUEUED", "SUSPENDED", "UNAUTHORIZED"} <=> r = 0
        /\ s = "CLAIMED"   => run[r].status = "CLAIMED"
        /\ s = "PROCESSED" => run[r].status \in {"READY", "SHADOW", "COMPLETED", "REJECTED"}
        /\ s = "FAILED"    => run[r].status = "FAILED"

(* Applying a decision never moves a task that an operator has paused, taken over    *)
(* or ended since it was decided, nor one that waits for a human answer this batch   *)
(* does not contain, and never cuts into a running generation to amend its work.     *)
OperatorHasTheLastWord ==
  [][\A r \in Runs : act[r].status # "APPLIED" /\ act'[r].status = "APPLIED" =>
       \/ task' = task
       \/ /\ task.state.status \notin Terminal \cup {"PAUSED"}
          /\ ~ task.state.takeover
          /\ task.state.status = "WAITING_HUMAN" =>
               \E e \in Events : event[e].run = r /\ event[e].answers # 0
          /\ task'.state.req # task.state.req => ~ generating]_vars

(* Once nothing new arrives every message is decided, refused or reported as         *)
(* failed, and no decision stays half done.                                       *)
EveryMessageSettles ==
  <>[](Deciding = {} /\ \A e \in Events : event[e].status \notin {"QUEUED", "CLAIMED"})

=============================================================================
