------------------------------- MODULE Budget -------------------------------
(***************************************************************************)
(* Spending: every paid request is an AIRun row that reserves its worst    *)
(* case before the purchase and is settled by a receipt, a failure, lease  *)
(* recovery, the container sweep, or an operator with evidence.            *)
(* Sources: agent_runtime/infrastructure/{reservations, accounting,        *)
(* helper_accounting, cost_queries, receipts, orphans}, engineering/       *)
(* application/develop, engineering/infrastructure/{consultation,          *)
(* development_setup, jobs}, coordinator/infrastructure/model, intake/     *)
(* infrastructure/metered, supervisor/infrastructure/service.              *)
(*                                                                         *)
(* A member of Runs is one request: its caller (pc), its row, and the      *)
(* provider's charge, which the program learns only from a receipt.        *)
(***************************************************************************)
EXTENDS Integers, FiniteSetsExt

CONSTANTS
  Runs, FundedTasks, FundedTeams,
  Scenarios,      \* the role and the task of each request, and the account limit
  FundedBy,         \* [FundedTasks -> FundedTeams]
  Unknown,        \* a cost no receipt has told (NULL in the row)
  NoLimit,        \* ACCOUNT_MONTHLY_BUDGET_USD is not set
  TaskLimit, TeamLimit, MonthLimit, RoleLimit,
  MinimumTurn,    \* minimum_developer_turn_allowance_usd
  SupervisorShare, \* what a Developer turn leaves for bounded supervision
  Amounts,        \* worst cases of metered requests
  MaxJobs, MaxMonth \* bounds: jobs per task, months

Roles == {"DEVELOPER", "HELPER", "SUPERVISOR", "COORDINATOR", "INTERPRETER"}

ASSUME BudgetAssumption ==
  /\ IsFiniteSet(Runs)
  /\ FundedBy \in [FundedTasks -> FundedTeams]
  /\ Scenarios \subseteq [work : UNION {[R -> [role : Roles, task : FundedTasks]] : R \in SUBSET Runs},
                          account : Nat \cup {NoLimit}]
  /\ Unknown \notin Int /\ NoLimit \notin Int
  /\ TaskLimit \in Nat /\ TeamLimit \in Nat /\ MonthLimit \in Nat /\ RoleLimit \in Nat
  /\ MinimumTurn \in Nat \ {0} /\ SupervisorShare \in Nat
  /\ Amounts \subseteq Nat \ {0}
  /\ MaxJobs \in Nat /\ MaxMonth \in Nat

VARIABLES
  work,       \* the requests made, chosen once
  account,    \* the account limit, chosen once
  row,        \* the AIRun rows
  pc,         \* where the caller of each request is
  plan,       \* the amount it asks for
  jobOf,      \* the job it runs under
  charge,     \* what the provider charged for it
  container,  \* its native runner container runs
  leaseOf,    \* each task's current job: generation and state of its lease
  native,     \* state of each task's Developer session
  suspended,  \* "no", "blocked" (still coordinated) or "stopped"
  month

budgetVars == <<work, account, row, pc, plan, jobOf, charge, container, leaseOf, native, suspended, month>>

RunStatus == {"NONE", "RUNNING", "INTERRUPTED", "ENDED"}
NoRow == [status |-> "NONE", cost |-> Unknown, reserve |-> 0, lost |-> FALSE,
          turn |-> FALSE, month |-> 0]
Requests == DOMAIN work
Role(r) == work[r].role
Task(r) == work[r].task
Team(r) == FundedBy[Task(r)]
OwnsJob(r) == Role(r) \in {"DEVELOPER", "HELPER", "SUPERVISOR"}
Native(r)  == Role(r) \in {"DEVELOPER", "HELPER"}

BudgetInit ==
  /\ \E s \in Scenarios : work = s.work /\ account = s.account
  /\ row = [r \in Runs |-> NoRow]
  /\ pc = [r \in Runs |-> "idle"]
  /\ plan = [r \in Runs |-> 0]
  /\ jobOf = [r \in Runs |-> 0]
  /\ charge = [r \in Runs |-> 0]
  /\ container = [r \in Runs |-> FALSE]
  /\ leaseOf = [t \in FundedTasks |-> [job |-> 0, state |-> "none"]]
  /\ native = [t \in FundedTasks |-> "READY"]
  /\ suspended = [t \in FundedTasks |-> "no"]
  /\ month = 0

-----------------------------------------------------------------------------
(* What admission reads.  A running row counts with its reservation, a      *)
(* stopped one with its receipt; a cost that is not known is never zero.    *)
BudgetCost(r) == IF row[r].status = "RUNNING" THEN row[r].reserve ELSE row[r].cost
Coordinating(r) == row[r].status = "RUNNING" /\ Role(r) = "COORDINATOR"
EngineeringCost(r) == IF Coordinating(r) THEN row[r].reserve ELSE row[r].cost

Rows == {r \in Requests : row[r].status # "NONE"}
OfTask(t) == {r \in Rows : Task(r) = t}
OfTeam(m) == {r \in Rows : Team(r) = m}
OfMonth == {r \in Rows : row[r].month = month \/ row[r].status = "RUNNING"
                                              \/ BudgetCost(r) = Unknown}
Total(S) == MapThenSumSet(BudgetCost, S)
AllKnown(S) == \A r \in S : BudgetCost(r) # Unknown

(* The Developer may overlap a Coordinator request; a helper's last check   *)
(* may not overlap anything.                                                *)
SettledButCoordination(t) == \A r \in OfTask(t) : EngineeringCost(r) # Unknown
AllSettled(t) == \A r \in OfTask(t) : row[r].status # "RUNNING" /\ row[r].cost # Unknown

Smaller(a, b) == IF a < b THEN a ELSE b
DeveloperAllowance(t) ==
  Smaller(TaskLimit - Total(OfTask(t)), TeamLimit - Total(OfTeam(FundedBy[t]))) - SupervisorShare
HelperAllowance(t) ==
  Smaller(TaskLimit - MapThenSumSet(EngineeringCost, OfTask(t)),
          RoleLimit - MapThenSumSet(EngineeringCost, {r \in OfTask(t) : Role(r) = "HELPER"}))

Leased(r) ==
  /\ leaseOf[Task(r)] = [job |-> jobOf[r], state |-> "live"]
  /\ suspended[Task(r)] = "no"

(* reserve_budget(): the limits that the amount must fit, with the Team and *)
(* account rows of the moment.                                              *)
Admitted(r) ==
  /\ \/ suspended[Task(r)] = "no"
     \/ suspended[Task(r)] = "blocked" /\ Role(r) = "COORDINATOR"
  /\ account # NoLimit => AllKnown(OfMonth) /\ Total(OfMonth) + plan[r] <= account
  /\ LET monthly == OfMonth \cap OfTeam(Team(r))
     IN  AllKnown(monthly) /\ Total(monthly) + plan[r] <= MonthLimit
  /\ AllKnown(OfTeam(Team(r)))
  /\ Total(OfTeam(Team(r))) + plan[r] <= TeamLimit
  /\ Total(OfTask(Task(r))) + plan[r] <= TaskLimit
  /\ Role(r) \in {"HELPER", "INTERPRETER"} =>
       Total({q \in OfTask(Task(r)) : Role(q) = Role(r)}) + plan[r] <= RoleLimit

Holds(r) == pc[r] = "admitting"
(* Mutant: the lock is the Task row, not the Team's and the account's.      *)
LockFreeTask(r) == \A q \in Requests : Holds(q) => Task(q) # Task(r)

(* Admission holds the Team row, and the account's advisory lock when that  *)
(* limit is set, from its reads to the commit of the new row.               *)
LockFree(r) == \A q \in Requests : Holds(q) => account = NoLimit /\ Team(q) # Team(r)

-----------------------------------------------------------------------------
(* A phase plans a turn from what is left.  One controller runs the native  *)
(* turns of a job one after another.                                        *)
InProgress(r) == pc[r] \in {"checked", "admitting", "reserved", "paid"}
MayPlan(r) ==
  /\ pc[r] = "idle"
  /\ leaseOf[Task(r)].state = "live" /\ suspended[Task(r)] = "no"
  /\ \A q \in Requests : Task(q) = Task(r) /\ Native(q) /\ InProgress(q) =>
        jobOf[q] # leaseOf[Task(r)].job

Plan(r, amount, j) ==
  /\ pc' = [pc EXCEPT ![r] = "checked"]
  /\ plan' = [plan EXCEPT ![r] = amount]
  /\ jobOf' = [jobOf EXCEPT ![r] = j]
  /\ UNCHANGED <<work, account, row, charge, container, leaseOf, native, suspended, month>>

(* admit_development(): all that is left, but what supervision needs.       *)
CheckDeveloper(r) ==
  /\ Role(r) = "DEVELOPER" /\ MayPlan(r)
  /\ SettledButCoordination(Task(r)) /\ AllKnown(OfTeam(Team(r)))
  /\ DeveloperAllowance(Task(r)) >= MinimumTurn
  /\ Plan(r, DeveloperAllowance(Task(r)), leaseOf[Task(r)].job)

(* consult(): a plan or a review by a helper, within its role's limit.      *)
CheckHelper(r) ==
  /\ Role(r) = "HELPER" /\ MayPlan(r)
  /\ SettledButCoordination(Task(r)) /\ AllSettled(Task(r))
  /\ HelperAllowance(Task(r)) > 0
  /\ Plan(r, HelperAllowance(Task(r)), leaseOf[Task(r)].job)

(* A metered request asks for the worst case of its prompt and output; the  *)
(* Supervisor's belongs to a job.                                           *)
SupervisorRequest(r) ==
  /\ Role(r) = "SUPERVISOR" /\ pc[r] = "idle"
  /\ leaseOf[Task(r)].state = "live" /\ suspended[Task(r)] = "no"
  /\ \E a \in Amounts : Plan(r, a, leaseOf[Task(r)].job)

InterpreterRequest(r) ==
  /\ Role(r) = "INTERPRETER" /\ pc[r] = "idle"
  /\ \E a \in Amounts : Plan(r, a, 0)

CoordinatorRequest(r) ==
  /\ Role(r) = "COORDINATOR" /\ pc[r] = "idle"
  /\ \E a \in Amounts : Plan(r, a, 0)

(* The admission transaction up to its last read of the totals.             *)
ReadTotals(r) ==
  /\ pc[r] = "checked"
  /\ LockFree(r)
  /\ pc' = [pc EXCEPT ![r] =
       IF Admitted(r) /\ (Role(r) = "DEVELOPER" => Leased(r)) THEN "admitting" ELSE "gone"]
  /\ UNCHANGED <<work, account, row, plan, jobOf, charge, container, leaseOf, native, suspended, month>>

(* Who else may be running, read under the same locks.                      *)
DeveloperMayStart(r) ==
  /\ native[Task(r)] # "RUNNING"
  /\ \A q \in OfTask(Task(r)) : row[q].status = "RUNNING" => Role(q) = "COORDINATOR"
HelperMayStart(r) ==
  Leased(r) /\ \A q \in OfTask(Task(r)) : row[q].status # "RUNNING"
SupervisorMayStart(r) == Leased(r)

Insertable(r) ==
  /\ Role(r) = "DEVELOPER" => DeveloperMayStart(r)
  /\ Role(r) = "HELPER" => HelperMayStart(r)
  /\ Role(r) = "SUPERVISOR" => SupervisorMayStart(r)

Insert(r) ==
  /\ pc[r] = "admitting"
  /\ IF Insertable(r)
     THEN /\ row' = [row EXCEPT ![r] = [NoRow EXCEPT !.status = "RUNNING",
                                                     !.reserve = plan[r], !.month = month]]
          /\ native' = IF Role(r) = "DEVELOPER"
                       THEN [native EXCEPT ![Task(r)] = "RUNNING"] ELSE native
          /\ pc' = [pc EXCEPT ![r] = "reserved"]
     ELSE /\ pc' = [pc EXCEPT ![r] = "gone"]
          /\ UNCHANGED <<row, native>>
  /\ plan' = [plan EXCEPT ![r] = 0]
  /\ UNCHANGED <<work, account, jobOf, charge, container, leaseOf, suspended, month>>

-----------------------------------------------------------------------------
Ended(r, s, c) == [row EXCEPT ![r].status = s, ![r].cost = c]
Parks(r, s) == IF Role(r) = "DEVELOPER" THEN [native EXCEPT ![Task(r)] = s] ELSE native

(* The native runner did not start, or the lease was lost before the paid   *)
(* call: known to have cost nothing.                                        *)
Withdraw(r) ==
  /\ pc[r] = "reserved" /\ Native(r)
  /\ IF row[r].status = "RUNNING"
     THEN row' = Ended(r, "ENDED", 0) /\ native' = Parks(r, "BLOCKED")
     ELSE UNCHANGED <<row, native>>
  /\ pc' = [pc EXCEPT ![r] = "gone"]
  /\ UNCHANGED <<work, account, plan, jobOf, charge, container, leaseOf, suspended, month>>

(* The paid call.  The provider charges at most the reservation, since a    *)
(* request is sent with that bound (external): nothing, or all of it.       *)
Call(r) ==
  /\ pc[r] = "reserved"
  /\ \E c \in {0, row[r].reserve} : charge' = [charge EXCEPT ![r] = c]
  /\ container' = [container EXCEPT ![r] = Native(r)]
  /\ pc' = [pc EXCEPT ![r] = "paid"]
  /\ UNCHANGED <<work, account, row, plan, jobOf, leaseOf, native, suspended, month>>

RunTurn(r) == Role(r) = "DEVELOPER" /\ Leased(r) /\ Call(r)
RunConsultation(r) == Role(r) = "HELPER" /\ Leased(r) /\ Call(r)
RunRequest(r) == ~Native(r) /\ Call(r)

(* A receipt that raced recovery: the run was interrupted without usage.    *)
LateReceipt(r) == row[r].status = "INTERRUPTED" /\ row[r].lost /\ ~row[r].turn /\ row[r].cost = Unknown
Billable(r) == row[r].status = "RUNNING" \/ LateReceipt(r)

Returns(r) ==
  /\ pc[r] = "paid"
  /\ pc' = [pc EXCEPT ![r] = "gone"]
  /\ container' = [container EXCEPT ![r] = FALSE]
  /\ UNCHANGED <<work, account, plan, jobOf, charge, leaseOf, suspended, month>>

(* An answer's usage is complete or not.                                    *)
Receipt(r) ==
  \E c \in {charge[r], Unknown} : row' = [Ended(r, "ENDED", c) EXCEPT ![r].turn = TRUE]

(* finish_run() of a Developer turn; a late receipt is billed, and does not *)
(* wake the session.                                                        *)
FinishDeveloper(r) ==
  /\ Role(r) = "DEVELOPER" /\ Returns(r)
  /\ IF Billable(r)
     THEN /\ Receipt(r)
          /\ \E s \in IF row[r].status = "RUNNING" THEN {"READY", "BLOCKED"} ELSE {"BLOCKED"} :
               native' = Parks(r, s)
     ELSE UNCHANGED <<row, native>>

FinishHelper(r) ==
  /\ Role(r) = "HELPER" /\ Returns(r)
  /\ IF row[r].status \in {"RUNNING", "INTERRUPTED"} THEN Receipt(r) ELSE UNCHANGED row
  /\ UNCHANGED native

FinishSupervisor(r) == Role(r) = "SUPERVISOR" /\ Returns(r) /\ Receipt(r) /\ UNCHANGED native
FinishRequest(r) ==
  Role(r) \in {"INTERPRETER", "COORDINATOR"} /\ Returns(r) /\ Receipt(r) /\ UNCHANGED native

(* No answer: the paid process is interrupted first, then fail_run().       *)
GivesUp(r) == row' = Ended(r, "ENDED", row[r].cost)

FailDeveloper(r) ==
  /\ Role(r) = "DEVELOPER" /\ Returns(r)
  /\ IF row[r].status = "RUNNING"
     THEN GivesUp(r) /\ native' = Parks(r, "BLOCKED") ELSE UNCHANGED <<row, native>>

FailHelper(r) ==
  /\ Role(r) = "HELPER" /\ Returns(r)
  /\ IF row[r].status = "RUNNING" THEN GivesUp(r) ELSE UNCHANGED row
  /\ UNCHANGED native

FailSupervisor(r) == Role(r) = "SUPERVISOR" /\ Returns(r) /\ GivesUp(r) /\ UNCHANGED native

FailInterpreter(r) ==
  /\ Role(r) = "INTERPRETER" /\ Returns(r)
  /\ IF row[r].status = "RUNNING" THEN GivesUp(r) ELSE UNCHANGED row
  /\ UNCHANGED native

FailCoordinator(r) == Role(r) = "COORDINATOR" /\ Returns(r) /\ GivesUp(r) /\ UNCHANGED native

Conclude(r) ==
  \/ FinishDeveloper(r) \/ FinishHelper(r) \/ FinishSupervisor(r) \/ FinishRequest(r)
  \/ FailDeveloper(r) \/ FailHelper(r) \/ FailSupervisor(r) \/ FailInterpreter(r) \/ FailCoordinator(r)

(* The caller's process dies; an open transaction is rolled back and a      *)
(* container keeps running.                                                 *)
Die(r) ==
  /\ pc[r] \in {"admitting", "reserved", "paid"}
  /\ pc' = [pc EXCEPT ![r] = "gone"]
  /\ UNCHANGED <<work, account, row, plan, jobOf, charge, container, leaseOf, native, suspended, month>>

-----------------------------------------------------------------------------
(* The queue's view of a task that has phases: see PhaseJobs for the whole. *)
HasPhases(t) == \E r \in Requests : Task(r) = t /\ OwnsJob(r)

OfJob(t, j) == {r \in OfTask(t) : OwnsJob(r) /\ jobOf[r] = j /\ row[r].status = "RUNNING"}

ClaimFor(t) ==
  /\ HasPhases(t)
  /\ leaseOf[t].state = "none" /\ suspended[t] = "no" /\ leaseOf[t].job < MaxJobs
  /\ leaseOf' = [leaseOf EXCEPT ![t] = [job |-> @.job + 1, state |-> "live"]]
  /\ UNCHANGED <<work, account, row, pc, plan, jobOf, charge, container, native, suspended, month>>

CompleteJob(t) ==
  /\ leaseOf[t].state = "live"
  /\ \A r \in Requests : Task(r) = t /\ OwnsJob(r) /\ jobOf[r] = leaseOf[t].job => ~InProgress(r)
  /\ OfJob(t, leaseOf[t].job) = {}
  /\ leaseOf' = [leaseOf EXCEPT ![t].state = "none"]
  /\ UNCHANGED <<work, account, row, pc, plan, jobOf, charge, container, native, suspended, month>>

ExpireLease(t) ==
  /\ leaseOf[t].state = "live"
  /\ leaseOf' = [leaseOf EXCEPT ![t].state = "expired"]
  /\ UNCHANGED <<work, account, row, pc, plan, jobOf, charge, container, native, suspended, month>>

(* A control or a block takes the Task row, so it waits for an admission.   *)
TaskFree(t) == \A r \in Requests : Holds(r) => Task(r) # t

Suspend(t) ==
  /\ HasPhases(t)
  /\ suspended[t] = "no" /\ TaskFree(t)
  /\ \E s \in {"blocked", "stopped"} : suspended' = [suspended EXCEPT ![t] = s]
  /\ leaseOf' = [leaseOf EXCEPT ![t].state = "none"]
  /\ UNCHANGED <<work, account, row, pc, plan, jobOf, charge, container, native, month>>

Resume(t) ==
  /\ suspended[t] # "no"
  /\ suspended' = [suspended EXCEPT ![t] = "no"]
  /\ UNCHANGED <<work, account, row, pc, plan, jobOf, charge, container, leaseOf, native, month>>

(* Mutant: the session of an interrupted run is left as it is.              *)
BlocksNothing(t, S) == native

Interrupts(S) == [r \in Runs |-> IF r \in S THEN [row[r] EXCEPT !.status = "INTERRUPTED", !.lost = TRUE]
                                           ELSE row[r]]
BlocksSession(t, S) == IF \E r \in S : Role(r) = "DEVELOPER" THEN [native EXCEPT ![t] = "BLOCKED"] ELSE native

(* recover(): an expired lease blocks the task, then closes its runs.       *)
RecoverExpired(t) ==
  /\ leaseOf[t].state = "expired" /\ TaskFree(t)
  /\ LET lost == OfJob(t, leaseOf[t].job)
     IN  row' = Interrupts(lost) /\ native' = BlocksSession(t, lost)
  /\ leaseOf' = [leaseOf EXCEPT ![t].state = "none"]
  /\ suspended' = [suspended EXCEPT ![t] = "blocked"]
  /\ UNCHANGED <<work, account, pc, plan, jobOf, charge, container, month>>

(* sweep(): a running container without a current lease is stopped, and the *)
(* runs of its job are closed.                                              *)
Sweep(r) ==
  /\ container[r] /\ ~Leased(r)
  /\ LET lost == OfJob(Task(r), jobOf[r])
     IN  row' = Interrupts(lost) /\ native' = BlocksSession(Task(r), lost)
  /\ container' = [container EXCEPT ![r] = FALSE]
  /\ UNCHANGED <<work, account, pc, plan, jobOf, charge, leaseOf, suspended, month>>

(* Requests without a job are bounded in time; old ones are closed.         *)
InterruptStale(r) ==
  /\ ~OwnsJob(r) /\ pc[r] = "gone" /\ row[r].status = "RUNNING"
  /\ row' = Ended(r, "INTERRUPTED", row[r].cost)
  /\ UNCHANGED <<work, account, pc, plan, jobOf, charge, container, leaseOf, native, suspended, month>>

(* reconcile_cost(): an operator with evidence of the charge, which exists  *)
(* once the call was made or given up.                                      *)
ReconcileCost(r) ==
  /\ pc[r] \in {"paid", "gone"}
  /\ row[r].status \notin {"NONE", "RUNNING"} /\ row[r].cost = Unknown
  /\ row' = [row EXCEPT ![r].cost = charge[r]]
  /\ UNCHANGED <<work, account, pc, plan, jobOf, charge, container, leaseOf, native, suspended, month>>

NewMonth ==
  /\ month < MaxMonth
  /\ month' = month + 1
  /\ UNCHANGED <<work, account, row, pc, plan, jobOf, charge, container, leaseOf, native, suspended>>

BudgetNext ==
  \/ \E r \in Requests :
       \/ CheckDeveloper(r) \/ CheckHelper(r)
       \/ SupervisorRequest(r) \/ InterpreterRequest(r) \/ CoordinatorRequest(r)
       \/ ReadTotals(r) \/ Insert(r) \/ Withdraw(r)
       \/ RunTurn(r) \/ RunConsultation(r) \/ RunRequest(r)
       \/ Conclude(r) \/ Die(r) \/ Sweep(r) \/ InterruptStale(r) \/ ReconcileCost(r)
  \/ \E t \in FundedTasks : ClaimFor(t) \/ CompleteJob(t) \/ ExpireLease(t) \/ Suspend(t) \/ Resume(t) \/ RecoverExpired(t)
  \/ NewMonth

BudgetSpec == BudgetInit /\ [][BudgetNext]_budgetVars

-----------------------------------------------------------------------------
Spent(S) == MapThenSumSet(LAMBDA r : charge[r], S)

(* What providers really charged stays within every limit, although the     *)
(* program learns charges late, partly, or only from an operator, requests  *)
(* of several tasks and Teams are admitted concurrently, and a month may    *)
(* end while they run.                                                      *)
LimitsHold ==
  /\ \A t \in FundedTasks : Spent({r \in Requests : Task(r) = t}) <= TaskLimit
  /\ \A m \in FundedTeams :
       /\ Spent({r \in Requests : Team(r) = m}) <= TeamLimit
       /\ \A k \in 0..MaxMonth :
            Spent({r \in Rows : Team(r) = m /\ row[r].month = k}) <= MonthLimit
  /\ account # NoLimit =>
       \A k \in 0..MaxMonth : Spent({r \in Rows : row[r].month = k}) <= account

(* A session is RUNNING exactly while one Developer run of its task is, and *)
(* no helper runs beside it: recovery, the sweep and a receipt that arrives *)
(* after either never leave the two apart.                                  *)
SessionFollowsItsRun ==
  \A t \in FundedTasks :
    LET running(k) == {r \in OfTask(t) : row[r].status = "RUNNING" /\ Role(r) = k}
    IN  /\ native[t] = "RUNNING" <=> running("DEVELOPER") # {}
        /\ Cardinality(running("DEVELOPER") \cup running("HELPER")) <= 1

=============================================================================
