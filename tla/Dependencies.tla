---------------------------- MODULE Dependencies ----------------------------
(***************************************************************************)
(* Prerequisites of tasks (engineering/infrastructure/dependencies.py) and   *)
(* the claims they hold back (claim_next_job() of job_queue.py).             *)
(*                                                                         *)
(* An edit and a claim are transactions of several statements; what keeps    *)
(* them apart is the advisory lock that lock_admission() takes and the row    *)
(* locks on the edited Task and on the claimed Job.  PhaseJobs takes a claim  *)
(* as one step and the prerequisites as given.                               *)
(***************************************************************************)
EXTENDS Lifecycle

CONSTANTS
  Tasks,
  Editors,     (* requests of the dashboard that replace prerequisites       *)
  Runners,     (* controller replicas that claim jobs                        *)
  Statuses,    (* Task.status values explored                                *)
  Free, NoTask

ASSUME DependenciesAssumption ==
  /\ "NEW" \in Statuses
  /\ Editors \cap Runners = {}
  /\ Free \notin Editors \cup Runners
  /\ NoTask \notin Tasks

VARIABLES
  deps,       (* task_dependencies: prerequisites of each task               *)
  status,     (* Task.status                                                 *)
  job,        (* the live job of each task                                   *)
  editor,     (* what a replace() request holds                              *)
  claim,      (* the task whose job a claim transaction has selected         *)
  admission   (* holder of the advisory lock                                 *)

vars == <<deps, status, job, editor, claim, admission>>

Finished  == {"MERGED", "FAILED", "CANCELLED"}
JobState  == {"NONE", "QUEUED", "EXECUTING"}
EditorRow == [pc : {"idle", "form", "locked", "writing"}, task : Tasks \cup {NoTask},
              expected : SUBSET Tasks, wanted : SUBSET Tasks]

Away == [pc |-> "idle", task |-> NoTask, expected |-> {}, wanted |-> {}]

Init ==
  /\ deps = [t \in Tasks |-> {}]
  /\ status = [t \in Tasks |-> "NEW"]
  /\ job \in [Tasks -> {"NONE", "QUEUED"}]
  /\ editor = [e \in Editors |-> Away]
  /\ claim = [r \in Runners |-> NoTask]
  /\ admission = Free

(* unmet_dependencies()                                                     *)
Unmet(t) == {p \in deps[t] : status[p] # "MERGED"}

(* The recursive query: the least set that holds the requested tasks and     *)
(* the prerequisites of its members.                                        *)
ClosedUnderDeps(C) == \A t \in C : deps[t] \subseteq C
Reachable(requested) ==
  {t \in Tasks : \A C \in SUBSET Tasks :
                   requested \subseteq C /\ ClosedUnderDeps(C) => t \in C}

-----------------------------------------------------------------------------
(* The user opens a task's prerequisites and chooses others; the request      *)
(* carries what the page showed as expected.                                 *)
OpenForm(e, t, wanted) ==
  /\ editor[e].pc = "idle"
  /\ t \notin wanted
  /\ editor' = [editor EXCEPT ![e] = [pc |-> "form", task |-> t, expected |-> deps[t],
                                      wanted |-> wanted]]
  /\ UNCHANGED <<deps, status, job, claim, admission>>

(* lock_admission() in replace()                                            *)
LockEdit(e) ==
  /\ editor[e].pc = "form"
  /\ admission = Free
  /\ admission' = e
  /\ editor' = [editor EXCEPT ![e].pc = "locked"]
  /\ UNCHANGED <<deps, status, job, claim>>

(* Mutant: whatever the user had seen will do.                                *)
EditableUnseen(e) ==
  LET t == editor[e].task
  IN  /\ status[t] \in {"NEW", "PAUSED"}
      /\ job[t] # "EXECUTING"
      /\ t \notin Reachable(editor[e].wanted)

(* Mutant: only the prerequisites of the requested tasks are searched.        *)
EditableOneLevel(e) ==
  LET t == editor[e].task
  IN  /\ deps[t] = editor[e].expected
      /\ deps[t] # editor[e].wanted
      /\ status[t] \in {"NEW", "PAUSED"}
      /\ job[t] # "EXECUTING"
      /\ \A p \in editor[e].wanted : t \notin deps[p]

(* The checks of replace(), under the lock.                                  *)
Editable(e) ==
  LET t == editor[e].task
  IN  /\ deps[t] = editor[e].expected
      /\ deps[t] # editor[e].wanted
      /\ status[t] \in {"NEW", "PAUSED"}
      /\ job[t] # "EXECUTING"
      /\ t \notin Reachable(editor[e].wanted)

Admit(e) ==
  /\ editor[e].pc = "locked"
  /\ Editable(e)
  /\ editor' = [editor EXCEPT ![e].pc = "writing"]
  /\ UNCHANGED <<deps, status, job, claim, admission>>

(* A check fails, an AIRun of the task is RUNNING, the statement timeout of    *)
(* three seconds passes or the request is dropped: the transaction ends.      *)
GiveUp(e) ==
  /\ editor[e].pc # "idle"
  /\ editor' = [editor EXCEPT ![e] = Away]
  /\ admission' = IF admission = e THEN Free ELSE admission
  /\ UNCHANGED <<deps, status, job, claim>>

Save(e) ==
  /\ editor[e].pc = "writing"
  /\ deps' = [deps EXCEPT ![editor[e].task] = editor[e].wanted]
  /\ editor' = [editor EXCEPT ![e] = Away]
  /\ admission' = IF admission = e THEN Free ELSE admission
  /\ UNCHANGED <<status, job, claim>>

-----------------------------------------------------------------------------
Claimable(t) == job[t] = "QUEUED" /\ status[t] \in Runnable /\ Unmet(t) = {}

(* Mutant: a claim does not take the admission lock.                          *)
SelectUnlocked(r, t) ==
  /\ claim[r] = NoTask
  /\ Claimable(t)
  /\ \A q \in Runners : claim[q] # t
  /\ claim' = [claim EXCEPT ![r] = t]
  /\ UNCHANGED <<deps, status, job, editor, admission>>

(* claim_next_job(): the lock, then the query that locks the Job row.          *)
Select(r, t) ==
  /\ claim[r] = NoTask
  /\ admission = Free
  /\ Claimable(t)
  /\ admission' = r
  /\ claim' = [claim EXCEPT ![r] = t]
  /\ UNCHANGED <<deps, status, job, editor>>

EndClaim(r) ==
  /\ claim[r] # NoTask
  /\ claim' = [claim EXCEPT ![r] = NoTask]
  /\ admission' = IF admission = r THEN Free ELSE admission

(* It commits, or rolls back when its Team closed or filled up meanwhile.      *)
CommitClaim(r) ==
  /\ EndClaim(r)
  /\ job' = [job EXCEPT ![claim[r]] = "EXECUTING"]
  /\ UNCHANGED <<deps, status, editor>>

AbandonClaim(r) ==
  /\ EndClaim(r)
  /\ UNCHANGED <<deps, status, job, editor>>

-----------------------------------------------------------------------------
(* Any lifecycle transition of a task, by its worker, a command, recovery or   *)
(* an external event: its job ends, and a runnable task gets the next one.     *)
(* replace() holds the Task row, a claim the Job row.                         *)
Transit(t) ==
  /\ status[t] \notin Finished
  /\ \A e \in Editors : editor[e].pc = "writing" => editor[e].task # t
  /\ \A r \in Runners : claim[r] # t
  /\ \E s \in Statuses :
       /\ status' = [status EXCEPT ![t] = s]
       /\ job' = [job EXCEPT ![t] = IF s \in Runnable THEN "QUEUED" ELSE "NONE"]
  /\ UNCHANGED <<deps, editor, claim, admission>>

Next ==
  \/ \E e \in Editors :
       \/ \E t \in Tasks : \E wanted \in SUBSET Tasks : OpenForm(e, t, wanted)
       \/ LockEdit(e) \/ Admit(e) \/ GiveUp(e) \/ Save(e)
  \/ \E r \in Runners : (\E t \in Tasks : Select(r, t)) \/ CommitClaim(r) \/ AbandonClaim(r)
  \/ \E t \in Tasks : Transit(t)

Spec == Init /\ [][Next]_vars

-----------------------------------------------------------------------------
(* The type of every variable.                                             *)
DependenciesTypeOK ==
  /\ deps \in [Tasks -> SUBSET Tasks]
  /\ status \in [Tasks -> Statuses]
  /\ job \in [Tasks -> JobState]
  /\ editor \in [Editors -> EditorRow]
  /\ claim \in [Runners -> Tasks \cup {NoTask}]
  /\ admission \in Editors \cup Runners \cup {Free}

(* "A cycle cannot be introduced by concurrent edits": there is no set of       *)
(* tasks each of which waits for another of them, so the tasks that wait are    *)
(* always waiting for one that does not.                                       *)
NoCycle ==
  \A S \in (SUBSET Tasks) \ {{}} : \E t \in S : deps[t] \cap S = {}

(* However edits, claims and transitions interleave, a task whose job executes   *)
(* has only merged prerequisites: one added while a claim was under way does     *)
(* not slip in behind it.                                                      *)
PrerequisitesMerged == \A t \in Tasks : job[t] = "EXECUTING" => Unmet(t) = {}

(* A save never overwrites prerequisites that its user had not seen.            *)
NoLostEdit ==
  [][\A t \in Tasks : deps'[t] # deps[t] =>
       \E e \in Editors : /\ editor[e].task = t
                          /\ editor[e].expected = deps[t]
                          /\ editor[e].wanted = deps'[t]]_vars
=============================================================================
