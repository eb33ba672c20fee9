-------------------------------- MODULE Teams --------------------------------
(***************************************************************************)
(* Teams and the tasks that belong to them                                 *)
(* (teams/infrastructure/management.py), with the claims, heartbeats and   *)
(* resumptions that ask whether a Team is open. Shutdown, wake and claims  *)
(* hold the advisory lock that lock_admission() takes; assignment,         *)
(* archiving, resumption and the Team's settings do not, and read the Team *)
(* without locking its row.                                                *)
(*                                                                         *)
(* A transaction is one step where all it relies on is locked, else it is  *)
(* two: what it read, and what it then writes. A claim that commits writes *)
(* an event of its task, whose foreign key waits for a lock of the Task    *)
(* row. Assignments, a record for the Team's page, and the wait reasons of *)
(* a task are left out.                                                    *)
(***************************************************************************)
EXTENDS Naturals

CONSTANTS
  Tickets,     (* Task rows                                                 *)
  Groups,      (* Team rows                                                 *)
  Requests,    (* requests that an API process carries out                  *)
  Claimers,    (* controller replicas                                       *)
  NoTicket, NoGroup

ASSUME TeamsAssumption ==
  /\ NoTicket \notin Tickets
  /\ NoGroup \notin Groups

VARIABLES
  team,     (* Team rows                                                    *)
  ticket,   (* Task rows: Team, status, enrollment, and the live job        *)
  request,  (* what each request has read, and of which task it holds a row *)
  picked    (* the ticket whose job a claim transaction has selected        *)

teamsVars == <<team, ticket, request, picked>>

(* "stopped" is history, for the properties: a shutdown has ended, and no    *)
(* wake has followed it.  "asked": a heartbeat holds the rows of the task and *)
(* its job, and has found the Team open.                                     *)
TeamRow   == [enabled : BOOLEAN, paused : BOOLEAN, archived : BOOLEAN, stopped : BOOLEAN]
TicketRow == [of : Groups \cup {NoGroup}, enrolled : BOOLEAN,
              status : {"NEW", "ACTIVE", "PAUSED", "WAITING_HUMAN", "MERGED"},
              job : {"NONE", "QUEUED", "CLAIMED", "RUNNING"}, asked : BOOLEAN]
Served    == [pc : {"idle", "assign", "assigning", "resuming", "archive", "wake", "shutdown"},
              on : Tickets \cup {NoTicket}, for : Groups \cup {NoGroup},
              open : BOOLEAN, done : SUBSET Tickets]

NoRequest == [pc |-> "idle", on |-> NoTicket, for |-> NoGroup, open |-> FALSE, done |-> {}]

Present(g) == team[g].enabled /\ ~ team[g].archived
OpenFor(g) == Present(g) /\ ~ team[g].paused
Of(g)      == {k \in Tickets : ticket[k].of = g}

(* A new task is routed to an open Team, or to none.                        *)
TeamsInit ==
  /\ team = [g \in Groups |-> [enabled |-> TRUE, paused |-> FALSE, archived |-> FALSE,
                           stopped |-> FALSE]]
  /\ ticket \in [Tickets -> {[of |-> g, enrolled |-> FALSE, status |-> "NEW", job |-> "NONE",
                               asked |-> FALSE] : g \in Groups \cup {NoGroup}}]
  /\ request = [x \in Requests |-> NoRequest]
  /\ picked = [c \in Claimers |-> NoTicket]

(* The advisory lock, which a claim keeps from its query to its commit, and *)
(* the others only take for the time of one step.                           *)
AdmissionFree == \A c \in Claimers : picked[c] = NoTicket
RowFree(k)    ==
  /\ ~ ticket[k].asked
  /\ \A x \in Requests : request[x].on # k \/ request[x].pc \notin {"assigning", "resuming"}
(* The row of its job, which a claim and a command lock.                    *)
JobFree(k)    == \A c \in Claimers : picked[c] # k

Leased == {"CLAIMED", "RUNNING"}

Is(x, pc)     == request[x].pc = pc
Becomes(x, r) == request' = [request EXCEPT ![x] = r]
Ends(x)       == Becomes(x, NoRequest)
Set(k, row)   == ticket' = [ticket EXCEPT ![k] = row]

Enroll(row)   == [row EXCEPT !.enrolled = TRUE, !.status = "NEW", !.job = "QUEUED"]
Refuse(row)   == [row EXCEPT !.status = "WAITING_HUMAN"]

(* enroll() asks for an open Team, and no worker on the task; it cancels the *)
(* job that waits.                                                          *)
Enrollable(row, open) == open /\ ~ row.enrolled /\ row.job \notin Leased

(* request_execution(): enroll(), or wait for a configuration; a repository, *)
(* policy or profile may be missing even when the Team is open.              *)
Requested(row, open) == {Refuse(row)} \cup (IF Enrollable(row, open) THEN {Enroll(row)} ELSE {})

(* control_task() with RESUME: enrolled or not, a new task is given a job if *)
(* it has none, another one a new job.                                      *)
Resumed(row) ==
  IF row.status = "NEW"
    THEN [row EXCEPT !.job = IF @ = "NONE" THEN "QUEUED" ELSE @]
    ELSE [row EXCEPT !.status = "ACTIVE", !.job = "QUEUED"]

-----------------------------------------------------------------------------
(* assign_in_transaction(): the Team is read first; its copy in the session *)
(* is the one that enroll() looks at.                                       *)
Assign(x, k, g) ==
  /\ Is(x, "idle") /\ Present(g)
  /\ Becomes(x, [NoRequest EXCEPT !.pc = "assign", !.on = k, !.for = g, !.open = OpenFor(g)])
  /\ UNCHANGED <<team, ticket, picked>>

(* Mutant: a task may change its Team while a worker is on it.              *)
MayReassignAlways(k) == ~ ticket[k].enrolled

(* A job that waits, or that a claim has picked, does not hold the task.    *)
MayReassign(k) == ~ ticket[k].enrolled /\ ticket[k].job \notin Leased

(* Then the Task row is locked, and checked.                                *)
LockTask(x) ==
  /\ Is(x, "assign") /\ RowFree(request[x].on)
  /\ IF MayReassign(request[x].on) THEN Becomes(x, [request[x] EXCEPT !.pc = "assigning"])
     ELSE Ends(x)
  /\ UNCHANGED <<team, ticket, picked>>

(* The work is started or not, as the request asks.                         *)
CommitAssign(x) ==
  LET k == request[x].on
      row == [ticket[k] EXCEPT !.of = request[x].for]
  IN  /\ Is(x, "assigning")
      /\ \E r \in {row} \cup (IF row.status = "NEW" THEN Requested(row, request[x].open) ELSE {}) :
           /\ r.enrolled => JobFree(k)
           /\ Set(k, r)
      /\ Ends(x)
      /\ UNCHANGED <<team, picked>>

(* unassign()                                                               *)
Unassign(k) ==
  /\ RowFree(k) /\ JobFree(k) /\ MayReassign(k)
  /\ Set(k, [ticket[k] EXCEPT !.of = NoGroup, !.job = "NONE"])
  /\ UNCHANGED <<team, request, picked>>

-----------------------------------------------------------------------------
(* update(): here, whether the Team is enabled.                             *)
SaveTeam(g) ==
  /\ ~ team[g].archived
  /\ team' = [team EXCEPT ![g].enabled = ~ @]
  /\ UNCHANGED <<ticket, request, picked>>

(* archive(): the running jobs are counted, then the Team is closed.        *)
Archive(x, g) ==
  /\ Is(x, "idle") /\ ~ team[g].archived
  /\ \A k \in Of(g) : ticket[k].job \notin Leased
  /\ Becomes(x, [NoRequest EXCEPT !.pc = "archive", !.for = g])
  /\ UNCHANGED <<team, ticket, picked>>

CommitArchive(x) ==
  /\ Is(x, "archive")
  /\ team' = [team EXCEPT ![request[x].for] = [@ EXCEPT !.enabled = FALSE, !.archived = TRUE]]
  /\ Ends(x)
  /\ UNCHANGED <<ticket, picked>>

(* wake(): the flag, then in batches the tasks that were never started.     *)
Wake(x, g) ==
  /\ Is(x, "idle") /\ AdmissionFree /\ Present(g)
  /\ team' = [team EXCEPT ![g] = [@ EXCEPT !.paused = FALSE, !.stopped = FALSE]]
  /\ Becomes(x, [NoRequest EXCEPT !.pc = "wake", !.for = g])
  /\ UNCHANGED <<ticket, picked>>

Startable(x) ==
  {k \in Of(request[x].for) \ request[x].done : ticket[k].status = "NEW" /\ ~ ticket[k].enrolled}

WakeBatch(x) ==
  /\ Is(x, "wake") /\ AdmissionFree
  /\ \/ /\ OpenFor(request[x].for)
        /\ \E k \in Startable(x) :
             /\ RowFree(k)
             /\ \E r \in Requested(ticket[k], TRUE) : Set(k, r)
             /\ Becomes(x, [request[x] EXCEPT !.done = @ \cup {k}])
     \/ /\ ~ OpenFor(request[x].for) \/ Startable(x) = {}
        /\ Ends(x) /\ UNCHANGED ticket
  /\ UNCHANGED <<team, picked>>

(* shutdown(): the flag, then in batches a pause of every task.             *)
Shutdown(x, g) ==
  /\ Is(x, "idle") /\ AdmissionFree /\ ~ team[g].archived
  /\ team' = [team EXCEPT ![g].paused = TRUE]
  /\ Becomes(x, [NoRequest EXCEPT !.pc = "shutdown", !.for = g])
  /\ UNCHANGED <<ticket, picked>>

Unpaused == {"NEW", "ACTIVE", "WAITING_HUMAN"}
Paused(row) == [row EXCEPT !.status = "PAUSED", !.job = "NONE"]

ShutdownBatch(x) ==
  LET left == {k \in Of(request[x].for) : ticket[k].status \in Unpaused}
  IN  /\ Is(x, "shutdown") /\ AdmissionFree
      /\ \/ /\ team[request[x].for].paused
            /\ \E k \in left : RowFree(k) /\ Set(k, Paused(ticket[k]))
            /\ UNCHANGED <<team, request>>
         \/ /\ team[request[x].for].paused /\ left = {}
            /\ team' = [team EXCEPT ![request[x].for].stopped = TRUE]
            /\ Ends(x) /\ UNCHANGED ticket
         \/ /\ ~ team[request[x].for].paused
            /\ Ends(x) /\ UNCHANGED <<team, ticket>>
      /\ UNCHANGED picked

(* Of a request that fails the batches that were committed stay.            *)
Fail(x) ==
  /\ ~ Is(x, "idle")
  /\ Ends(x)
  /\ UNCHANGED <<team, ticket, picked>>

-----------------------------------------------------------------------------
(* claim_next_job(), under the admission lock: the query, and the second    *)
(* look at the Team; then the commit, of which a rollback or a deadlock with *)
(* a command that holds the Task row leaves nothing.                        *)
Pick(c, k) ==
  /\ AdmissionFree
  /\ ticket[k].job = "QUEUED" /\ ticket[k].status \in {"NEW", "ACTIVE"}
  /\ ticket[k].of # NoGroup /\ OpenFor(ticket[k].of)
  /\ picked' = [picked EXCEPT ![c] = k]
  /\ UNCHANGED <<team, ticket, request>>

CommitPick(c) ==
  /\ picked[c] # NoTicket /\ RowFree(picked[c])
  /\ Set(picked[c], [ticket[picked[c]] EXCEPT !.job = "CLAIMED"])
  /\ picked' = [picked EXCEPT ![c] = NoTicket]
  /\ UNCHANGED <<team, request>>

DropPick(c) ==
  /\ picked[c] # NoTicket
  /\ picked' = [picked EXCEPT ![c] = NoTicket]
  /\ UNCHANGED <<team, ticket, request>>

(* heartbeat(), which claim(), execute() and the watcher call: under the     *)
(* Task row the Team is looked at, then the job runs, or a fault leaves it.  *)
Heartbeat(k) ==
  /\ ticket[k].job \in Leased /\ RowFree(k)
  /\ ticket[k].status \in {"NEW", "ACTIVE"}
  /\ ticket[k].of # NoGroup /\ OpenFor(ticket[k].of)
  /\ Set(k, [ticket[k] EXCEPT !.asked = TRUE])
  /\ UNCHANGED <<team, request, picked>>

CommitHeartbeat(k) ==
  /\ ticket[k].asked
  /\ \E j \in {"RUNNING", ticket[k].job} : Set(k, [ticket[k] EXCEPT !.job = j, !.asked = FALSE])
  /\ UNCHANGED <<team, request, picked>>

(* The phase is completed, for which it needs a session, or is blocked, by a *)
(* heartbeat that refuses among others, or given up by recovery, which ends  *)
(* a task that went on without it as it is.                                 *)
CompletePhase(k, s) ==
  /\ ticket[k].job = "RUNNING" /\ RowFree(k)
  /\ ticket[k].enrolled /\ ticket[k].status \in {"NEW", "ACTIVE"}
  /\ Set(k, [ticket[k] EXCEPT !.status = s, !.job = IF s = "ACTIVE" THEN "QUEUED" ELSE "NONE"])
  /\ UNCHANGED <<team, request, picked>>

BlockPhase(k) ==
  /\ ticket[k].job \in Leased /\ RowFree(k)
  /\ Set(k, [ticket[k] EXCEPT !.status = IF @ \in {"NEW", "ACTIVE"} THEN "WAITING_HUMAN" ELSE @,
                               !.job = "NONE"])
  /\ UNCHANGED <<team, request, picked>>

(* A command of an operator, a Coordinator or a changed requirement.        *)
Pause(k) ==
  /\ ticket[k].status \in Unpaused /\ RowFree(k) /\ JobFree(k)
  /\ Set(k, Paused(ticket[k]))
  /\ UNCHANGED <<team, request, picked>>

(* The dashboard's change(), or control_task() for a command in the task's   *)
(* conversation or a review: under the Task row the Team is looked at.       *)
Resume(x, k) ==
  /\ Is(x, "idle") /\ RowFree(k)
  /\ ticket[k].status \in {"NEW", "PAUSED", "WAITING_HUMAN"}
  /\ ticket[k].of # NoGroup /\ OpenFor(ticket[k].of)
  /\ Becomes(x, [NoRequest EXCEPT !.pc = "resuming", !.on = k])
  /\ UNCHANGED <<team, ticket, picked>>

(* Only the dashboard enrolls a task that has no session.                   *)
CommitResume(x) ==
  LET k == request[x].on
      row == ticket[k]
  IN  /\ Is(x, "resuming")
      /\ \/ /\ row.status # "NEW" => JobFree(k)
            /\ Set(k, Resumed(row))
         \/ /\ Enrollable(row, TRUE) /\ JobFree(k)
            /\ Set(k, Enroll(row))
      /\ Ends(x)
      /\ UNCHANGED <<team, picked>>

-----------------------------------------------------------------------------
TeamsNext ==
  \/ \E x \in Requests :
       \/ \E k \in Tickets : Resume(x, k) \/ \E g \in Groups : Assign(x, k, g)
       \/ LockTask(x) \/ CommitAssign(x) \/ CommitResume(x)
       \/ \E g \in Groups : Archive(x, g) \/ Wake(x, g) \/ Shutdown(x, g)
       \/ CommitArchive(x) \/ WakeBatch(x) \/ ShutdownBatch(x) \/ Fail(x)
  \/ \E g \in Groups : SaveTeam(g)
  \/ \E c \in Claimers : (\E k \in Tickets : Pick(c, k)) \/ CommitPick(c) \/ DropPick(c)
  \/ \E k \in Tickets :
       \/ Unassign(k) \/ Pause(k) \/ Heartbeat(k) \/ CommitHeartbeat(k) \/ BlockPhase(k)
       \/ \E s \in {"ACTIVE", "MERGED"} : CompletePhase(k, s)

TeamsSpec == TeamsInit /\ [][TeamsNext]_teamsVars

-----------------------------------------------------------------------------
TeamsTypeOK ==
  /\ team \in [Groups -> TeamRow]
  /\ ticket \in [Tickets -> TicketRow]
  /\ request \in [Requests -> Served]
  /\ picked \in [Claimers -> Tickets \cup {NoTicket}]

(* When a shutdown has ended, and until the next wake, no phase runs in its  *)
(* Team: neither of a task that was running when it began, nor of one that   *)
(* an assignment, a resumption, a wake or a claim that was under way brought *)
(* to the Team meanwhile or later (shutdown(), assign_in_transaction(),      *)
(* claim_next_job(), heartbeat()).                                          *)
NothingRunsAfterShutdown ==
  \A k \in Tickets :
    ticket[k].job = "RUNNING" /\ ticket[k].of # NoGroup => ~ team[ticket[k].of].stopped
=============================================================================
