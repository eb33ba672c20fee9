------------------------------- MODULE Intake -------------------------------
(***************************************************************************)
(* How an item of an outside system becomes a task and stays in step with  *)
(* it: signed webhooks and their inbox (backend/app/intake/infrastructure), *)
(* the pollers that read the tracker again, the task's text and lifecycle   *)
(* that follow, and the outbox that moves the item to the list of the       *)
(* task's status (delivery/infrastructure/status_sync.py).                  *)
(*                                                                         *)
(* One item and the controller replicas that work on it.  A delivery is one *)
(* transaction, split where it reads the task without a lock and where it   *)
(* commits; a poll is split at its HTTP read, its reads of the database and *)
(* its commit; a status update holds the Task row's lock across the call.   *)
(***************************************************************************)
EXTENDS Lifecycle, Sequences, FiniteSets

CONSTANTS
  Controllers,     (* replicas, each with its integration loop              *)
  Providers,       (* where the item may come from                          *)
  MaxText,         (* bound: wordings the item has, 0 for no description    *)
  MaxEvents,       (* bound: events of the item its provider reports        *)
  MaxTurns,        (* bound: crashes, failures outside the program and      *)
                   (* steps of operators and phases, together               *)
  MaxAttempts,     (* DeliveryRetryPolicy.max_attempts                      *)
  MaxSyncAttempts, (* attempts of one status update                         *)
  Sources,         (* source_state_ids, list_ids: the lists that are polled *)
  Target           (* the configured list of a semantic status, or NoList   *)

Lists  == {"todo", "doing"}
NoList == "unset"
Polled == {"linear", "trello"}
Semantic == {"todo", "in_progress", "in_review", "paused", "blocked", "done", "cancelled"}

ASSUME IntakeAssumption ==
  /\ Providers \subseteq {"linear", "trello", "github", "slack", "api"}
  /\ MaxText \in Nat \ {0} /\ MaxEvents \in Nat \ {0} /\ MaxTurns \in Nat
  /\ MaxAttempts \in Nat \ {0} /\ MaxSyncAttempts \in Nat \ {0}
  /\ Sources \subseteq Lists
  /\ Target \in [Semantic -> Lists \cup {NoList}]

VARIABLES
  provider, (* which provider the item lives in                             *)
  item,     (* the item as its provider has it                              *)
  events,   (* what the provider reports of it, in order                    *)
  inbox,    (* webhook_deliveries rows, in the order of created_at          *)
  task,     (* the item's Task and its external_task_snapshots row          *)
  told,     (* TaskMessages written for each event that is a comment        *)
  sync,     (* the task's external_status_syncs row                         *)
  hands,    (* what each replica holds between two steps                    *)
  due,      (* integration.last_synced_at lies an interval back             *)
  jammed,   (* a Slack message that must become a task, the item or another, *)
            (* is routed to a Team or a repository that does not exist      *)
  turns

intakeVars == <<provider, item, events, inbox, task, told, sync, hands, due, jammed, turns>>

(* str(None): what a missing description becomes on one path.               *)
Literal == MaxText + 1

AtRest   == [pc |-> "free"]
Event    == [kind : {"text", "list", "sync", "gone", "comment"}, text : 0..MaxText, list : Lists,
             gone : BOOLEAN]
Delivery == [event : 1..MaxEvents, status : {"RECEIVED", "PROCESSED", "IGNORED", "FAILED"},
             attempts : Nat]
(* rows counts the Tasks made for the item; shot is snapshot.state_id.      *)
TaskRow  == [rows : Nat, state : EngineeringState, version : Nat, text : 0..Literal,
             shot : Lists \cup {NoList}]
SyncRow  == [wanted : Semantic, attempts : 0..MaxSyncAttempts,
             status : {"NONE", "PENDING", "SYNCED", "FAILED", "NO_TRACKER",
                       "CONFIGURATION_REQUIRED"}]

NoTask == [rows |-> 0, state |-> NewState, version |-> 0, text |-> 0, shot |-> NoList]
NoSync == [wanted |-> "todo", attempts |-> 0, status |-> "NONE"]

Reported(kind, it) == [kind |-> kind, text |-> it.text, list |-> it.list, gone |-> it.gone]

IntakeInit ==
  /\ provider \in Providers
  /\ \E t \in {0, 1} : item = [text |-> t, list |-> "todo", gone |-> FALSE]
  /\ events = <<Reported("text", item)>>
  /\ inbox = <<>>
  /\ task = NoTask
  /\ told = [e \in 1..MaxEvents |-> 0]
  /\ sync = NoSync
  /\ hands = [c \in Controllers |-> AtRest]
  /\ due = TRUE
  /\ jammed \in BOOLEAN
  /\ turns = 0

(* A replica that updates the tracker keeps the Task row locked, one that   *)
(* polls keeps the integration row locked.                                  *)
TaskLocked  == \E c \in Controllers : hands[c].pc \in {"moving", "moved"}
Polling     == \E c \in Controllers : hands[c].pc \in {"listed", "loaded"}
Terminated(t) == t.state.status \in Terminal

(* What a transaction keeps of the task it read.                            *)
Seen == [rows |-> task.rows, version |-> task.version, text |-> task.text,
         shot |-> task.shot, over |-> Terminated(task)]
Frees(c)    == hands' = [hands EXCEPT ![c] = AtRest]

-----------------------------------------------------------------------------
(* The task's half: its lifecycle and the status row that follows it.       *)

(* semantic_status()                                                        *)
SemanticStatus(s) ==
  CASE s.status = "MERGED"                     -> "done"
    [] s.status = "CANCELLED"                  -> "cancelled"
    [] s.status = "PAUSED"                     -> "paused"
    [] s.status \in {"WAITING_HUMAN", "FAILED"} -> "blocked"
    [] OTHER -> IF s.stage \in {"REVIEWING", "MERGING"} THEN "in_review"
                ELSE IF s.stage = "INTAKE" THEN "todo" ELSE "in_progress"

(* enqueue_status(): one row per task, put back to PENDING when it wants    *)
(* another list or the last update of this one did not succeed.             *)
Enqueue(row, s) ==
  IF row.wanted = SemanticStatus(s) /\ row.status \in {"PENDING", "SYNCED"} THEN row
  ELSE [wanted |-> SemanticStatus(s), attempts |-> 0, status |-> "PENDING"]

(* record_transition()                                                      *)
Stepped(t, a) == [t EXCEPT !.state = Transition(t.state, a, "MISSING_CONFIGURATION", FALSE),
                           !.version = @ + 1]

(* request_execution(): the task is enrolled, or waits for configuration.   *)
Created(text, list) ==
  LET new == [rows |-> task.rows + 1, state |-> NewState, version |-> 0, text |-> text,
              shot |-> list]
  IN {[new EXCEPT !.version = 1], Stepped(new, "BLOCK")}

(* Mutant: the text is assigned before it is compared.                      *)
RevisedQuietly(t, text) == [t EXCEPT !.text = text]

(* requirements_changed() followed by the assignment of title and           *)
(* description: a task under way is paused and its requirement revised.     *)
Revised(t, text) ==
  IF text = t.text \/ Terminated(t) THEN [t EXCEPT !.text = text]
  ELSE [Stepped(Stepped(t, "PAUSE"), "REVISE_REQUIREMENT") EXCEPT !.text = text]

(* A transaction that read the task as seen and would change its lifecycle: *)
(* record_transition() compares expected_version under the row lock.        *)
Conflicts(seen) == seen.version # task.version

(* Operators and phases move the task meanwhile.                            *)
Work(a) ==
  /\ task.rows > 0 /\ ~ TaskLocked
  /\ turns < MaxTurns
  /\ a \in {"START", "PAUSE", "RESUME", "TAKEOVER"}
  /\ Permits(task.state, a, "NONE")
  /\ task' = Stepped(task, a)
  /\ sync' = Enqueue(sync, task'.state)
  /\ turns' = turns + 1
  /\ UNCHANGED <<provider, item, events, inbox, told, hands, due, jammed>>

-----------------------------------------------------------------------------
(* The provider's half.                                                     *)
Report(kind, it) ==
  /\ Len(events) < MaxEvents
  /\ ~ item.gone
  /\ provider # "api"
  /\ item' = it
  /\ events' = Append(events, Reported(kind, it))
  /\ UNCHANGED <<provider, inbox, task, told, sync, hands, due, jammed, turns>>

EditItem == item.text < MaxText /\ Report("text", [item EXCEPT !.text = @ + 1])
MoveItem == \E l \in Lists \ {item.list} : Report("list", [item EXCEPT !.list = l])
DropItem == Report("gone", [item EXCEPT !.gone = TRUE])
Comment  == Report("comment", item)

(* ingest_*(): an event arrives late, early or again; (provider,            *)
(* delivery_id) is unique, so a second INSERT is rolled back.               *)
Ingest(e) ==
  /\ e \in 1..Len(events)
  /\ \A r \in 1..Len(inbox) : inbox[r].event # e
  /\ inbox' = Append(inbox, [event |-> e, status |-> "RECEIVED", attempts |-> 0])
  /\ UNCHANGED <<provider, item, events, task, told, sync, hands, due, jammed, turns>>

-----------------------------------------------------------------------------
(* process_next_*_delivery() and process_source_delivery().                 *)
Held == {hands[c].row : c \in {d \in Controllers : hands[d].pc = "handling"}}

(* The oldest row that is RECEIVED and not locked by another replica, and   *)
(* the task as it is read, without a lock.                                  *)
Begin(c, r) ==
  /\ hands[c] = AtRest
  /\ r \in 1..Len(inbox) /\ r \notin Held
  /\ inbox[r].status = "RECEIVED"
  /\ \A q \in 1..(r - 1) : inbox[q].status = "RECEIVED" => q \in Held
  /\ hands' = [hands EXCEPT ![c] = [pc |-> "handling", row |-> r, seen |-> Seen]]
  /\ UNCHANGED <<provider, item, events, inbox, task, told, sync, due, jammed, turns>>

Settle(c, status) ==
  /\ inbox' = [inbox EXCEPT ![hands[c].row].status = status, ![hands[c].row].attempts = @ + 1]
  /\ Frees(c)

(* The row is left as it was and let go; of Linear and GitHub the attempt   *)
(* is counted in another transaction, the source deliveries let the error   *)
(* out, which ends the round, and count nothing.                            *)
Retry(c) ==
  /\ UNCHANGED inbox
  /\ IF provider \in {"linear", "github"}
     THEN hands' = [hands EXCEPT ![c] = [pc |-> "failing", row |-> hands[c].row]]
     ELSE Frees(c)

(* Under the row's lock, whatever became of the row meanwhile.              *)
CountAttempt(c) ==
  LET row == inbox[hands[c].row]
  IN /\ hands[c].pc = "failing" /\ hands[c].row \notin Held
     /\ inbox' = [inbox EXCEPT ![hands[c].row] =
                    [row EXCEPT !.attempts = @ + 1,
                                !.status = IF row.attempts + 1 >= MaxAttempts THEN "FAILED" ELSE @]]
     /\ Frees(c)
     /\ UNCHANGED <<provider, item, events, task, told, sync, due, jammed, turns>>

(* The text an event gives a new task and one that exists: a Linear issue   *)
(* without a description.                                                   *)
NewText(e)    == IF provider = "linear" /\ e.text = 0 THEN Literal ELSE e.text
UpdateText(e, t) == IF provider = "linear" /\ e.text = 0 THEN t.text ELSE e.text

(* linear_eligible(), the trigger label of an open issue, the task command. *)
Qualifies(e) ==
  /\ ~ e.gone
  /\ CASE provider = "linear" -> e.list \in Sources
       [] provider = "github" -> e.kind \in {"text", "list"} /\ e.list \in Sources
       [] OTHER -> e.kind = "text"

(* Mutant: a task is made without regard to one made meanwhile.             *)
CreatesAgain(c, e) ==
  \E t \in Created(NewText(e), IF provider \in Polled THEN e.list ELSE NoList) :
    /\ task' = t
    /\ sync' = Enqueue(sync, t.state)
    /\ Settle(c, "PROCESSED")

(* The row this event leaves: none is ever made for the item twice, because *)
(* external_key and (provider, external_id) are unique, and none for a Team *)
(* or repository that does not exist.                                       *)
Creates(c, e) ==
  IF task.rows > 0 \/ (provider = "slack" /\ jammed) THEN Retry(c) /\ UNCHANGED <<task, sync>>
  ELSE \E t \in Created(NewText(e), IF provider \in Polled THEN e.list ELSE NoList) :
         /\ task' = t
         /\ sync' = Enqueue(sync, t.state)
         /\ Settle(c, "PROCESSED")

Cancels(c, seen) ==
  IF seen.over THEN Settle(c, "PROCESSED") /\ UNCHANGED <<task, sync>>
  ELSE /\ ~ TaskLocked
       /\ IF Conflicts(seen) THEN Retry(c) /\ UNCHANGED <<task, sync>>
          ELSE /\ task' = Stepped(task, "CANCEL")
               /\ sync' = Enqueue(sync, task'.state)
               /\ Settle(c, "PROCESSED")

(* Columns equal to what the transaction read are not written.              *)
Written(t, seen, text, list) ==
  [t EXCEPT !.text = IF text = seen.text THEN @ ELSE text,
            !.shot = IF list = seen.shot \/ provider \notin Polled THEN @ ELSE list]

(* The text is new to the task as it was read: only then does the           *)
(* transaction lock it and compare versions.                                *)
Material(seen, text) == text # seen.text /\ ~ seen.over

Updates(seen, text, list) ==
  /\ task' = Written(IF Material(seen, text) THEN Revised(task, text) ELSE task,
                     seen, text, list)
  /\ sync' = IF Material(seen, text) THEN Enqueue(sync, task'.state) ELSE sync

Refreshes(c, seen, e) ==
  LET text == UpdateText(e, seen)
  IN /\ ~ TaskLocked
     /\ IF Material(seen, text) /\ Conflicts(seen) THEN Retry(c) /\ UNCHANGED <<task, sync>>
        ELSE Updates(seen, text, e.list) /\ Settle(c, "PROCESSED")

Finish(c) ==
  LET r    == hands[c].row
      seen == hands[c].seen
      e    == events[inbox[r].event]
  IN /\ hands[c].pc = "handling"
     /\ provider = "trello" => ~ Polling
     /\ due' = (due \/ provider = "trello")
     /\ \/ /\ e.kind = "comment"
           /\ Settle(c, IF seen.rows = 0 THEN "IGNORED" ELSE "PROCESSED")
           /\ told' = [told EXCEPT ![inbox[r].event] =
                          IF seen.rows = 0 THEN @ ELSE @ + 1]
           /\ UNCHANGED <<task, sync>>
        \/ /\ e.kind # "comment" /\ provider = "trello"
           /\ Settle(c, "PROCESSED")
           /\ UNCHANGED <<task, sync, told>>
        \/ /\ e.kind # "comment" /\ provider # "trello"
           /\ UNCHANGED told
           /\ IF e.gone THEN IF seen.rows = 0
                             THEN Settle(c, "PROCESSED") /\ UNCHANGED <<task, sync>>
                             ELSE Cancels(c, seen)
              ELSE IF seen.rows > 0
              THEN IF provider \in {"slack", "api"}
                   THEN Settle(c, "PROCESSED") /\ UNCHANGED <<task, sync>>
                   ELSE Refreshes(c, seen, e)
              ELSE IF Qualifies(e) THEN Creates(c, e)
              ELSE Settle(c, "IGNORED") /\ UNCHANGED <<task, sync>>
     /\ UNCHANGED <<provider, item, events, jammed, turns>>

(* The transaction fails for a reason outside the program; a source delivery *)
(* whose payload has the wrong form is given up on at once.                  *)
FaultyDelivery(c) ==
  /\ hands[c].pc = "handling" /\ turns < MaxTurns
  /\ turns' = turns + 1
  /\ \/ Retry(c)
     \/ provider \in {"trello", "slack"} /\ Settle(c, "FAILED")
  /\ UNCHANGED <<provider, item, events, task, told, sync, due, jammed>>

(* The routes are put right.                                                *)
Reroute ==
  /\ jammed
  /\ jammed' = FALSE
  /\ UNCHANGED <<provider, item, events, inbox, task, told, sync, hands, due, turns>>

-----------------------------------------------------------------------------
(* reconcile_due(): the HTTP read, the rows it is compared with, the commit. *)
Listed == item.list \in Sources /\ ~ item.gone

PollItems(c) ==
  /\ provider \in Polled
  /\ hands[c] = AtRest /\ ~ Polling /\ due
  /\ hands' = [hands EXCEPT ![c] = [pc |-> "listed", found |-> Listed, got |-> item]]
  /\ UNCHANGED <<provider, item, events, inbox, task, told, sync, due, jammed, turns>>

LoadRows(c) ==
  /\ hands[c].pc = "listed"
  /\ hands' = [hands EXCEPT ![c] = [pc |-> "loaded", found |-> @.found, got |-> @.got,
                                    seen |-> Seen]]
  /\ UNCHANGED <<provider, item, events, inbox, task, told, sync, due, jammed, turns>>

(* Mutant: an item that has a task is left to its webhooks.                  *)
UpsertsNew(seen, got) ==
  IF seen.rows = 0 /\ task.rows = 0
  THEN \E t \in Created(got.text, got.list) : task' = t /\ sync' = Enqueue(sync, t.state)
  ELSE UNCHANGED <<task, sync>>

(* _upsert_issue(), _upsert_card(): a row that changed since it was loaded   *)
(* fails the savepoint and every upsert of the poll with it.                *)
Upserts(seen, got) ==
  IF seen.rows = 0
  THEN IF task.rows > 0 THEN UNCHANGED <<task, sync>>
       ELSE \E t \in Created(got.text, got.list) :
              task' = t /\ sync' = Enqueue(sync, t.state)
  ELSE IF Material(seen, got.text) /\ Conflicts(seen) THEN UNCHANGED <<task, sync>>
  ELSE Updates(seen, got.text, got.list)

(* A text that is no other than the one read leaves the Task row alone.     *)
Reconcile(c) ==
  /\ hands[c].pc = "loaded"
  /\ IF hands[c].found
     THEN /\ hands[c].seen.rows = 0 \/ hands[c].got.text = hands[c].seen.text \/ ~ TaskLocked
          /\ Upserts(hands[c].seen, hands[c].got)
     ELSE UNCHANGED <<task, sync>>
  /\ due' = FALSE
  /\ Frees(c)
  /\ UNCHANGED <<provider, item, events, inbox, told, jammed, turns>>

PollFails(c) ==
  /\ hands[c].pc \in {"listed", "loaded"} /\ turns < MaxTurns
  /\ turns' = turns + 1
  /\ due' = FALSE
  /\ Frees(c)
  /\ UNCHANGED <<provider, item, events, inbox, task, told, sync, jammed>>

(* The poll interval has passed.                                            *)
Tick ==
  /\ provider \in Polled /\ ~ due
  /\ due' = TRUE
  /\ UNCHANGED <<provider, item, events, inbox, task, told, sync, hands, jammed, turns>>

-----------------------------------------------------------------------------
(* Mutant: an attempt that fails is not counted.                            *)
MovesForever(row, ok) ==
  [row EXCEPT !.status = IF ok THEN "SYNCED" ELSE "PENDING"]

(* process_status_sync()                                                    *)
Moves(row, ok) ==
  [row EXCEPT !.attempts = @ + 1,
              !.status = IF ok THEN "SYNCED"
                         ELSE IF row.attempts + 1 >= MaxSyncAttempts THEN "FAILED" ELSE "PENDING"]

ClaimStatus(c) ==
  LET target == Target[sync.wanted]
  IN /\ hands[c] = AtRest /\ ~ TaskLocked
     /\ sync.status = "PENDING"
     /\ \/ /\ provider \notin Polled
           /\ sync' = [sync EXCEPT !.status = "NO_TRACKER"] /\ UNCHANGED hands
        \/ /\ provider \in Polled /\ target = NoList
           /\ sync' = [sync EXCEPT !.status = "CONFIGURATION_REQUIRED"] /\ UNCHANGED hands
        \/ /\ provider \in Polled /\ target = task.shot
           /\ sync' = Moves(sync, TRUE) /\ UNCHANGED hands
        \/ /\ provider \in Polled /\ target \notin {NoList, task.shot}
           /\ hands' = [hands EXCEPT ![c] = [pc |-> "moving", to |-> target]]
           /\ UNCHANGED sync
     /\ UNCHANGED <<provider, item, events, inbox, task, told, due, jammed, turns>>

(* update_card_list(), update_issue_state() reach the provider, which       *)
(* reports the change like any other.                                       *)
MoveCard(c) ==
  /\ hands[c].pc = "moving" /\ ~ item.gone
  /\ item' = [item EXCEPT !.list = hands[c].to]
  /\ events' = IF Len(events) < MaxEvents THEN Append(events, Reported("sync", item'))
               ELSE events
  /\ hands' = [hands EXCEPT ![c].pc = "moved"]
  /\ UNCHANGED <<provider, inbox, task, told, sync, due, jammed, turns>>

Confirm(c) ==
  /\ hands[c].pc = "moved"
  /\ sync' = Moves(sync, TRUE)
  /\ task' = [task EXCEPT !.shot = hands[c].to]
  /\ Frees(c)
  /\ UNCHANGED <<provider, item, events, inbox, told, due, jammed, turns>>

(* The update is refused, or its answer does not come back in time.         *)
MoveFails(c) ==
  /\ \/ hands[c].pc = "moving" /\ item.gone /\ UNCHANGED turns
     \/ hands[c].pc \in {"moving", "moved"} /\ turns < MaxTurns /\ turns' = turns + 1
  /\ sync' = Moves(sync, FALSE)
  /\ Frees(c)
  /\ UNCHANGED <<provider, item, events, inbox, task, told, due, jammed>>

(* The replica stops: its transaction is rolled back, nothing is counted.   *)
CrashIntake(c) ==
  /\ hands[c] # AtRest /\ turns < MaxTurns
  /\ turns' = turns + 1
  /\ Frees(c)
  /\ UNCHANGED <<provider, item, events, inbox, task, told, sync, due, jammed>>

-----------------------------------------------------------------------------
IntakeNext ==
  \/ EditItem \/ MoveItem \/ DropItem \/ Comment \/ Tick \/ Reroute
  \/ \E a \in {"START", "PAUSE", "RESUME", "TAKEOVER"} : Work(a)
  \/ \E e \in 1..MaxEvents : Ingest(e)
  \/ \E c \in Controllers :
       \/ \E r \in 1..MaxEvents : Begin(c, r)
       \/ Finish(c) \/ FaultyDelivery(c) \/ CountAttempt(c)
       \/ PollItems(c) \/ LoadRows(c) \/ Reconcile(c) \/ PollFails(c)
       \/ ClaimStatus(c) \/ MoveCard(c) \/ Confirm(c) \/ MoveFails(c)
       \/ CrashIntake(c)

IntakeSpec == IntakeInit /\ [][IntakeNext]_intakeVars

(* A replica's round polls, then takes deliveries and updates the tracker;   *)
(* an error that a Slack message lets out ends the round before the latter   *)
(* two (process_deliveries.py:18).  What a replica began it ends; a Trello    *)
(* delivery waits for the lock of the integration row as often as needed.    *)
(* Nothing is assumed of webhooks, which may never arrive, nor of the repair *)
(* of routes, which nobody may see to.                                       *)
Begins   == ~ jammed /\ \E c \in Controllers, r \in 1..MaxEvents : Begin(c, r)
Polls    == \E c \in Controllers : PollItems(c)
Claims   == ~ jammed /\ \E c \in Controllers : ClaimStatus(c)
Carries(c) == \/ CountAttempt(c) \/ LoadRows(c) \/ Reconcile(c)
              \/ MoveCard(c) \/ Confirm(c) \/ MoveFails(c)
IntakeFairness ==
  /\ WF_intakeVars(Begins) /\ WF_intakeVars(Polls) /\ WF_intakeVars(Claims)
  /\ WF_intakeVars(Tick)
  /\ \A c \in Controllers : SF_intakeVars(Finish(c)) /\ WF_intakeVars(Carries(c))
IntakeFairSpec == IntakeSpec /\ IntakeFairness

-----------------------------------------------------------------------------
IntakeTypeOK ==
  /\ provider \in Providers
  /\ item \in [text : 0..MaxText, list : Lists, gone : BOOLEAN]
  /\ \A e \in 1..Len(events) : events[e] \in Event
  /\ \A r \in 1..Len(inbox) : inbox[r] \in Delivery
  /\ task \in TaskRow
  /\ sync \in SyncRow
  /\ told \in [1..MaxEvents -> Nat]
  /\ jammed \in BOOLEAN

(* However often an event is delivered, retried or interrupted, whichever   *)
(* replicas and polls work on it at once, the item becomes one task and a   *)
(* comment one message of it.                                               *)
TakenOnce == task.rows <= 1 /\ \A e \in 1..MaxEvents : told[e] <= 1

(* A task under way never has its text replaced beneath it: the step that   *)
(* writes another text leaves the task paused, at a newer requirement, with *)
(* the tracker told (engineering_events.py:327).                            *)
ChangedTextStopsWork ==
  [][(task.rows > 0 /\ task'.text # task.text /\ ~ Terminated(task')) =>
       /\ task'.state.status = "PAUSED"
       /\ task'.state.req > task.state.req
       /\ sync'.wanted = "paused" /\ sync'.status \in {"PENDING", "SYNCED"}]_intakeVars

(* Once an item stays in a polled list, its task comes to exist and to have *)
(* its text, whatever webhooks were lost, late or out of order.             *)
TrackerConverges ==
  <>[](provider \in Polled /\ Listed) => <>[](task.rows > 0 /\ task.text = item.text)

(* Once no Slack message is routed to what does not exist, every delivery    *)
(* comes to be settled and every status update marked as done, as failed     *)
(* after its last attempt or as without a place to go: no conflict, stopped  *)
(* replica or poll leaves one waiting for ever (process_status_sync()).      *)
(* Until then the message at the head of the source deliveries, whose        *)
(* attempts are not counted, holds up all of them                            *)
(* (source_deliveries.py:146).  Nothing is said of the list the tracker      *)
(* shows for a status marked SYNCED.                                        *)
NothingPendsForever ==
  <>[](~ jammed) =>
    /\ <>[](\A r \in 1..Len(inbox) : inbox[r].status # "RECEIVED")
    /\ <>[](sync.status # "PENDING")
=============================================================================
