---------------------------- MODULE Notifications ----------------------------
(***************************************************************************)
(* The activity notifications of task transitions: the transactional       *)
(* outbox (platform/messaging/infrastructure/outbox.py), its dispatcher    *)
(* (application/dispatch.py), RabbitMQ with its consumer (rabbitmq.py),    *)
(* the messaging process that runs both (bootstrap/messaging.py), and the  *)
(* activity projection they wake (activity/infrastructure/projector.py).   *)
(*                                                                         *)
(* A process loses its connection, is cancelled or dies at any point; the  *)
(* broker then takes back the message that was not acknowledged.           *)
(***************************************************************************)
EXTENDS Naturals, FiniteSets

CONSTANTS
  Events,       (* notification rows, ordered by the id of their task event  *)
  Processes,    (* messaging processes                                       *)
  MaxAttempts,  (* MAX_HANDLER_ATTEMPTS                                      *)
  BatchSize,    (* records that one projection takes                         *)
  MaxFaults,    (* bound: failures explored                                  *)
  Nobody, Periodic

ASSUME NotificationsAssumption ==
  /\ Events \subseteq Nat \ {0}
  /\ MaxAttempts \in Nat \ {0}
  /\ BatchSize \in Nat \ {0}
  /\ MaxFaults \in Nat
  /\ Periodic \notin Processes
  /\ Nobody \notin Processes \cup {Periodic}

VARIABLES
  row,        (* notification_outbox                                         *)
  sender,     (* what a dispatcher holds between its transactions            *)
  queue,      (* copies of each message waiting in the broker                *)
  receiver,   (* the message a consumer has not acknowledged                 *)
  dead,       (* events with a message in the dead-letter queue              *)
  scan,       (* holder of the projection lock and the records it has read   *)
  projected,  (* events whose task record is in the activity projection      *)
  handled,    (* events with a message acknowledged after its handler        *)
  failures,   (* failures of the handler for each event                      *)
  faults      (* failures so far                                             *)

vars == <<row, sender, queue, receiver, dead, scan, projected, handled, failures, faults>>

Message == [event : Events, attempt : 0..(MaxAttempts - 1)]
NoMessage == [event |-> 0, attempt |-> 0]
RowState == {"none", "pending", "published", "pruned"}
SenderPC == {"idle", "publishing", "confirmed", "failed", "stopped"}
ReceiverPC == {"idle", "delivered", "projecting", "handled", "failed", "moved"}
Projectors == Processes \cup {Periodic}

Rest == [pc |-> "idle", msg |-> NoMessage]
Free == [holder |-> Nobody, seen |-> {}]

Init ==
  /\ row = [e \in Events |-> [state |-> "none", due |-> TRUE, token |-> Nobody]]
  /\ sender = [p \in Processes |-> [pc |-> "idle", event |-> 0]]
  /\ queue = [m \in Message |-> 0]
  /\ receiver = [p \in Processes |-> Rest]
  /\ dead = {}
  /\ scan = Free
  /\ projected = {}
  /\ handled = {}
  /\ failures = [e \in Events |-> 0]
  /\ faults = 0

Fault == faults < MaxFaults /\ faults' = faults + 1
First(e) == [event |-> e, attempt |-> 0]
Put(m) == [queue EXCEPT ![m] = @ + 1]

-----------------------------------------------------------------------------
(* The outbox.                                                             *)

(* record_transition(): the row commits with the task's transition and its  *)
(* event; concurrent transactions commit in any order of their ids.         *)
Commit(e) ==
  /\ row[e].state = "none"
  /\ row' = [row EXCEPT ![e].state = "pending"]
  /\ UNCHANGED <<sender, queue, receiver, dead, scan, projected, handled, failures, faults>>

(* SqlEventOutbox.claim()                                                   *)
Claim(p, e) ==
  /\ sender[p].pc = "idle"
  /\ row[e].state = "pending"
  /\ row[e].due
  /\ row' = [row EXCEPT ![e].due = FALSE, ![e].token = p]
  /\ sender' = [sender EXCEPT ![p] = [pc |-> "publishing", event |-> e]]
  /\ UNCHANGED <<queue, receiver, dead, scan, projected, handled, failures, faults>>

(* The dispatchers that still work under the row's lease.                   *)
Holders(e) == {p \in Processes : sender[p].event = e /\ row[e].token = p}
(* Mutant: the lease of a lost claim is never over.                          *)
DueUnclaimed(e) ==
  /\ row[e].state = "pending"
  /\ ~ row[e].due
  /\ row[e].token = Nobody
  /\ row' = [row EXCEPT ![e].due = TRUE]
  /\ UNCHANGED <<sender, queue, receiver, dead, scan, projected, handled, failures, faults>>

(* available_at passes: the backoff of a retry or the lease of a lost       *)
(* claim; outliving the lease while still publishing is a failure.          *)
Due(e) ==
  /\ row[e].state = "pending"
  /\ ~ row[e].due
  /\ row' = [row EXCEPT ![e].due = TRUE]
  /\ IF Holders(e) = {} THEN UNCHANGED faults ELSE Fault
  /\ UNCHANGED <<sender, queue, receiver, dead, scan, projected, handled, failures>>

(* publish() returns with the broker's confirmation.                        *)
Publish(p) ==
  /\ sender[p].pc = "publishing"
  /\ queue' = Put(First(sender[p].event))
  /\ sender' = [sender EXCEPT ![p].pc = "confirmed"]
  /\ UNCHANGED <<row, receiver, dead, scan, projected, handled, failures, faults>>

(* Mutant: a timeout is taken for a success.                                *)
AssumePublished(p) ==
  /\ sender[p].pc = "publishing"
  /\ \E q \in {queue, Put(First(sender[p].event))} : queue' = q
  /\ sender' = [sender EXCEPT ![p].pc = "confirmed"]
  /\ Fault
  /\ UNCHANGED <<row, receiver, dead, scan, projected, handled, failures>>

(* It times out, or is not confirmed: the broker may have the message.      *)
PublishUnconfirmed(p) ==
  /\ sender[p].pc = "publishing"
  /\ \E q \in {queue, Put(First(sender[p].event))} : queue' = q
  /\ sender' = [sender EXCEPT ![p].pc = "failed"]
  /\ Fault
  /\ UNCHANGED <<row, receiver, dead, scan, projected, handled, failures>>

OwnsRow(p) == row[sender[p].event].state = "pending" /\ row[sender[p].event].token = p

(* SqlEventOutbox.published()                                               *)
Published(p) ==
  /\ sender[p].pc = "confirmed"
  /\ row' = IF OwnsRow(p)
            THEN [row EXCEPT ![sender[p].event].state = "published",
                             ![sender[p].event].token = Nobody]
            ELSE row
  /\ sender' = [sender EXCEPT ![p] = [pc |-> "idle", event |-> 0]]
  /\ UNCHANGED <<queue, receiver, dead, scan, projected, handled, failures, faults>>

(* SqlEventOutbox.retry(); dispatch() then gives up its connection.         *)
Retry(p) ==
  /\ sender[p].pc = "failed"
  /\ row' = IF OwnsRow(p)
            THEN [row EXCEPT ![sender[p].event].due = FALSE,
                             ![sender[p].event].token = Nobody]
            ELSE row
  /\ sender' = [sender EXCEPT ![p] = [pc |-> "stopped", event |-> 0]]
  /\ UNCHANGED <<queue, receiver, dead, scan, projected, handled, failures, faults>>

(* SqlEventOutbox.prune()                                                   *)
Prune(e) ==
  /\ row[e].state = "published"
  /\ row' = [row EXCEPT ![e].state = "pruned"]
  /\ UNCHANGED <<sender, queue, receiver, dead, scan, projected, handled, failures, faults>>

-----------------------------------------------------------------------------
(* The projection.                                                         *)

Committed == {e \in Events : row[e].state # "none"}
Unseen == Committed \ projected
(* Mutant: a cursor over the ids instead of the anti-join.                  *)
BatchAfterCursor == {e \in Unseen : \A f \in projected : f < e}
(* task_events(): the unseen records with the lowest ids.                   *)
Batch == {e \in Unseen : Cardinality({f \in Unseen : f < e}) < BatchSize}

(* project(): try the lock, read a batch; the commit releases the lock.     *)
Read(p) == scan' = [holder |-> p, seen |-> Batch]
Write   == projected' = projected \cup scan.seen /\ scan' = Free

(* The activity process projects on a timer.                                *)
BeginScan ==
  /\ scan = Free
  /\ Read(Periodic)
  /\ UNCHANGED <<row, sender, queue, receiver, dead, projected, handled, failures, faults>>
EndScan ==
  /\ scan.holder = Periodic
  /\ Write
  /\ UNCHANGED <<row, sender, queue, receiver, dead, handled, failures, faults>>
AbortScan ==
  /\ scan.holder = Periodic
  /\ scan' = Free
  /\ Fault
  /\ UNCHANGED <<row, sender, queue, receiver, dead, projected, handled, failures>>

-----------------------------------------------------------------------------
(* The consumer, one message at a time.                                    *)

Moves(p, pc) == receiver' = [receiver EXCEPT ![p].pc = pc]

Deliver(p, m) ==
  /\ receiver[p].pc = "idle"
  /\ queue[m] > 0
  /\ queue' = [queue EXCEPT ![m] = @ - 1]
  /\ receiver' = [receiver EXCEPT ![p] = [pc |-> "delivered", msg |-> m]]
  /\ UNCHANGED <<row, sender, dead, scan, projected, handled, failures, faults>>

(* project() of the handler, which returns at once if the lock is taken.    *)
HandleBegin(p) ==
  /\ receiver[p].pc = "delivered"
  /\ IF scan = Free THEN Read(p) /\ Moves(p, "projecting")
                    ELSE UNCHANGED scan /\ Moves(p, "handled")
  /\ UNCHANGED <<row, sender, queue, dead, projected, handled, failures, faults>>
HandleEnd(p) ==
  /\ receiver[p].pc = "projecting"
  /\ Write
  /\ Moves(p, "handled")
  /\ UNCHANGED <<row, sender, queue, dead, handled, failures, faults>>

Release(p) == IF scan.holder = p THEN Free ELSE scan

(* The handler raises something that is not an infrastructure error.        *)
HandleFails(p) ==
  /\ receiver[p].pc \in {"delivered", "projecting"}
  /\ scan' = Release(p)
  /\ failures' = [failures EXCEPT ![receiver[p].msg.event] = @ + 1]
  /\ Moves(p, "failed")
  /\ Fault
  /\ UNCHANGED <<row, sender, queue, dead, projected, handled>>

Exhausted(p) == receiver[p].msg.attempt + 1 >= MaxAttempts

Reject(p) ==
  /\ receiver[p].pc = "failed"
  /\ Exhausted(p)
  /\ dead' = dead \cup {receiver[p].msg.event}
  /\ receiver' = [receiver EXCEPT ![p] = Rest]
  /\ UNCHANGED <<row, sender, queue, scan, projected, handled, failures, faults>>

(* Published again with its attempt counted, and only then acknowledged.    *)
Republish(p) ==
  /\ receiver[p].pc = "failed"
  /\ ~ Exhausted(p)
  /\ queue' = Put([receiver[p].msg EXCEPT !.attempt = @ + 1])
  /\ Moves(p, "moved")
  /\ UNCHANGED <<row, sender, dead, scan, projected, handled, failures, faults>>

Ack(p) ==
  /\ receiver[p].pc \in {"handled", "moved"}
  /\ handled' = IF receiver[p].pc = "handled" THEN handled \cup {receiver[p].msg.event}
                                              ELSE handled
  /\ receiver' = [receiver EXCEPT ![p] = Rest]
  /\ UNCHANGED <<row, sender, queue, dead, scan, projected, failures, faults>>

(* Both tasks of the process end together, and the broker takes back the    *)
(* message in hand.                                                         *)
DropConnection(p) ==
  /\ sender' = [sender EXCEPT ![p] = [pc |-> "idle", event |-> 0]]
  /\ receiver' = [receiver EXCEPT ![p] = Rest]
  /\ queue' = IF receiver[p].pc = "idle" THEN queue ELSE Put(receiver[p].msg)
  /\ scan' = Release(p)
  /\ UNCHANGED <<row, dead, projected, handled, failures>>

(* run_messaging() reconnects after a failed publication, an infrastructure *)
(* error of the handler, a broker failure or a restart of the process.      *)
Reconnect(p) == sender[p].pc = "stopped" /\ DropConnection(p) /\ UNCHANGED faults
Disconnect(p) == sender[p].pc # "stopped" /\ DropConnection(p) /\ Fault

-----------------------------------------------------------------------------
ProcessStep(p) ==
  \/ \E e \in Events : Claim(p, e)
  \/ Publish(p)
  \/ PublishUnconfirmed(p)
  \/ Published(p)
  \/ Retry(p)
  \/ \E m \in Message : Deliver(p, m)
  \/ HandleBegin(p)
  \/ HandleEnd(p)
  \/ HandleFails(p)
  \/ Reject(p)
  \/ Republish(p)
  \/ Ack(p)
  \/ Reconnect(p)
  \/ Disconnect(p)

Next ==
  \/ \E e \in Events : Commit(e) \/ Due(e) \/ Prune(e)
  \/ \E p \in Processes : ProcessStep(p)
  \/ BeginScan \/ EndScan \/ AbortScan

Spec == Init /\ [][Next]_vars

(***************************************************************************)
(* Fairness: the loops of the messaging and activity processes never end,  *)
(* and time passes.  The periodic scan competes with the consumers for a   *)
(* lock that none keeps, so it gets it again and again if it is free again *)
(* and again.  Failures are bounded by MaxFaults and never required.       *)
(***************************************************************************)
Works(p) ==
  \/ Publish(p) \/ Published(p) \/ Retry(p) \/ HandleBegin(p) \/ HandleEnd(p)
  \/ Reject(p) \/ Republish(p) \/ Ack(p) \/ Reconnect(p)
Fairness ==
  /\ \A p \in Processes :
       /\ WF_vars(Works(p))
       /\ WF_vars(\E e \in Events : Claim(p, e))
       /\ WF_vars(\E m \in Message : Deliver(p, m))
  /\ \A e \in Events : WF_vars(Due(e) /\ Holders(e) = {})
  /\ SF_vars(BeginScan) /\ WF_vars(EndScan)
FairSpec == Spec /\ Fairness

-----------------------------------------------------------------------------
NotificationsTypeOK ==
  /\ row \in [Events -> [state : RowState, due : BOOLEAN, token : Processes \cup {Nobody}]]
  /\ sender \in [Processes -> [pc : SenderPC, event : Events \cup {0}]]
  /\ queue \in [Message -> Nat]
  /\ receiver \in [Processes -> [pc : ReceiverPC, msg : Message \cup {NoMessage}]]
  /\ dead \subseteq Events
  /\ scan \in [holder : Projectors \cup {Nobody}, seen : SUBSET Events]
  /\ projected \subseteq Events
  /\ handled \subseteq Events
  /\ failures \in [Events -> Nat]
  /\ faults \in 0..MaxFaults

Waiting(e) == \E m \in Message : m.event = e /\ queue[m] > 0
InHand(e)  == \E p \in Processes : receiver[p].pc # "idle" /\ receiver[p].msg.event = e

(* A row that the dispatcher marks published, and may then prune, stands    *)
(* for a message that still exists: it waits, is being handled, was handled *)
(* or is dead-lettered.  Timeouts, expired leases, a second dispatcher and  *)
(* lost connections duplicate notifications but never lose one.             *)
NoNotificationLost ==
  \A e \in Events : row[e].state \in {"published", "pruned"} =>
    Waiting(e) \/ InHand(e) \/ e \in handled \/ e \in dead

(* A message is dead-lettered only after the handler failed for its event   *)
(* MAX_HANDLER_ATTEMPTS times, however often it was redelivered.            *)
OnlyExhaustedAreDead == \A e \in dead : failures[e] >= MaxAttempts

(* Every transition that commits reaches the activity projection, whatever  *)
(* happens to its notification.                                            *)
EveryCommitIsProjected == \A e \in Events : row[e].state = "pending" ~> e \in projected

(* Once failures stop, every row of the outbox is published, and its        *)
(* message is handled or dead-lettered.                                    *)
OutboxDrains ==
  \A e \in Events : row[e].state = "pending" ~>
    row[e].state \in {"published", "pruned"} /\ e \in handled \cup dead

=============================================================================
