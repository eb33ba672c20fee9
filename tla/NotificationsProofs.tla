------------------------- MODULE NotificationsProofs -------------------------
(***************************************************************************)
(* At-least-once delivery for any number of events, processes and faults.  *)
(* What carries the proof: a message that was once in the broker stays     *)
(* somewhere, not counting the copy of a consumer that has already put its *)
(* successor back (Safe); and a message carries no more attempts than its  *)
(* handler failed.                                                         *)
(***************************************************************************)
EXTENDS Notifications, TLAPS

Carries(p, e) == receiver[p].pc \notin {"idle", "moved"} /\ receiver[p].msg.event = e
Safe(e) ==
  \/ Waiting(e)
  \/ \E p \in Processes : Carries(p, e)
  \/ e \in handled
  \/ e \in dead

SendersOK ==
  \A p \in Processes :
    /\ sender[p].pc \in {"publishing", "confirmed", "failed"} => sender[p].event \in Events
    /\ sender[p].pc = "confirmed" => Safe(sender[p].event)

ReceiverOK(p) ==
  /\ receiver[p].pc # "idle" =>
       /\ receiver[p].msg \in Message
       /\ failures[receiver[p].msg.event] >= receiver[p].msg.attempt
  /\ receiver[p].pc = "failed" =>
       failures[receiver[p].msg.event] >= receiver[p].msg.attempt + 1
  /\ receiver[p].pc = "moved" => Safe(receiver[p].msg.event)
ReceiversOK == \A p \in Processes : ReceiverOK(p)

CountsOK == \A m \in Message : queue[m] > 0 => failures[m.event] >= m.attempt

RowsSafe == \A e \in Events : row[e].state \in {"published", "pruned"} => Safe(e)

NotificationsInv ==
  /\ NotificationsTypeOK
  /\ SendersOK
  /\ ReceiversOK
  /\ CountsOK
  /\ RowsSafe
  /\ OnlyExhaustedAreDead

-----------------------------------------------------------------------------
LEMMA InitNotifications == Init => NotificationsInv
<1> SUFFICES ASSUME Init PROVE NotificationsInv
  OBVIOUS
<1>1. NotificationsTypeOK
  <2>1. Nobody \in Processes \cup {Nobody} /\ 0 \in 0..MaxFaults
    BY NotificationsAssumption
  <2> QED BY <2>1 DEF Init, NotificationsTypeOK, RowState, SenderPC, ReceiverPC, Rest, Free,
                      NoMessage, Projectors
<1> QED
  BY <1>1 DEF Init, NotificationsInv, SendersOK, ReceiversOK, ReceiverOK, CountsOK, RowsSafe,
              OnlyExhaustedAreDead, Rest

(* The messages of the broker.                                             *)
LEMMA PutOK ==
  ASSUME queue \in [Message -> Nat], NEW m \in Message, NEW q, q = Put(m)
  PROVE  /\ q \in [Message -> Nat]
         /\ q[m] > 0
         /\ \A n \in Message : queue[n] > 0 => q[n] > 0
         /\ \A n \in Message \ {m} : q[n] = queue[n]
BY DEF Put

LEMMA FirstOK ==
  ASSUME NEW e \in Events
  PROVE  First(e) \in Message /\ First(e).event = e /\ First(e).attempt = 0
<1>1. 0 \in 0..(MaxAttempts - 1)
  BY NotificationsAssumption
<1> QED BY <1>1 DEF First, Message

(* A step that leaves the consumers alone, takes nothing from the broker and *)
(* adds only messages that no attempt counts against.                       *)
LEMMA BrokerGrows ==
  ASSUME NotificationsInv, NotificationsTypeOK',
         UNCHANGED <<receiver, dead, handled, failures>>,
         \A m \in Message : /\ queue[m] > 0 => queue'[m] > 0
                            /\ queue'[m] > 0 => queue[m] > 0 \/ m.attempt = 0
  PROVE  /\ \A e : Safe(e) => Safe(e)'
         /\ ReceiversOK' /\ CountsOK' /\ OnlyExhaustedAreDead'
<1>1. \A e : Safe(e) => Safe(e)'
  BY DEF Safe, Waiting, Carries
<1>2. ReceiversOK'
  BY <1>1 DEF NotificationsInv, ReceiversOK, ReceiverOK
<1>3. CountsOK'
  <2> SUFFICES ASSUME NEW m \in Message, queue'[m] > 0
               PROVE  failures'[m.event] >= m.attempt
    BY DEF CountsOK
  <2>1. CASE queue[m] > 0
    BY <2>1 DEF NotificationsInv, CountsOK
  <2>2. CASE m.attempt = 0
    BY <2>2 DEF NotificationsTypeOK, Message
  <2> QED BY <2>1, <2>2
<1>4. OnlyExhaustedAreDead'
  BY DEF NotificationsInv, OnlyExhaustedAreDead
<1> QED BY <1>1, <1>2, <1>3, <1>4

RowType == [state : RowState, due : BOOLEAN, token : Processes \cup {Nobody}]
SenderType == [pc : SenderPC, event : Events \cup {0}]

(* A step of the outbox that marks nothing published.                       *)
LEMMA OutboxInv ==
  ASSUME NotificationsInv,
         UNCHANGED <<queue, receiver, dead, scan, projected, handled, failures>>,
         row' \in [Events -> RowType], sender' \in [Processes -> SenderType],
         faults' \in 0..MaxFaults,
         \A e \in Events : row'[e].state \in {"published", "pruned"} =>
                             row[e].state \in {"published", "pruned"},
         \A p \in Processes :
           \/ sender'[p] = sender[p]
           \/ sender'[p].pc = "publishing" /\ sender'[p].event \in Events
           \/ sender'[p].pc \in {"idle", "stopped"}
  PROVE  NotificationsInv'
<1>1. NotificationsTypeOK'
  BY DEF NotificationsInv, NotificationsTypeOK, RowType, SenderType
<1>2. (\A e : Safe(e) => Safe(e)') /\ ReceiversOK' /\ CountsOK' /\ OnlyExhaustedAreDead'
  BY <1>1, BrokerGrows
<1>3. SendersOK'
  BY <1>2 DEF NotificationsInv, SendersOK
<1>4. RowsSafe'
  BY <1>2 DEF NotificationsInv, RowsSafe
<1> QED BY <1>1, <1>2, <1>3, <1>4 DEF NotificationsInv

LEMMA FaultOK ==
  ASSUME faults \in 0..MaxFaults, Fault \/ UNCHANGED faults
  PROVE  faults' \in 0..MaxFaults
BY NotificationsAssumption DEF Fault

LEMMA Typed ==
  ASSUME NotificationsInv
  PROVE  /\ NotificationsTypeOK
         /\ row \in [Events -> RowType]
         /\ sender \in [Processes -> SenderType]
         /\ faults \in 0..MaxFaults
BY DEF NotificationsInv, NotificationsTypeOK, RowType, SenderType

LEMMA RowsInv ==
  ASSUME NotificationsInv, NEW e \in Events, Commit(e) \/ Due(e) \/ Prune(e)
  PROVE  NotificationsInv'
<1>1. UNCHANGED <<sender, queue, receiver, dead, scan, projected, handled, failures>>
      /\ (Fault \/ UNCHANGED faults)
  BY DEF Commit, Due, Prune
<1>2. row' \in [Events -> RowType]
  BY Typed DEF Commit, Due, Prune, RowType, RowState
<1>3. \A f \in Events : row'[f].state \in {"published", "pruned"} =>
                          row[f].state \in {"published", "pruned"}
  BY Typed DEF Commit, Due, Prune, RowType
<1>4. faults' \in 0..MaxFaults
  BY <1>1, Typed, FaultOK
<1> QED BY <1>1, <1>2, <1>3, <1>4, Typed, OutboxInv

LEMMA ClaimInv ==
  ASSUME NotificationsInv, NEW p \in Processes, NEW e \in Events, Claim(p, e)
  PROVE  NotificationsInv'
<1>1. UNCHANGED <<queue, receiver, dead, scan, projected, handled, failures, faults>>
      /\ row' = [row EXCEPT ![e].due = FALSE, ![e].token = p]
      /\ sender' = [sender EXCEPT ![p] = [pc |-> "publishing", event |-> e]]
  BY DEF Claim
<1>2. row' \in [Events -> RowType] /\ \A f \in Events : row'[f].state = row[f].state
  BY <1>1, Typed DEF RowType
<1>3. sender' \in [Processes -> SenderType]
      /\ sender'[p].pc = "publishing" /\ sender'[p].event = e
      /\ \A q \in Processes \ {p} : sender'[q] = sender[q]
  BY <1>1, Typed DEF SenderType, SenderPC
<1> QED BY <1>1, <1>2, <1>3, Typed, OutboxInv

LEMMA RetryInv ==
  ASSUME NotificationsInv, NEW p \in Processes, Retry(p)
  PROVE  NotificationsInv'
<1>1. PICK e \in Events : e = sender[p].event
  BY DEF Retry, NotificationsInv, SendersOK
<1>2. UNCHANGED <<queue, receiver, dead, scan, projected, handled, failures, faults>>
      /\ sender' = [sender EXCEPT ![p] = [pc |-> "stopped", event |-> 0]]
  BY DEF Retry
<1>3. \/ row' = [row EXCEPT ![e].due = FALSE, ![e].token = Nobody]
      \/ row' = row
  BY <1>1 DEF Retry
<1>4. row' \in [Events -> RowType] /\ \A f \in Events : row'[f].state = row[f].state
  <2>1. row \in [Events -> RowType]
    BY Typed
  <2>2. CASE row' = [row EXCEPT ![e].due = FALSE, ![e].token = Nobody]
    BY <2>1, <2>2 DEF RowType
  <2> QED BY <1>3, <2>1, <2>2
<1>5. sender' \in [Processes -> SenderType] /\ sender'[p].pc = "stopped"
      /\ \A q \in Processes \ {p} : sender'[q] = sender[q]
  BY <1>2, Typed DEF SenderType, SenderPC
<1> QED BY <1>2, <1>4, <1>5, Typed, OutboxInv

(* A confirmed publication puts the message in the broker first, and the     *)
(* row is marked by a dispatcher whose message is still somewhere.          *)
LEMMA PublishInv ==
  ASSUME NotificationsInv, NEW p \in Processes, Publish(p) \/ PublishUnconfirmed(p)
  PROVE  NotificationsInv'
<1>1. PICK e \in Events : e = sender[p].event
  BY DEF Publish, PublishUnconfirmed, NotificationsInv, SendersOK
<1>2. /\ UNCHANGED <<row, receiver, dead, scan, projected, handled, failures>>
      /\ Fault \/ UNCHANGED faults
  BY DEF Publish, PublishUnconfirmed
<1>3. \/ queue' = Put(First(e)) /\ sender' = [sender EXCEPT ![p].pc = "confirmed"]
      \/ /\ queue' = Put(First(e)) \/ queue' = queue
         /\ sender' = [sender EXCEPT ![p].pc = "failed"]
  BY <1>1 DEF Publish, PublishUnconfirmed
<1>4. /\ sender' \in [Processes -> SenderType]
      /\ sender'[p].event = e
      /\ sender'[p].pc \in {"confirmed", "failed"}
      /\ \A q \in Processes \ {p} : sender'[q] = sender[q]
      /\ sender'[p].pc = "confirmed" => queue' = Put(First(e))
  BY <1>1, <1>3, Typed DEF SenderType, SenderPC
<1>5. First(e) \in Message /\ First(e).event = e /\ First(e).attempt = 0
  BY FirstOK
<1>6. queue \in [Message -> Nat]
  BY Typed DEF NotificationsTypeOK
<1>7. /\ queue' \in [Message -> Nat]
      /\ queue' = Put(First(e)) => queue'[First(e)] > 0
      /\ \A m \in Message : queue[m] > 0 => queue'[m] > 0
      /\ \A m \in Message \ {First(e)} : queue'[m] = queue[m]
  BY <1>3, <1>5, <1>6, PutOK
<1>8. \A m \in Message : /\ queue[m] > 0 => queue'[m] > 0
                         /\ queue'[m] > 0 => queue[m] > 0 \/ m.attempt = 0
  BY <1>5, <1>7
<1>9. NotificationsTypeOK'
  BY <1>2, <1>4, <1>7, Typed, FaultOK DEF NotificationsTypeOK, SenderType
<1>10. (\A f : Safe(f) => Safe(f)') /\ ReceiversOK' /\ CountsOK' /\ OnlyExhaustedAreDead'
  BY <1>2, <1>8, <1>9, BrokerGrows
<1>11. SendersOK'
  <2>1. ASSUME sender'[p].pc = "confirmed" PROVE Safe(e)'
    <3>1. queue'[First(e)] > 0
      BY <1>4, <1>7, <2>1
    <3>2. Waiting(e)'
      BY <1>5, <3>1 DEF Waiting
    <3> QED BY <3>2 DEF Safe
  <2>2. ASSUME NEW q \in Processes
        PROVE  /\ sender'[q].pc \in {"publishing", "confirmed", "failed"} =>
                    sender'[q].event \in Events
               /\ sender'[q].pc = "confirmed" => Safe(sender[q].event)'
    <3>1. CASE q = p
      BY <1>4, <2>1, <3>1
    <3>2. CASE q # p
      BY <1>4, <1>10, <3>2 DEF NotificationsInv, SendersOK
    <3> QED BY <3>1, <3>2
  <2> QED BY <2>2 DEF SendersOK
<1>12. RowsSafe'
  BY <1>2, <1>10 DEF NotificationsInv, RowsSafe
<1> QED BY <1>9, <1>10, <1>11, <1>12 DEF NotificationsInv

LEMMA PublishedInv ==
  ASSUME NotificationsInv, NEW p \in Processes, Published(p)
  PROVE  NotificationsInv'
<1>1. PICK e \in Events : e = sender[p].event /\ Safe(e)
  BY DEF Published, NotificationsInv, SendersOK
<1>2. /\ UNCHANGED <<queue, receiver, dead, scan, projected, handled, failures, faults>>
      /\ sender' = [sender EXCEPT ![p] = [pc |-> "idle", event |-> 0]]
  BY DEF Published
<1>3. \/ row' = [row EXCEPT ![e].state = "published", ![e].token = Nobody]
      \/ row' = row
  BY <1>1 DEF Published
<1>4. row' \in [Events -> RowType] /\ \A f \in Events \ {e} : row'[f] = row[f]
  BY <1>3, Typed DEF RowType, RowState
<1>5. sender' \in [Processes -> SenderType] /\ sender'[p].pc = "idle"
      /\ \A q \in Processes \ {p} : sender'[q] = sender[q]
  BY <1>2, Typed DEF SenderType, SenderPC
<1>6. NotificationsTypeOK'
  BY <1>2, <1>4, <1>5, Typed DEF NotificationsTypeOK, RowType, SenderType
<1>7. (\A f : Safe(f) => Safe(f)') /\ ReceiversOK' /\ CountsOK' /\ OnlyExhaustedAreDead'
  BY <1>2, <1>6, BrokerGrows
<1>8. SendersOK'
  BY <1>5, <1>7 DEF NotificationsInv, SendersOK
<1>9. RowsSafe'
  BY <1>1, <1>4, <1>7 DEF NotificationsInv, RowsSafe
<1> QED BY <1>6, <1>7, <1>8, <1>9 DEF NotificationsInv

-----------------------------------------------------------------------------
(* The projection, which no part of the invariant but its type speaks of.   *)
LEMMA ScanInv ==
  ASSUME NotificationsInv, BeginScan \/ EndScan \/ AbortScan
  PROVE  NotificationsInv'
<1>1. UNCHANGED <<row, sender, queue, receiver, dead, handled, failures>>
      /\ (Fault \/ UNCHANGED faults)
  BY DEF BeginScan, EndScan, AbortScan
<1>2. /\ scan' \in [holder : Projectors \cup {Nobody}, seen : SUBSET Events]
      /\ projected' \subseteq Events
  <2>1. /\ scan \in [holder : Projectors \cup {Nobody}, seen : SUBSET Events]
        /\ projected \subseteq Events
    BY Typed DEF NotificationsTypeOK
  <2>2. Free \in [holder : Projectors \cup {Nobody}, seen : SUBSET Events]
    BY DEF Free
  <2>3. Batch \subseteq Events
    BY DEF Batch, Unseen, Committed
  <2>4. CASE BeginScan
    BY <2>1, <2>3, <2>4 DEF BeginScan, Read, Projectors
  <2>5. CASE EndScan \/ AbortScan
    BY <2>1, <2>2, <2>5 DEF EndScan, AbortScan, Write
  <2> QED BY <2>4, <2>5
<1>3. NotificationsTypeOK'
  BY <1>1, <1>2, Typed, FaultOK DEF NotificationsTypeOK
<1>4. (\A f : Safe(f) => Safe(f)') /\ ReceiversOK' /\ CountsOK' /\ OnlyExhaustedAreDead'
  BY <1>1, <1>3, BrokerGrows
<1> QED BY <1>1, <1>3, <1>4 DEF NotificationsInv, SendersOK, RowsSafe

-----------------------------------------------------------------------------
(* The consumers.                                                          *)

ReceiverType == [pc : ReceiverPC, msg : Message \cup {NoMessage}]
ScanType     == [holder : Projectors \cup {Nobody}, seen : SUBSET Events]

(* Where the safety of an event is untouched, the outbox is as before.       *)
LEMMA ConsumerInv ==
  ASSUME NotificationsInv, row' = row, NotificationsTypeOK',
         \A p \in Processes : sender'[p] = sender[p] \/ sender'[p].pc = "idle",
         \A e \in Events : Safe(e) => Safe(e)',
         ReceiversOK', CountsOK', OnlyExhaustedAreDead'
  PROVE  NotificationsInv'
<1>1. SendersOK'
  <2> SUFFICES ASSUME NEW p \in Processes
               PROVE  /\ sender'[p].pc \in {"publishing", "confirmed", "failed"} =>
                           sender'[p].event \in Events
                      /\ sender'[p].pc = "confirmed" => Safe(sender[p].event)'
    BY DEF SendersOK
  <2>1. CASE sender'[p] = sender[p]
    BY <2>1 DEF NotificationsInv, SendersOK
  <2>2. CASE sender'[p].pc = "idle"
    BY <2>2
  <2> QED BY <2>1, <2>2
<1>2. RowsSafe'
  BY DEF NotificationsInv, RowsSafe
<1> QED BY <1>1, <1>2 DEF NotificationsInv

LEMMA ConsumerTyped ==
  ASSUME NotificationsInv
  PROVE  /\ receiver \in [Processes -> ReceiverType]
         /\ scan \in ScanType
         /\ Free \in ScanType
         /\ Rest \in ReceiverType /\ Rest.pc = "idle"
         /\ queue \in [Message -> Nat]
         /\ failures \in [Events -> Nat]
         /\ Batch \subseteq Events
         /\ projected \subseteq Events /\ scan.seen \subseteq Events
<1>1. receiver \in [Processes -> ReceiverType] /\ scan \in ScanType
  BY DEF NotificationsInv, NotificationsTypeOK, ReceiverType, ScanType
<1>2. Free \in ScanType
  BY DEF Free, ScanType
<1>3. Rest \in ReceiverType /\ Rest.pc = "idle"
  BY DEF Rest, ReceiverType, ReceiverPC
<1>4. Batch \subseteq Events
  BY DEF Batch, Unseen, Committed
<1>5. scan.seen \subseteq Events
  BY <1>1 DEF ScanType
<1> QED BY <1>1, <1>2, <1>3, <1>4, <1>5 DEF NotificationsInv, NotificationsTypeOK

(* The message in hand.                                                    *)
LEMMA InHandOK ==
  ASSUME NotificationsInv, NEW p \in Processes, receiver[p].pc # "idle"
  PROVE  /\ receiver[p].msg \in Message
         /\ receiver[p].msg.event \in Events
         /\ failures[receiver[p].msg.event] >= receiver[p].msg.attempt
         /\ receiver[p].msg.attempt \in 0..(MaxAttempts - 1)
BY DEF NotificationsInv, ReceiversOK, ReceiverOK, Message

(* A consumer that goes on with its message, or hands it over.               *)
LEMMA GoesOn ==
  ASSUME NotificationsInv, NEW p \in Processes, NEW pc \in ReceiverPC, Moves(p, pc)
  PROVE  /\ receiver' \in [Processes -> ReceiverType]
         /\ receiver'[p].pc = pc /\ receiver'[p].msg = receiver[p].msg
         /\ \A q \in Processes \ {p} : receiver'[q] = receiver[q]
BY ConsumerTyped DEF Moves, ReceiverType

(* The other consumers are not disturbed.                                   *)
LEMMA OtherOK ==
  ASSUME NotificationsInv, NEW q \in Processes, receiver'[q] = receiver[q],
         \A e \in Events : Safe(e) => Safe(e)',
         \/ failures' = failures
         \/ failures' \in [Events -> Nat] /\ \A e \in Events : failures'[e] >= failures[e]
  PROVE  ReceiverOK(q)'
<1>1. CASE receiver[q].pc = "idle"
  BY <1>1 DEF ReceiverOK
<1>2. CASE receiver[q].pc # "idle"
  <2>1. PICK m \in Message : m = receiver[q].msg
    BY <1>2, InHandOK
  <2>2. m.event \in Events /\ m.attempt \in Nat
    BY NotificationsAssumption DEF Message
  <2>3. failures'[m.event] >= m.attempt
        /\ (receiver[q].pc = "failed" => failures'[m.event] >= m.attempt + 1)
    <3>1. failures'[m.event] \in Nat /\ failures[m.event] \in Nat
          /\ failures'[m.event] >= failures[m.event]
      BY <2>2, ConsumerTyped
    <3>2. failures[m.event] >= m.attempt
          /\ (receiver[q].pc = "failed" => failures[m.event] >= m.attempt + 1)
      BY <1>2, <2>1 DEF NotificationsInv, ReceiversOK, ReceiverOK
    <3> QED BY <2>2, <3>1, <3>2
  <2>4. receiver[q].pc = "moved" => Safe(m.event)
    BY <2>1 DEF NotificationsInv, ReceiversOK, ReceiverOK
  <2>5. receiver[q].pc = "moved" => Safe(m.event)'
    BY <2>2, <2>4
  <2> QED BY <2>1, <2>3, <2>5 DEF ReceiverOK
<1> QED BY <1>1, <1>2

LEMMA DeliverInv ==
  ASSUME NotificationsInv, NEW p \in Processes, NEW m \in Message, Deliver(p, m)
  PROVE  NotificationsInv'
<1>1. /\ receiver[p].pc = "idle" /\ queue[m] > 0
      /\ UNCHANGED <<row, sender, dead, scan, projected, handled, failures, faults>>
      /\ queue' = [queue EXCEPT ![m] = @ - 1]
      /\ receiver' = [receiver EXCEPT ![p] = [pc |-> "delivered", msg |-> m]]
  BY DEF Deliver
<1>2. /\ queue' \in [Message -> Nat]
      /\ \A n \in Message \ {m} : queue'[n] = queue[n]
  BY <1>1, ConsumerTyped
<1>3. /\ receiver' \in [Processes -> ReceiverType]
      /\ receiver'[p].pc = "delivered" /\ receiver'[p].msg = m
      /\ \A q \in Processes \ {p} : receiver'[q] = receiver[q]
  BY <1>1, ConsumerTyped DEF ReceiverType, ReceiverPC
<1>4. NotificationsTypeOK'
  BY <1>1, <1>2, <1>3 DEF NotificationsInv, NotificationsTypeOK, ReceiverType
<1>5. ASSUME NEW e \in Events, Safe(e) PROVE Safe(e)'
  <2>1. CASE Waiting(e)
    <3>1. PICK n \in Message : n.event = e /\ queue[n] > 0
      BY <2>1 DEF Waiting
    <3>2. CASE n = m
      <4>1. Carries(p, e)'
        BY <1>3, <3>1, <3>2 DEF Carries
      <4> QED BY <4>1 DEF Safe
    <3>3. CASE n # m
      <4>1. Waiting(e)'
        BY <1>2, <3>1, <3>3 DEF Waiting
      <4> QED BY <4>1 DEF Safe
    <3> QED BY <3>2, <3>3
  <2>2. ASSUME NEW q \in Processes, Carries(q, e) PROVE Safe(e)'
    <3>1. Carries(q, e)'
      BY <1>1, <1>3, <2>2 DEF Carries
    <3> QED BY <3>1 DEF Safe
  <2>3. CASE e \in handled \/ e \in dead
    BY <1>1, <2>3 DEF Safe
  <2> QED BY <1>5, <2>1, <2>2, <2>3 DEF Safe
<1>6. CountsOK'
  BY <1>1, <1>2 DEF NotificationsInv, CountsOK
<1>7. ReceiversOK'
  <2>1. ReceiverOK(p)'
    BY <1>1, <1>3 DEF NotificationsInv, CountsOK, ReceiverOK
  <2>2. ASSUME NEW q \in Processes \ {p} PROVE ReceiverOK(q)'
    <3>1. failures' = failures /\ receiver'[q] = receiver[q]
      BY <1>1, <1>3
    <3> QED BY <1>5, <3>1, OtherOK
  <2> QED BY <2>1, <2>2 DEF ReceiversOK
<1>8. OnlyExhaustedAreDead'
  BY <1>1 DEF NotificationsInv, OnlyExhaustedAreDead
<1> QED BY <1>1, <1>4, <1>5, <1>6, <1>7, <1>8, ConsumerInv

(* A consumer that keeps its message while the broker only gains messages.   *)
LEMMA KeepsMessage ==
  ASSUME NotificationsInv, NEW p \in Processes, receiver[p].pc \notin {"idle", "moved"},
         receiver'[p].msg = receiver[p].msg, receiver'[p].pc \notin {"idle", "moved"},
         \A q \in Processes \ {p} : receiver'[q] = receiver[q],
         \A m \in Message : queue[m] > 0 => queue'[m] > 0,
         UNCHANGED <<dead, handled>>
  PROVE  \A e \in Events : Safe(e) => Safe(e)'
<1> SUFFICES ASSUME NEW e \in Events, Safe(e) PROVE Safe(e)'
  OBVIOUS
<1>1. Waiting(e) => Waiting(e)'
  BY DEF Waiting
<1>2. \A q \in Processes : Carries(q, e) => Carries(q, e)'
  BY DEF Carries
<1> QED BY <1>1, <1>2 DEF Safe

LEMMA HandleInv ==
  ASSUME NotificationsInv, NEW p \in Processes, HandleBegin(p) \/ HandleEnd(p)
  PROVE  NotificationsInv'
<1>1. /\ receiver[p].pc \in {"delivered", "projecting"}
      /\ UNCHANGED <<row, sender, queue, dead, handled, failures, faults>>
  BY DEF HandleBegin, HandleEnd
<1>2. PICK pc \in {"projecting", "handled"} : Moves(p, pc)
  BY DEF HandleBegin, HandleEnd
<1>3. pc \in ReceiverPC
  BY DEF ReceiverPC
<1>4. /\ receiver' \in [Processes -> ReceiverType]
      /\ receiver'[p].pc = pc /\ receiver'[p].msg = receiver[p].msg
      /\ \A q \in Processes \ {p} : receiver'[q] = receiver[q]
  BY <1>2, <1>3, GoesOn
<1>5. scan' \in ScanType /\ projected' \subseteq Events
  <2>1. CASE HandleBegin(p)
    BY <2>1, ConsumerTyped DEF HandleBegin, Read, ScanType, Projectors
  <2>2. CASE HandleEnd(p)
    BY <2>2, ConsumerTyped DEF HandleEnd, Write
  <2> QED BY <2>1, <2>2
<1>6. NotificationsTypeOK'
  BY <1>1, <1>4, <1>5 DEF NotificationsInv, NotificationsTypeOK, ReceiverType, ScanType
<1>7. \A e \in Events : Safe(e) => Safe(e)'
  BY <1>1, <1>4, KeepsMessage
<1>8. ReceiversOK'
  <2>1. ReceiverOK(p)'
    BY <1>1, <1>4, InHandOK DEF ReceiverOK
  <2>2. ASSUME NEW q \in Processes \ {p} PROVE ReceiverOK(q)'
    BY <1>1, <1>4, <1>7, OtherOK
  <2> QED BY <2>1, <2>2 DEF ReceiversOK
<1>9. CountsOK' /\ OnlyExhaustedAreDead'
  BY <1>1 DEF NotificationsInv, CountsOK, OnlyExhaustedAreDead
<1> QED BY <1>1, <1>6, <1>7, <1>8, <1>9, ConsumerInv

LEMMA ReleaseOK ==
  ASSUME NotificationsInv, NEW p
  PROVE  Release(p) \in ScanType
BY ConsumerTyped DEF Release

LEMMA HandleFailsInv ==
  ASSUME NotificationsInv, NEW p \in Processes, HandleFails(p)
  PROVE  NotificationsInv'
<1>1. /\ receiver[p].pc \in {"delivered", "projecting"} /\ Moves(p, "failed") /\ Fault
      /\ UNCHANGED <<row, sender, queue, dead, projected, handled>>
      /\ scan' = Release(p)
  BY DEF HandleFails
<1>2. PICK m \in Message : m = receiver[p].msg
  BY <1>1, InHandOK
<1>3. m.event \in Events /\ m.attempt \in Nat /\ failures[m.event] >= m.attempt
  BY <1>1, <1>2, InHandOK, NotificationsAssumption DEF Message
<1>4. failures' = [failures EXCEPT ![m.event] = @ + 1]
  BY <1>2 DEF HandleFails
<1>5. /\ failures' \in [Events -> Nat]
      /\ \A e \in Events : failures'[e] >= failures[e]
      /\ failures'[m.event] = failures[m.event] + 1
  BY <1>3, <1>4, ConsumerTyped
<1>6. "failed" \in ReceiverPC
  BY DEF ReceiverPC
<1>7. /\ receiver' \in [Processes -> ReceiverType]
      /\ receiver'[p].pc = "failed" /\ receiver'[p].msg = m
      /\ \A q \in Processes \ {p} : receiver'[q] = receiver[q]
  BY <1>1, <1>2, <1>6, GoesOn
<1>8. NotificationsTypeOK'
  BY <1>1, <1>5, <1>7, ReleaseOK, Typed, FaultOK
     DEF NotificationsTypeOK, ReceiverType, ScanType
<1>9. \A e \in Events : Safe(e) => Safe(e)'
  BY <1>1, <1>2, <1>7, KeepsMessage
<1>10. ReceiversOK'
  <2>1. failures[m.event] \in Nat
    BY <1>3, ConsumerTyped
  <2>2. ReceiverOK(p)'
    BY <1>3, <1>5, <1>7, <2>1 DEF ReceiverOK
  <2>3. ASSUME NEW q \in Processes \ {p} PROVE ReceiverOK(q)'
    BY <1>5, <1>7, <1>9, OtherOK
  <2> QED BY <2>2, <2>3 DEF ReceiversOK
<1>11. CountsOK'
  <2> SUFFICES ASSUME NEW n \in Message, queue[n] > 0
               PROVE  failures'[n.event] >= n.attempt
    BY <1>1 DEF CountsOK
  <2>1. n.event \in Events /\ n.attempt \in Nat
    BY NotificationsAssumption DEF Message
  <2>2. failures[n.event] >= n.attempt /\ failures[n.event] \in Nat
    BY <2>1, ConsumerTyped DEF NotificationsInv, CountsOK
  <2> QED BY <1>5, <2>1, <2>2
<1>12. OnlyExhaustedAreDead'
  <2> SUFFICES ASSUME NEW e \in dead PROVE failures'[e] >= MaxAttempts
    BY <1>1 DEF OnlyExhaustedAreDead
  <2>1. e \in Events /\ failures[e] \in Nat
    BY ConsumerTyped DEF NotificationsInv, NotificationsTypeOK
  <2>2. failures[e] >= MaxAttempts
    BY DEF NotificationsInv, OnlyExhaustedAreDead
  <2> QED BY <1>5, <2>1, <2>2, NotificationsAssumption
<1> QED BY <1>1, <1>8, <1>9, <1>10, <1>11, <1>12, ConsumerInv

(* A consumer that gives up its message: its event must be safe otherwise.   *)
LEMMA GivesUp ==
  ASSUME NotificationsInv, NEW p \in Processes,
         \A q \in Processes \ {p} : receiver'[q] = receiver[q],
         \A m \in Message : queue[m] > 0 => queue'[m] > 0,
         dead \subseteq dead', handled \subseteq handled',
         \A e \in Events : Carries(p, e) => Waiting(e)' \/ e \in dead' \/ e \in handled'
  PROVE  \A e \in Events : Safe(e) => Safe(e)'
<1> SUFFICES ASSUME NEW e \in Events, Safe(e) PROVE Safe(e)'
  OBVIOUS
<1>1. Waiting(e) => Waiting(e)'
  BY DEF Waiting
<1>2. ASSUME NEW q \in Processes, Carries(q, e) PROVE Safe(e)'
  <2>1. CASE q = p
    BY <1>2, <2>1 DEF Safe
  <2>2. CASE q # p
    <3>1. Carries(q, e)'
      BY <1>2, <2>2 DEF Carries
    <3> QED BY <3>1 DEF Safe
  <2> QED BY <2>1, <2>2
<1> QED BY <1>1, <1>2 DEF Safe

LEMMA RestOK ==
  ASSUME NotificationsInv, NEW p \in Processes, receiver' = [receiver EXCEPT ![p] = Rest]
  PROVE  /\ receiver' \in [Processes -> ReceiverType]
         /\ receiver'[p].pc = "idle"
         /\ \A q \in Processes \ {p} : receiver'[q] = receiver[q]
BY ConsumerTyped

LEMMA RejectInv ==
  ASSUME NotificationsInv, NEW p \in Processes, Reject(p)
  PROVE  NotificationsInv'
<1>1. /\ receiver[p].pc = "failed" /\ Exhausted(p)
      /\ receiver' = [receiver EXCEPT ![p] = Rest]
      /\ UNCHANGED <<row, sender, queue, scan, projected, handled, failures, faults>>
  BY DEF Reject
<1>2. PICK m \in Message : m = receiver[p].msg
  BY <1>1, InHandOK
<1>3. m.event \in Events /\ m.attempt \in Nat /\ failures[m.event] >= m.attempt + 1
      /\ m.attempt + 1 >= MaxAttempts
  BY <1>1, <1>2, NotificationsAssumption
     DEF Message, Exhausted, NotificationsInv, ReceiversOK, ReceiverOK
<1>4. dead' = dead \cup {m.event}
  BY <1>2 DEF Reject
<1>5. /\ receiver' \in [Processes -> ReceiverType]
      /\ receiver'[p].pc = "idle"
      /\ \A q \in Processes \ {p} : receiver'[q] = receiver[q]
  BY <1>1, RestOK
<1>6. NotificationsTypeOK'
  BY <1>1, <1>3, <1>4, <1>5 DEF NotificationsInv, NotificationsTypeOK, ReceiverType
<1>7. \A e \in Events : Safe(e) => Safe(e)'
  <2>1. \A e \in Events : Carries(p, e) => e \in dead'
    BY <1>2, <1>4 DEF Carries
  <2> QED BY <1>1, <1>4, <1>5, <2>1, GivesUp
<1>8. ReceiversOK'
  <2>1. ReceiverOK(p)'
    BY <1>5 DEF ReceiverOK
  <2>2. ASSUME NEW q \in Processes \ {p} PROVE ReceiverOK(q)'
    BY <1>1, <1>5, <1>7, OtherOK
  <2> QED BY <2>1, <2>2 DEF ReceiversOK
<1>9. CountsOK'
  BY <1>1 DEF NotificationsInv, CountsOK
<1>10. OnlyExhaustedAreDead'
  <2>a. failures[m.event] \in Nat /\ m.attempt \in Nat
    BY <1>3 DEF NotificationsInv, NotificationsTypeOK
  <2>b. failures[m.event] >= m.attempt + 1 /\ m.attempt + 1 >= MaxAttempts
    BY <1>3
  <2>1. failures[m.event] >= MaxAttempts
    BY <2>a, <2>b, NotificationsAssumption
  <2> QED BY <1>1, <1>4, <2>1 DEF NotificationsInv, OnlyExhaustedAreDead
<1> QED BY <1>1, <1>6, <1>7, <1>8, <1>9, <1>10, ConsumerInv

LEMMA RepublishInv ==
  ASSUME NotificationsInv, NEW p \in Processes, Republish(p)
  PROVE  NotificationsInv'
<1>1. /\ receiver[p].pc = "failed" /\ ~ Exhausted(p) /\ Moves(p, "moved")
      /\ UNCHANGED <<row, sender, dead, scan, projected, handled, failures, faults>>
  BY DEF Republish
<1>2. PICK m \in Message : m = receiver[p].msg
  BY <1>1, InHandOK
<1>3. m.event \in Events /\ m.attempt \in 0..(MaxAttempts - 1)
      /\ failures[m.event] >= m.attempt + 1 /\ m.attempt + 1 < MaxAttempts
  <2>1. m.event \in Events /\ m.attempt \in 0..(MaxAttempts - 1)
    BY DEF Message
  <2>2. failures[m.event] >= m.attempt + 1
    BY <1>1, <1>2 DEF NotificationsInv, ReceiversOK, ReceiverOK
  <2>3. ~ (m.attempt + 1 >= MaxAttempts)
    BY <1>1, <1>2 DEF Exhausted
  <2> QED BY <2>1, <2>2, <2>3, NotificationsAssumption
<1>4. PICK n \in Message : /\ n = [m EXCEPT !.attempt = @ + 1]
                           /\ n.event = m.event /\ n.attempt = m.attempt + 1
  <2>1. m.attempt + 1 \in 0..(MaxAttempts - 1)
    BY <1>3, NotificationsAssumption
  <2>2. [m EXCEPT !.attempt = @ + 1] \in Message
    BY <2>1 DEF Message
  <2> QED BY <2>2 DEF Message
<1>5. queue' = Put(n)
  BY <1>2, <1>4 DEF Republish
<1>6. /\ queue' \in [Message -> Nat]
      /\ queue'[n] > 0
      /\ \A k \in Message : queue[k] > 0 => queue'[k] > 0
      /\ \A k \in Message \ {n} : queue'[k] = queue[k]
  BY <1>5, ConsumerTyped, PutOK
<1>7. "moved" \in ReceiverPC
  BY DEF ReceiverPC
<1>8. /\ receiver' \in [Processes -> ReceiverType]
      /\ receiver'[p].pc = "moved" /\ receiver'[p].msg = m
      /\ \A q \in Processes \ {p} : receiver'[q] = receiver[q]
  BY <1>1, <1>2, <1>7, GoesOn
<1>9. NotificationsTypeOK'
  BY <1>1, <1>6, <1>8 DEF NotificationsInv, NotificationsTypeOK, ReceiverType
<1>10. Waiting(m.event)'
  BY <1>4, <1>6 DEF Waiting
<1>11. \A e \in Events : Safe(e) => Safe(e)'
  <2>1. \A e \in Events : Carries(p, e) => Waiting(e)'
    BY <1>2, <1>10 DEF Carries
  <2> QED BY <1>1, <1>6, <1>8, <2>1, GivesUp
<1>12. ReceiversOK'
  <2>1. Safe(m.event)'
    BY <1>10 DEF Safe
  <2>2. failures[m.event] >= m.attempt
    BY <1>1, <1>2, InHandOK
  <2>3. ReceiverOK(p)'
    BY <1>1, <1>8, <2>1, <2>2 DEF ReceiverOK
  <2>4. ASSUME NEW q \in Processes \ {p} PROVE ReceiverOK(q)'
    BY <1>1, <1>8, <1>11, OtherOK
  <2> QED BY <2>3, <2>4 DEF ReceiversOK
<1>13. CountsOK'
  BY <1>1, <1>3, <1>4, <1>6 DEF NotificationsInv, CountsOK
<1>14. OnlyExhaustedAreDead'
  BY <1>1 DEF NotificationsInv, OnlyExhaustedAreDead
<1> QED BY <1>1, <1>9, <1>11, <1>12, <1>13, <1>14, ConsumerInv

LEMMA AckInv ==
  ASSUME NotificationsInv, NEW p \in Processes, Ack(p)
  PROVE  NotificationsInv'
<1>1. /\ receiver[p].pc \in {"handled", "moved"}
      /\ receiver' = [receiver EXCEPT ![p] = Rest]
      /\ UNCHANGED <<row, sender, queue, dead, scan, projected, failures, faults>>
  BY DEF Ack
<1>2. PICK m \in Message : m = receiver[p].msg
  BY <1>1, InHandOK
<1>3. m.event \in Events /\ handled' = IF receiver[p].pc = "handled"
                                       THEN handled \cup {m.event} ELSE handled
  BY <1>2 DEF Ack, Message
<1>4. /\ receiver' \in [Processes -> ReceiverType]
      /\ receiver'[p].pc = "idle"
      /\ \A q \in Processes \ {p} : receiver'[q] = receiver[q]
  BY <1>1, RestOK
<1>5. NotificationsTypeOK'
  BY <1>1, <1>3, <1>4 DEF NotificationsInv, NotificationsTypeOK, ReceiverType
<1>6. \A e \in Events : Safe(e) => Safe(e)'
  <2>1. \A e \in Events : Carries(p, e) => e \in handled'
    BY <1>1, <1>2, <1>3 DEF Carries
  <2> QED BY <1>1, <1>3, <1>4, <2>1, GivesUp
<1>7. ReceiversOK'
  <2>1. ReceiverOK(p)'
    BY <1>4 DEF ReceiverOK
  <2>2. ASSUME NEW q \in Processes \ {p} PROVE ReceiverOK(q)'
    BY <1>1, <1>4, <1>6, OtherOK
  <2> QED BY <2>1, <2>2 DEF ReceiversOK
<1>8. CountsOK' /\ OnlyExhaustedAreDead'
  BY <1>1 DEF NotificationsInv, CountsOK, OnlyExhaustedAreDead
<1> QED BY <1>1, <1>5, <1>6, <1>7, <1>8, ConsumerInv

LEMMA DropConnectionInv ==
  ASSUME NotificationsInv, NEW p \in Processes, Reconnect(p) \/ Disconnect(p)
  PROVE  NotificationsInv'
<1>1. /\ sender' = [sender EXCEPT ![p] = [pc |-> "idle", event |-> 0]]
      /\ receiver' = [receiver EXCEPT ![p] = Rest]
      /\ scan' = Release(p)
      /\ UNCHANGED <<row, dead, projected, handled, failures>>
      /\ Fault \/ UNCHANGED faults
  BY DEF Reconnect, Disconnect, DropConnection
<1>2. queue' = IF receiver[p].pc = "idle" THEN queue ELSE Put(receiver[p].msg)
  BY DEF Reconnect, Disconnect, DropConnection
<1>3. /\ receiver' \in [Processes -> ReceiverType]
      /\ receiver'[p].pc = "idle"
      /\ \A q \in Processes \ {p} : receiver'[q] = receiver[q]
  BY <1>1, RestOK
<1>4. /\ sender' \in [Processes -> SenderType]
      /\ sender'[p].pc = "idle"
      /\ \A q \in Processes \ {p} : sender'[q] = sender[q]
  BY <1>1, Typed DEF SenderType, SenderPC
<1>5. /\ queue' \in [Message -> Nat]
      /\ \A m \in Message : queue[m] > 0 => queue'[m] > 0
      /\ receiver[p].pc # "idle" => queue'[receiver[p].msg] > 0
      /\ \A m \in Message : queue'[m] = queue[m] \/ (receiver[p].pc # "idle" /\ m = receiver[p].msg)
  <2>1. CASE receiver[p].pc = "idle"
    BY <1>2, <2>1, ConsumerTyped
  <2>2. CASE receiver[p].pc # "idle"
    <3>1. PICK n \in Message : n = receiver[p].msg
      BY <2>2, InHandOK
    <3>2. queue' = Put(n) /\ queue \in [Message -> Nat]
      BY <1>2, <2>2, <3>1, ConsumerTyped
    <3>3. /\ queue' \in [Message -> Nat]
          /\ queue'[n] > 0
          /\ \A m \in Message : queue[m] > 0 => queue'[m] > 0
          /\ \A m \in Message \ {n} : queue'[m] = queue[m]
      BY <3>2, PutOK
    <3> QED BY <2>2, <3>1, <3>3
  <2> QED BY <2>1, <2>2
<1>6. NotificationsTypeOK'
  BY <1>1, <1>3, <1>4, <1>5, ReleaseOK, Typed, FaultOK
     DEF NotificationsTypeOK, ReceiverType, SenderType, ScanType
<1>7. \A e \in Events : Safe(e) => Safe(e)'
  <2>1. ASSUME NEW e \in Events, Carries(p, e) PROVE Waiting(e)'
    <3>1. PICK m \in Message : m = receiver[p].msg /\ m.event = e
      BY <2>1, InHandOK DEF Carries
    <3>2. queue'[m] > 0
      BY <1>5, <2>1, <3>1 DEF Carries
    <3> QED BY <3>1, <3>2 DEF Waiting
  <2> QED BY <1>1, <1>3, <1>5, <2>1, GivesUp
<1>8. ReceiversOK'
  <2>1. ReceiverOK(p)'
    BY <1>3 DEF ReceiverOK
  <2>2. ASSUME NEW q \in Processes \ {p} PROVE ReceiverOK(q)'
    BY <1>1, <1>3, <1>7, OtherOK
  <2> QED BY <2>1, <2>2 DEF ReceiversOK
<1>9. CountsOK'
  <2> SUFFICES ASSUME NEW m \in Message, queue'[m] > 0
               PROVE  failures[m.event] >= m.attempt
    BY <1>1 DEF CountsOK
  <2>1. CASE queue'[m] = queue[m]
    BY <2>1 DEF NotificationsInv, CountsOK
  <2>2. CASE receiver[p].pc # "idle" /\ m = receiver[p].msg
    BY <2>2, InHandOK
  <2> QED BY <1>5, <2>1, <2>2
<1>10. OnlyExhaustedAreDead'
  BY <1>1 DEF NotificationsInv, OnlyExhaustedAreDead
<1>11. \A q \in Processes : sender'[q] = sender[q] \/ sender'[q].pc = "idle"
  BY <1>4
<1> QED BY <1>1, <1>6, <1>7, <1>8, <1>9, <1>10, <1>11, ConsumerInv

-----------------------------------------------------------------------------
LEMMA NextNotifications ==
  ASSUME NotificationsInv, [Next]_vars
  PROVE  NotificationsInv'
<1>1. ASSUME NEW p \in Processes, ProcessStep(p) PROVE NotificationsInv'
  BY <1>1, ClaimInv, PublishInv, PublishedInv, RetryInv, DeliverInv, HandleInv,
     HandleFailsInv, RejectInv, RepublishInv, AckInv, DropConnectionInv DEF ProcessStep
<1>2. CASE UNCHANGED vars
  BY <1>2 DEF vars, NotificationsInv, NotificationsTypeOK, SendersOK, ReceiversOK, ReceiverOK,
              CountsOK, RowsSafe, OnlyExhaustedAreDead, Safe, Waiting, Carries
<1> QED BY <1>1, <1>2, RowsInv, ScanInv DEF Next

(* However many dispatchers and consumers there are, whatever times out,     *)
(* expires, fails or is restarted: a notification that the outbox marks      *)
(* published is never lost, and one is dead-lettered only after its handler  *)
(* failed MAX_HANDLER_ATTEMPTS times.                                       *)
THEOREM AtLeastOnce ==
  Spec => [](NotificationsTypeOK /\ NoNotificationLost /\ OnlyExhaustedAreDead)
<1>1. Init => NotificationsInv
  BY InitNotifications
<1>2. NotificationsInv /\ [Next]_vars => NotificationsInv'
  BY NextNotifications
<1>3. NotificationsInv => NotificationsTypeOK /\ NoNotificationLost /\ OnlyExhaustedAreDead
  <2> SUFFICES ASSUME NotificationsInv,
                      NEW e \in Events, row[e].state \in {"published", "pruned"}
               PROVE  Waiting(e) \/ InHand(e) \/ e \in handled \/ e \in dead
    BY DEF NotificationsInv, NoNotificationLost
  <2>1. Safe(e)
    BY DEF NotificationsInv, RowsSafe
  <2>2. \A p \in Processes : Carries(p, e) => InHand(e)
    BY DEF Carries, InHand
  <2> QED BY <2>1, <2>2 DEF Safe
<1> QED BY <1>1, <1>2, <1>3, PTL DEF Spec
=============================================================================
