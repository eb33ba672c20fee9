------------------------------- MODULE Replies -------------------------------
(***************************************************************************)
(* The Coordinator's reply outbox: how the message of an applied action is  *)
(* posted to a conversation that the program does not control               *)
(* (coordinator/application/actions.py, the delivery half of                *)
(* coordinator/infrastructure/actions.py, the echo branch of inbox.py and   *)
(* reconcile() of platform/integrations/infrastructure/conversations.py).   *)
(*                                                                         *)
(* A post may be lost, may succeed without an answer, and comes back as a   *)
(* webhook before or after its answer.  Every action but the post and the   *)
(* read of the provider's history is one transaction.                       *)
(***************************************************************************)
EXTENDS Naturals, FiniteSets

CONSTANTS
  MaxActions,  (* bound: CoordinatorActions that have something to deliver  *)
  Texts,       (* message bodies; two actions may say the same              *)
  Workers,     (* effect loops of the controller replicas                   *)
  NoText

ASSUME RepliesAssumption ==
  /\ MaxActions \in Nat \ {0}
  /\ NoText \notin Texts

VARIABLES
  action,  (* CoordinatorAction rows, numbered in the order of created_at   *)
  posts,   (* how many times each action's message stands in the provider   *)
  heard,   (* delivery keys of the echoes recorded in coordinator_events    *)
  worker   (* what an effect loop holds between two transactions            *)

vars == <<action, posts, heard, worker>>

Actions  == 1..MaxActions
Kinds    == {"REPLY", "REQUEST_REVIEW"}
Unsettled == {"DELIVERY_PENDING", "SENDING", "RECONCILING"}
Status   == {"NONE", "REJECTED", "UNKNOWN", "EXECUTED"} \cup Unsettled

(* provider_effect_ref: the n-th message that action by caused to be posted. *)
Message  == [by : Actions, no : Nat \ {0}]
NoRef    == [by |-> 0, no |-> 0]
Ref      == Message \cup {NoRef}

Row       == [status : Status, kind : Kinds, text : Texts \cup {NoText}, ref : Ref,
              check : BOOLEAN]
WorkerPC  == {"idle", "sending", "sent", "failed", "checking", "checked"}
WorkerRow == [pc : WorkerPC, action : Actions \cup {0}, ref : Ref]

Idle == [pc |-> "idle", action |-> 0, ref |-> NoRef]

Init ==
  /\ action = [a \in Actions |-> [status |-> "NONE", kind |-> "REPLY", text |-> NoText,
                                  ref |-> NoRef, check |-> FALSE]]
  /\ posts = [a \in Actions |-> 0]
  /\ heard = {}
  /\ worker = [w \in Workers |-> Idle]

Conversation == UNION {{[by |-> a, no |-> n] : n \in 1..posts[a]} : a \in Actions}
Saying(t)   == {m \in Conversation : action[m.by].text = t}
Oldest(a, S) == a \in S /\ \A b \in S : a <= b
Newest(a, S) == a \in S /\ \A b \in S : b <= a
With(s)     == {a \in Actions : action[a].status = s}

-----------------------------------------------------------------------------
(* _record_effect(): an applied decision leaves a message to deliver.       *)
Record(a, kind, t) ==
  /\ Oldest(a, With("NONE"))
  /\ action' = [action EXCEPT ![a].status = "DELIVERY_PENDING", ![a].kind = kind,
                              ![a].text = t]
  /\ UNCHANGED <<posts, heard, worker>>

(* claim_delivery(): the claim is durable before anything is sent.          *)
ClaimDelivery(w, a) ==
  /\ worker[w].pc = "idle"
  /\ Oldest(a, With("DELIVERY_PENDING"))
  /\ action' = [action EXCEPT ![a].status = "SENDING"]
  /\ worker' = [worker EXCEPT ![w] = [pc |-> "sending", action |-> a, ref |-> NoRef]]
  /\ UNCHANGED <<posts, heard>>

(* claim_delivery() when the task changed, its Team is suspended, the mode  *)
(* was switched off or the author lost authority since the decision.        *)
RefuseDelivery(a) ==
  /\ Oldest(a, With("DELIVERY_PENDING"))
  /\ action' = [action EXCEPT ![a].status = "REJECTED"]
  /\ UNCHANGED <<posts, heard, worker>>

(* The provider accepts the message and answers with its id.                *)
Post(w) ==
  /\ worker[w].pc = "sending"
  /\ LET a == worker[w].action
     IN  /\ posts' = [posts EXCEPT ![a] = @ + 1]
         /\ worker' = [worker EXCEPT ![w].pc = "sent",
                                     ![w].ref = [by |-> a, no |-> posts[a] + 1]]
  /\ UNCHANGED <<action, heard>>

(* deliver_one() catches an error or its timeout: the message may stand in   *)
(* the conversation all the same.                                           *)
PostUnconfirmed(w) ==
  /\ worker[w].pc = "sending"
  /\ \E arrived \in {0, 1} :
       posts' = [posts EXCEPT ![worker[w].action] = @ + arrived]
  /\ worker' = [worker EXCEPT ![w].pc = "failed"]
  /\ UNCHANGED <<action, heard>>

Free(w) == worker' = [worker EXCEPT ![w] = Idle]

CompleteDelivery(w) ==
  /\ worker[w].pc = "sent"
  /\ action' = [action EXCEPT ![worker[w].action].status = "EXECUTED",
                              ![worker[w].action].ref = worker[w].ref]
  /\ Free(w)
  /\ UNCHANGED <<posts, heard>>

(* fail_delivery(): uncertain, unless an echo arrived first.                *)
FailDelivery(w) ==
  LET a == worker[w].action
  IN  /\ worker[w].pc = "failed"
      /\ action' = IF action[a].status = "EXECUTED" THEN action
                   ELSE [action EXCEPT ![a].status = "UNKNOWN",
                                       ![a].check = action[a].kind # "REQUEST_REVIEW"]
      /\ Free(w)
      /\ UNCHANGED <<posts, heard>>

(* The process exits, is cancelled, or cannot store the outcome.            *)
Abandon(w) ==
  /\ worker[w].pc # "idle"
  /\ Free(w)
  /\ UNCHANGED <<action, posts, heard>>

-----------------------------------------------------------------------------
(* Mutant: recovery puts an interrupted delivery back in the queue.          *)
RecoverToQueue(a) ==
  /\ action[a].status \in {"SENDING", "RECONCILING"}
  /\ action' = [action EXCEPT ![a].status =
                  IF action[a].status = "SENDING" THEN "DELIVERY_PENDING" ELSE "UNKNOWN"]
  /\ UNCHANGED <<posts, heard, worker>>

(* Mutant: recovery looks after interrupted checks only.                      *)
RecoverChecks(a) ==
  /\ action[a].status = "RECONCILING"
  /\ action' = [action EXCEPT ![a].status = "UNKNOWN"]
  /\ UNCHANGED <<posts, heard, worker>>

(* recover(), for each row whose two minutes have passed; nothing stops them *)
(* from passing while a suspended process still means to send.               *)
Recover(a) ==
  /\ action[a].status \in {"SENDING", "RECONCILING"}
  /\ action' = [action EXCEPT
                  ![a].status = "UNKNOWN",
                  ![a].check = IF action[a].status = "SENDING"
                               THEN action[a].kind # "REQUEST_REVIEW" ELSE @]
  /\ UNCHANGED <<posts, heard, worker>>

(* CoordinationAdministration.reconcile(): the operator asks for a check.    *)
RequestCheck(a) ==
  /\ action[a].status = "UNKNOWN"
  /\ action[a].kind # "REQUEST_REVIEW"
  /\ ~ action[a].check
  /\ action' = [action EXCEPT ![a].check = TRUE]
  /\ UNCHANGED <<posts, heard, worker>>

Checkable == {a \in With("UNKNOWN") : action[a].check}

ClaimReconciliation(w, a) ==
  /\ worker[w].pc = "idle"
  /\ Oldest(a, Checkable)
  /\ action' = [action EXCEPT ![a].status = "RECONCILING", ![a].check = FALSE]
  /\ worker' = [worker EXCEPT ![w] = [pc |-> "checking", action |-> a, ref |-> NoRef]]
  /\ UNCHANGED <<posts, heard>>

(* Exactly one match identifies the message; several stay uncertain.         *)
UniqueReference(a, seen) ==
  IF Cardinality(seen) = 1 THEN CHOOSE m \in seen : TRUE ELSE NoRef

(* reconcile(): of our messages with this text, those the bounded excerpt    *)
(* shows within five minutes of the attempt; the read itself may fail.        *)
ReadHistory(w) ==
  /\ worker[w].pc = "checking"
  /\ \E seen \in SUBSET Saying(action[worker[w].action].text) :
       worker' = [worker EXCEPT ![w].pc = "checked",
                                ![w].ref = UniqueReference(worker[w].action, seen)]
  /\ UNCHANGED <<action, posts, heard>>

CompleteReconciliation(w) ==
  LET a == worker[w].action
  IN  /\ worker[w].pc = "checked"
      /\ action' = IF action[a].status = "EXECUTED" THEN action
                   ELSE [action EXCEPT ![a].status = IF worker[w].ref = NoRef
                                                     THEN "UNKNOWN" ELSE "EXECUTED",
                                       ![a].ref = worker[w].ref]
      /\ Free(w)
      /\ UNCHANGED <<posts, heard>>

(* enqueue() for a webhook by our own identity: dropped when its key or its  *)
(* reference is known, else it confirms the newest action with that text.    *)
Confirmable(t) == {a \in Actions : /\ action[a].text = t
                                   /\ action[a].status \in {"SENDING", "UNKNOWN",
                                                            "RECONCILING", "EXECUTED"}}

Echo(m, a) ==
  /\ action[m.by].kind = "REPLY"
  /\ m \notin heard
  /\ \A b \in Actions : action[b].ref # m
  /\ Newest(a, Confirmable(action[m.by].text))
  /\ action' = [action EXCEPT ![a].status = "EXECUTED", ![a].ref = m]
  /\ heard' = heard \cup {m}
  /\ UNCHANGED <<posts, worker>>

-----------------------------------------------------------------------------
Deliver(w) == \/ Post(w) \/ PostUnconfirmed(w) \/ CompleteDelivery(w) \/ FailDelivery(w)
              \/ ReadHistory(w) \/ CompleteReconciliation(w)

Next ==
  \/ \E a \in Actions :
       \/ \E kind \in Kinds : \E t \in Texts : Record(a, kind, t)
       \/ RefuseDelivery(a) \/ Recover(a) \/ RequestCheck(a)
       \/ \E w \in Workers : ClaimDelivery(w, a) \/ ClaimReconciliation(w, a)
       \/ \E m \in Conversation : Echo(m, a)
  \/ \E w \in Workers : Deliver(w) \/ Abandon(w)

Spec == Init /\ [][Next]_vars

(* An effect loop carries on with what it holds and calls deliver_one() and   *)
(* reconcile_one() in every iteration, so neither claim is put off for ever;   *)
(* recover() runs every thirty seconds.                                       *)
ReplyFairness ==
  /\ \A w \in Workers : WF_vars(Deliver(w))
  /\ SF_vars(\E w \in Workers, a \in Actions : ClaimDelivery(w, a))
  /\ SF_vars(\E w \in Workers, a \in Actions : ClaimReconciliation(w, a))
  /\ \A a \in Actions : WF_vars(Recover(a))
FairSpec == Spec /\ ReplyFairness

-----------------------------------------------------------------------------
(* The type of every variable.                                             *)
RepliesTypeOK ==
  /\ action \in [Actions -> Row]
  /\ posts \in [Actions -> Nat]
  /\ heard \subseteq Message
  /\ worker \in [Workers -> WorkerRow]

(* "An uncertain send becomes UNKNOWN, not an automatic resend": whatever     *)
(* times out, crashes, recovers or is checked again, the people in the         *)
(* conversation read the message of an action at most once, and never that of  *)
(* a rejected one.                                                            *)
NeverResent ==
  \A a \in Actions : /\ posts[a] <= 1
                     /\ action[a].status = "REJECTED" => posts[a] = 0

(* A delivery reported as EXECUTED points to a message that stands in the     *)
(* conversation and says what the action was to say, although the evidence     *)
(* may come from an answer, a bounded history or a webhook.                   *)
ConfirmedIsReal ==
  \A a \in Actions : action[a].status = "EXECUTED" =>
    action[a].ref \in Saying(action[a].text)

(* No action stays pending, sending or reconciling: its fate is decided or     *)
(* reported as unknown, crashes of the sender included.                       *)
EveryReplySettles ==
  \A a \in Actions : action[a].status \in Unsettled ~> action[a].status \notin Unsettled
=============================================================================
