--------------------------- MODULE OperatorProofs ---------------------------
(***************************************************************************)
(* What operators are told: replies to their messages (Replies), answers   *)
(* to their questions (Observer) and notices of pressure (Attention). Each *)
(* part is proved for itself; the three components share no variable.      *)
(***************************************************************************)
EXTENDS Replies, Observer, Attention, TLAPS, FiniteSetTheorems

-----------------------------------------------------------------------------
(***************************************************************************)
(* Replies. For any number of actions, texts and effect loops: a message   *)
(* is posted at most once, and what is reported as delivered stands in the *)
(* conversation. NeverResent is not inductive alone: a loop that is about  *)
(* to post must know that nobody posted its action before and that nobody  *)
(* else is about to.                                                       *)
(***************************************************************************)
Early == {"NONE", "DELIVERY_PENDING", "REJECTED"}

(* Nothing was posted for an action that no loop has claimed.               *)
UnclaimedUnposted ==
  \A a \in Actions : posts[a] <= 1 /\ (action[a].status \in Early => posts[a] = 0)

(* A busy loop holds a claimed action; only one loop may still post it.      *)
HeldOK(w) ==
  worker[w].pc # "idle" =>
    /\ worker[w].action \in Actions
    /\ action[worker[w].action].status \notin Early
    /\ worker[w].pc = "sending" => posts[worker[w].action] = 0
    /\ worker[w].pc = "sent" => worker[w].ref \in Saying(action[worker[w].action].text)
    /\ worker[w].pc = "checked" =>
         worker[w].ref \in Saying(action[worker[w].action].text) \cup {NoRef}

OneSender ==
  \A w, v \in Workers :
    /\ worker[w].pc = "sending" /\ worker[v].pc = "sending"
    /\ worker[w].action = worker[v].action
    => w = v

RepliesInv ==
  /\ RepliesTypeOK
  /\ UnclaimedUnposted
  /\ \A w \in Workers : HeldOK(w)
  /\ OneSender
  /\ ConfirmedIsReal

-----------------------------------------------------------------------------
(* What Saying contains.                                                    *)
LEMMA InConversation ==
  ASSUME RepliesTypeOK, NEW t, NEW m
  PROVE  m \in Saying(t) <=> \E a \in Actions : \E n \in 1..posts[a] :
                               m = [by |-> a, no |-> n] /\ action[a].text = t
<1>1. m \in Conversation <=> \E a \in Actions : \E n \in 1..posts[a] :
                               m = [by |-> a, no |-> n]
  BY DEF Conversation
<1>2. ASSUME NEW a \in Actions, NEW n \in 1..posts[a], m = [by |-> a, no |-> n]
      PROVE  m.by = a
  BY <1>2
<1> QED BY <1>1, <1>2 DEF Saying

(* A message that stands in the conversation identifies a Message.          *)
LEMMA SayingIsMessage ==
  ASSUME RepliesTypeOK, NEW t
  PROVE  Saying(t) \subseteq Message
<1> SUFFICES ASSUME NEW m \in Saying(t) PROVE m \in Message
  OBVIOUS
<1>1. PICK a \in Actions : \E n \in 1..posts[a] : m = [by |-> a, no |-> n]
  BY InConversation
<1>2. posts[a] \in Nat
  BY DEF RepliesTypeOK
<1> QED BY <1>1, <1>2 DEF Message

LEMMA NoRefIsNoMessage == NoRef \notin Message
BY DEF NoRef, Message, Actions

(* Messages are never withdrawn, an action's text is fixed once it is         *)
(* recorded, and a claimed action stays claimed.                             *)
Grows ==
  /\ \A a \in Actions : posts'[a] >= posts[a]
  /\ \A a \in Actions : action[a].status # "NONE" => action'[a].text = action[a].text
  /\ \A a \in Actions : action[a].status \notin Early => action'[a].status \notin Early

LEMMA InConversationNext ==
  ASSUME NEW t, NEW m
  PROVE  m \in Saying(t)' <=> \E a \in Actions : \E n \in 1..posts'[a] :
                                m = [by |-> a, no |-> n] /\ action'[a].text = t'
<1>1. m \in Conversation' <=> \E a \in Actions : \E n \in 1..posts'[a] :
                                m = [by |-> a, no |-> n]
  BY DEF Conversation
<1>2. ASSUME NEW a \in Actions, NEW n \in 1..posts'[a], m = [by |-> a, no |-> n]
      PROVE  m.by = a
  BY <1>2
<1> QED BY <1>1, <1>2 DEF Saying

LEMMA ConversationGrows ==
  ASSUME RepliesTypeOK, RepliesTypeOK', UnclaimedUnposted, Grows,
         NEW CONSTANT t, NEW m \in Saying(t)
  PROVE  m \in Saying(t)'
<1>1. PICK a \in Actions : \E n \in 1..posts[a] :
                             m = [by |-> a, no |-> n] /\ action[a].text = t
  BY InConversation
<1>2. PICK n \in 1..posts[a] : m = [by |-> a, no |-> n] /\ action[a].text = t
  BY <1>1
<1>3. posts[a] \in Nat /\ posts'[a] \in Nat
  BY DEF RepliesTypeOK
<1>4. action[a].status # "NONE"
  BY <1>2, <1>3 DEF UnclaimedUnposted, Early
<1>5. n \in 1..posts'[a] /\ action'[a].text = t
  BY <1>2, <1>3, <1>4 DEF Grows
<1> QED BY <1>2, <1>5, InConversationNext

-----------------------------------------------------------------------------
(* What a step of somebody else leaves true of a loop.                       *)
LEMMA OtherHeld ==
  ASSUME RepliesInv, RepliesTypeOK', Grows, NEW w \in Workers, worker'[w] = worker[w],
         worker[w].pc = "sending" => posts'[worker[w].action] = posts[worker[w].action]
  PROVE  HeldOK(w)'
<1> SUFFICES ASSUME worker[w].pc # "idle" PROVE HeldOK(w)'
  BY DEF HeldOK
<1>1. PICK a \in Actions : a = worker[w].action
  BY DEF RepliesInv, HeldOK
<1>2. action[a].status \notin Early /\ action'[a].status \notin Early
  BY <1>1 DEF RepliesInv, HeldOK, Grows
<1>3. PICK t : t = action[a].text
  OBVIOUS
<1>4. action'[a].text = t
  BY <1>2, <1>3 DEF Grows, Early
<1>5. worker[w].pc = "sending" => posts'[a] = 0
  BY <1>1 DEF RepliesInv, HeldOK
<1>6. worker[w].pc = "sent" => worker[w].ref \in Saying(t)'
  BY <1>1, <1>3, ConversationGrows DEF RepliesInv, HeldOK
<1>7. worker[w].pc = "checked" => worker[w].ref \in Saying(t)' \cup {NoRef}
  BY <1>1, <1>3, ConversationGrows DEF RepliesInv, HeldOK
<1>8. Saying(action[a].text)' = Saying(t)'
  BY <1>4 DEF Saying
<1> QED BY <1>1, <1>2, <1>5, <1>6, <1>7, <1>8, <1>4 DEF HeldOK

(* ... and of a confirmed row that keeps its reference.                        *)
LEMMA StillReal ==
  ASSUME RepliesInv, RepliesTypeOK', Grows, NEW a \in Actions,
         action[a].status = "EXECUTED", action'[a].ref = action[a].ref
  PROVE  action'[a].ref \in Saying(action[a].text)' /\ action'[a].text = action[a].text
<1>1. PICK t : t = action[a].text
  OBVIOUS
<1>2. action[a].ref \in Saying(t)
  BY <1>1 DEF RepliesInv, ConfirmedIsReal
<1>3. action'[a].text = t
  BY <1>1 DEF Grows
<1>4. action[a].ref \in Saying(t)'
  BY <1>2, ConversationGrows DEF RepliesInv
<1> QED BY <1>1, <1>3, <1>4

-----------------------------------------------------------------------------
(* A transaction that rewrites one row and posts nothing.                     *)
LEMMA RowStep ==
  ASSUME RepliesInv, RepliesTypeOK', UNCHANGED posts,
         NEW a \in Actions, NEW CONSTANT row \in Row, action' = [action EXCEPT ![a] = row],
         action[a].status # "NONE" => row.text = action[a].text,
         action[a].status \notin Early => row.status \notin Early,
         row.status \in Early => action[a].status \in Early,
         row.status = "EXECUTED" => row.ref \in Saying(row.text)
  PROVE  Grows /\ UnclaimedUnposted' /\ ConfirmedIsReal'
<1>1. action'[a] = row /\ \A b \in Actions \ {a} : action'[b] = action[b]
  BY DEF RepliesInv, RepliesTypeOK
<1>2. \A b \in Actions : posts[b] \in Nat /\ posts'[b] = posts[b]
  BY DEF RepliesInv, RepliesTypeOK
<1>3. Grows
  <2>1. \A b \in Actions : posts'[b] >= posts[b]
    BY <1>2
  <2>2. \A b \in Actions : action[b].status # "NONE" => action'[b].text = action[b].text
    BY <1>1
  <2>3. \A b \in Actions : action[b].status \notin Early => action'[b].status \notin Early
    BY <1>1
  <2> QED BY <2>1, <2>2, <2>3 DEF Grows
<1>4. UnclaimedUnposted'
  BY <1>1, <1>2 DEF RepliesInv, UnclaimedUnposted
<1>5. ConfirmedIsReal'
  <2> SUFFICES ASSUME NEW b \in Actions, action'[b].status = "EXECUTED"
               PROVE  action'[b].ref \in Saying(action[b].text)'
    BY DEF ConfirmedIsReal
  <2>1. CASE b = a
    <3>1. PICK t : t = row.text
      OBVIOUS
    <3>2. row.ref \in Saying(t)'
      BY <1>1, <1>3, <2>1, <3>1, ConversationGrows DEF RepliesInv
    <3>3. Saying(action[b].text)' = Saying(t)'
      BY <1>1, <2>1, <3>1 DEF Saying
    <3> QED BY <1>1, <2>1, <3>2, <3>3
  <2>2. CASE b # a
    BY <1>1, <1>3, <2>2, StillReal
  <2> QED BY <2>1, <2>2
<1> QED BY <1>3, <1>4, <1>5

(* A row step that no loop takes part in.                                    *)
LEMMA RowOnly ==
  ASSUME RepliesInv, RepliesTypeOK', UNCHANGED <<posts, worker>>,
         Grows, UnclaimedUnposted', ConfirmedIsReal'
  PROVE  RepliesInv'
<1>1. \A w \in Workers : HeldOK(w)'
  BY OtherHeld
<1>2. OneSender'
  BY DEF RepliesInv, OneSender
<1> QED BY <1>1, <1>2 DEF RepliesInv

(* A loop that ends a delivery or a check.                                    *)
LEMMA FreeStep ==
  ASSUME RepliesInv, RepliesTypeOK', UNCHANGED posts, NEW w \in Workers, Free(w),
         Grows, UnclaimedUnposted', ConfirmedIsReal'
  PROVE  RepliesInv'
<1>1. worker'[w] = Idle /\ \A v \in Workers \ {w} : worker'[v] = worker[v]
  BY DEF RepliesInv, RepliesTypeOK, Free
<1>2. ASSUME NEW v \in Workers PROVE HeldOK(v)'
  <2>1. CASE v = w
    BY <1>1, <2>1 DEF HeldOK, Idle
  <2>2. CASE v # w
    BY <1>1, <2>2, OtherHeld
  <2> QED BY <2>1, <2>2
<1>3. OneSender'
  BY <1>1 DEF RepliesInv, OneSender, Idle
<1> QED BY <1>2, <1>3 DEF RepliesInv

LEMMA FreeType ==
  ASSUME RepliesTypeOK, NEW w \in Workers, Free(w)
  PROVE  worker' \in [Workers -> WorkerRow]
BY DEF RepliesTypeOK, Free, Idle, WorkerRow, WorkerPC, Ref

(* Rows of the type, whichever fields a transaction writes.                   *)
LEMMA RowType ==
  ASSUME RepliesTypeOK, NEW a \in Actions
  PROVE  /\ action[a] \in Row
         /\ \A s \in Status : [action[a] EXCEPT !.status = s] \in Row
         /\ \A s \in Status : \A b \in BOOLEAN :
              [action[a] EXCEPT !.status = s, !.check = b] \in Row
         /\ \A s \in Status : \A r \in Ref :
              [action[a] EXCEPT !.status = s, !.ref = r] \in Row
BY DEF RepliesTypeOK, Row

-----------------------------------------------------------------------------
LEMMA RecordInv ==
  ASSUME RepliesInv, NEW a \in Actions, NEW k \in Kinds, NEW t \in Texts,
         Record(a, k, t)
  PROVE  RepliesInv'
<1>1. action[a].status = "NONE" /\ UNCHANGED <<posts, heard, worker>>
  BY DEF Record, Oldest, With
<1>2. PICK row : row = [action[a] EXCEPT !.status = "DELIVERY_PENDING", !.kind = k, !.text = t]
  OBVIOUS
<1>3. action' = [action EXCEPT ![a] = row]
  BY <1>2 DEF Record
<1>4. row \in Row /\ row.status = "DELIVERY_PENDING"
  BY <1>2 DEF RepliesInv, RepliesTypeOK, Row, Status, Unsettled
<1>5. RepliesTypeOK'
  BY <1>1, <1>3, <1>4 DEF RepliesInv, RepliesTypeOK
<1>6. Grows /\ UnclaimedUnposted' /\ ConfirmedIsReal'
  BY <1>1, <1>3, <1>4, <1>5, RowStep DEF Early
<1> QED BY <1>1, <1>5, <1>6, RowOnly

LEMMA RefuseInv ==
  ASSUME RepliesInv, NEW a \in Actions, RefuseDelivery(a)
  PROVE  RepliesInv'
<1>1. action[a].status = "DELIVERY_PENDING" /\ UNCHANGED <<posts, heard, worker>>
  BY DEF RefuseDelivery, Oldest, With
<1>2. PICK row : row = [action[a] EXCEPT !.status = "REJECTED"]
  OBVIOUS
<1>3. action' = [action EXCEPT ![a] = row]
  BY <1>2 DEF RefuseDelivery
<1>4. row \in Row /\ row.status = "REJECTED" /\ row.text = action[a].text
  BY <1>2, RowType DEF RepliesInv, RepliesTypeOK, Row, Status, Unsettled
<1>5. RepliesTypeOK'
  BY <1>1, <1>3, <1>4 DEF RepliesInv, RepliesTypeOK
<1>6. Grows /\ UnclaimedUnposted' /\ ConfirmedIsReal'
  BY <1>1, <1>3, <1>4, <1>5, RowStep DEF Early
<1> QED BY <1>1, <1>5, <1>6, RowOnly

LEMMA RecoverInv ==
  ASSUME RepliesInv, NEW a \in Actions, Recover(a)
  PROVE  RepliesInv'
<1>1. /\ action[a].status \in {"SENDING", "RECONCILING"}
      /\ UNCHANGED <<posts, heard, worker>>
  BY DEF Recover
<1>2. PICK check \in BOOLEAN :
        check = IF action[a].status = "SENDING" THEN action[a].kind # "REQUEST_REVIEW"
                ELSE action[a].check
  BY DEF RepliesInv, RepliesTypeOK, Row
<1>3. PICK row : row = [action[a] EXCEPT !.status = "UNKNOWN", !.check = check]
  OBVIOUS
<1>4. action' = [action EXCEPT ![a] = row]
  BY <1>2, <1>3 DEF Recover
<1>5. row \in Row /\ row.status = "UNKNOWN" /\ row.text = action[a].text
  BY <1>3, RowType DEF RepliesInv, RepliesTypeOK, Row, Status
<1>6. RepliesTypeOK'
  BY <1>1, <1>4, <1>5 DEF RepliesInv, RepliesTypeOK
<1>7. Grows /\ UnclaimedUnposted' /\ ConfirmedIsReal'
  BY <1>1, <1>4, <1>5, <1>6, RowStep DEF Early
<1> QED BY <1>1, <1>6, <1>7, RowOnly

LEMMA RequestCheckInv ==
  ASSUME RepliesInv, NEW a \in Actions, RequestCheck(a)
  PROVE  RepliesInv'
<1>1. action[a].status = "UNKNOWN" /\ UNCHANGED <<posts, heard, worker>>
  BY DEF RequestCheck
<1>2. PICK row : row = [action[a] EXCEPT !.check = TRUE]
  OBVIOUS
<1>3. action' = [action EXCEPT ![a] = row]
  BY <1>2 DEF RequestCheck
<1>4. row \in Row /\ row.status = "UNKNOWN" /\ row.text = action[a].text
  BY <1>1, <1>2 DEF RepliesInv, RepliesTypeOK, Row
<1>5. RepliesTypeOK'
  BY <1>1, <1>3, <1>4 DEF RepliesInv, RepliesTypeOK
<1>6. Grows /\ UnclaimedUnposted' /\ ConfirmedIsReal'
  BY <1>1, <1>3, <1>4, <1>5, RowStep DEF Early
<1> QED BY <1>1, <1>5, <1>6, RowOnly

LEMMA EchoInv ==
  ASSUME RepliesInv, NEW a \in Actions, NEW m \in Conversation, Echo(m, a)
  PROVE  RepliesInv'
<1>1. /\ action[a].status \in {"SENDING", "UNKNOWN", "RECONCILING", "EXECUTED"}
      /\ action[a].text = action[m.by].text
      /\ heard' = heard \cup {m}
      /\ UNCHANGED <<posts, worker>>
  BY DEF Echo, Newest, Confirmable
<1>2. m \in Saying(action[a].text)
  BY <1>1 DEF Saying
<1>3. m \in Message
  BY <1>2, SayingIsMessage DEF RepliesInv
<1>4. PICK row : row = [action[a] EXCEPT !.status = "EXECUTED", !.ref = m]
  OBVIOUS
<1>5. action' = [action EXCEPT ![a] = row]
  BY <1>4 DEF Echo
<1>6. row \in Row /\ row.status = "EXECUTED" /\ row.text = action[a].text /\ row.ref = m
  BY <1>3, <1>4, RowType DEF RepliesInv, RepliesTypeOK, Row, Status, Ref
<1>7. RepliesTypeOK'
  BY <1>1, <1>3, <1>5, <1>6 DEF RepliesInv, RepliesTypeOK
<1>8. Grows /\ UnclaimedUnposted' /\ ConfirmedIsReal'
  BY <1>1, <1>2, <1>5, <1>6, <1>7, RowStep DEF Early
<1> QED BY <1>1, <1>7, <1>8, RowOnly

-----------------------------------------------------------------------------
LEMMA CompleteDeliveryInv ==
  ASSUME RepliesInv, NEW w \in Workers, CompleteDelivery(w)
  PROVE  RepliesInv'
<1>1. worker[w].pc = "sent" /\ Free(w) /\ UNCHANGED <<posts, heard>>
  BY DEF CompleteDelivery
<1>2. PICK a \in Actions : a = worker[w].action
  BY <1>1 DEF RepliesInv, HeldOK
<1>3. action[a].status \notin Early /\ worker[w].ref \in Saying(action[a].text)
  BY <1>1, <1>2 DEF RepliesInv, HeldOK
<1>4. worker[w].ref \in Ref
  BY DEF RepliesInv, RepliesTypeOK, WorkerRow
<1>5. PICK row : row = [action[a] EXCEPT !.status = "EXECUTED", !.ref = worker[w].ref]
  OBVIOUS
<1>6. action' = [action EXCEPT ![a] = row]
  BY <1>2, <1>5 DEF CompleteDelivery
<1>7. row \in Row /\ row.status = "EXECUTED" /\ row.text = action[a].text
      /\ row.ref = worker[w].ref
  BY <1>4, <1>5, RowType DEF RepliesInv, RepliesTypeOK, Row, Status
<1>8. RepliesTypeOK'
  BY <1>1, <1>6, <1>7, FreeType DEF RepliesInv, RepliesTypeOK
<1>9. Grows /\ UnclaimedUnposted' /\ ConfirmedIsReal'
  BY <1>1, <1>3, <1>6, <1>7, <1>8, RowStep DEF Early
<1> QED BY <1>1, <1>8, <1>9, FreeStep

(* Transactions that leave every row and the conversation alone.              *)
LEMMA SameRows ==
  ASSUME RepliesInv, UNCHANGED <<action, posts>>
  PROVE  Grows /\ UnclaimedUnposted' /\ ConfirmedIsReal'
<1>1. Grows
  BY DEF RepliesInv, RepliesTypeOK, Grows
<1>2. UnclaimedUnposted'
  BY DEF RepliesInv, UnclaimedUnposted
<1>3. ConfirmedIsReal'
  BY DEF RepliesInv, ConfirmedIsReal, Saying, Conversation
<1> QED BY <1>1, <1>2, <1>3

LEMMA FailDeliveryInv ==
  ASSUME RepliesInv, NEW w \in Workers, FailDelivery(w)
  PROVE  RepliesInv'
<1>1. worker[w].pc = "failed" /\ Free(w) /\ UNCHANGED <<posts, heard>>
  BY DEF FailDelivery
<1>2. PICK a \in Actions : a = worker[w].action
  BY <1>1 DEF RepliesInv, HeldOK
<1>3. action[a].status \notin Early
  BY <1>1, <1>2 DEF RepliesInv, HeldOK
<1>4. CASE action[a].status = "EXECUTED"
  <2>1. UNCHANGED action
    BY <1>2, <1>4 DEF FailDelivery
  <2>2. RepliesTypeOK'
    BY <1>1, <2>1, FreeType DEF RepliesInv, RepliesTypeOK
  <2> QED BY <1>1, <2>1, <2>2, SameRows, FreeStep
<1>5. CASE action[a].status # "EXECUTED"
  <2>1. PICK check \in BOOLEAN : check = (action[a].kind # "REQUEST_REVIEW")
    OBVIOUS
  <2>2. PICK row : row = [action[a] EXCEPT !.status = "UNKNOWN", !.check = check]
    OBVIOUS
  <2>3. action' = [action EXCEPT ![a] = row]
    BY <1>2, <1>5, <2>1, <2>2 DEF FailDelivery
  <2>4. row \in Row /\ row.status = "UNKNOWN" /\ row.text = action[a].text
    BY <2>2, RowType DEF RepliesInv, RepliesTypeOK, Row, Status
  <2>5. RepliesTypeOK'
    BY <1>1, <2>3, <2>4, FreeType DEF RepliesInv, RepliesTypeOK
  <2>6. Grows /\ UnclaimedUnposted' /\ ConfirmedIsReal'
    BY <1>1, <1>3, <2>3, <2>4, <2>5, RowStep DEF Early
  <2> QED BY <1>1, <2>5, <2>6, FreeStep
<1> QED BY <1>4, <1>5

LEMMA CompleteReconciliationInv ==
  ASSUME RepliesInv, NEW w \in Workers, CompleteReconciliation(w)
  PROVE  RepliesInv'
<1>1. worker[w].pc = "checked" /\ Free(w) /\ UNCHANGED <<posts, heard>>
  BY DEF CompleteReconciliation
<1>2. PICK a \in Actions : a = worker[w].action
  BY <1>1 DEF RepliesInv, HeldOK
<1>3. action[a].status \notin Early
      /\ worker[w].ref \in Saying(action[a].text) \cup {NoRef}
  BY <1>1, <1>2 DEF RepliesInv, HeldOK
<1>4. CASE action[a].status = "EXECUTED"
  <2>1. UNCHANGED action
    BY <1>2, <1>4 DEF CompleteReconciliation
  <2>2. RepliesTypeOK'
    BY <1>1, <2>1, FreeType DEF RepliesInv, RepliesTypeOK
  <2> QED BY <1>1, <2>1, <2>2, SameRows, FreeStep
<1>5. CASE action[a].status # "EXECUTED"
  <2>1. PICK s : s = IF worker[w].ref = NoRef THEN "UNKNOWN" ELSE "EXECUTED"
    OBVIOUS
  <2>2. s \in Status /\ s \notin Early
    BY <2>1 DEF Status, Early
  <2>3. worker[w].ref \in Ref
    BY DEF RepliesInv, RepliesTypeOK, WorkerRow
  <2>4. PICK row : row = [action[a] EXCEPT !.status = s, !.ref = worker[w].ref]
    OBVIOUS
  <2>5. action' = [action EXCEPT ![a] = row]
    BY <1>2, <1>5, <2>1, <2>4 DEF CompleteReconciliation
  <2>6. row \in Row /\ row.status = s /\ row.text = action[a].text /\ row.ref = worker[w].ref
    BY <2>2, <2>3, <2>4, RowType DEF RepliesInv, RepliesTypeOK, Row
  <2>7. RepliesTypeOK'
    BY <1>1, <2>5, <2>6, FreeType DEF RepliesInv, RepliesTypeOK
  <2>8. row.status = "EXECUTED" => row.ref \in Saying(row.text)
    BY <1>3, <2>1, <2>6
  <2>9. Grows /\ UnclaimedUnposted' /\ ConfirmedIsReal'
    BY <1>1, <1>3, <2>2, <2>5, <2>6, <2>7, <2>8, RowStep
  <2> QED BY <1>1, <2>7, <2>9, FreeStep
<1> QED BY <1>4, <1>5

LEMMA AbandonInv ==
  ASSUME RepliesInv, NEW w \in Workers, Abandon(w)
  PROVE  RepliesInv'
<1>1. Free(w) /\ UNCHANGED <<action, posts, heard>>
  BY DEF Abandon
<1>2. RepliesTypeOK'
  BY <1>1, FreeType DEF RepliesInv, RepliesTypeOK
<1> QED BY <1>1, <1>2, SameRows, FreeStep

-----------------------------------------------------------------------------
(* A loop takes an action; it may post only one that nobody had claimed.       *)
LEMMA ClaimStep ==
  ASSUME RepliesInv, UNCHANGED <<posts, heard>>, NEW w \in Workers, NEW a \in Actions,
         NEW CONSTANT row \in Row, action' = [action EXCEPT ![a] = row],
         row.text = action[a].text, row.status \in {"SENDING", "RECONCILING"},
         NEW CONSTANT p \in {"sending", "checking"},
         worker' = [worker EXCEPT ![w] = [pc |-> p, action |-> a, ref |-> NoRef]],
         p = "sending" => action[a].status \in Early
  PROVE  RepliesInv'
<1>1. PICK held : held = [pc |-> p, action |-> a, ref |-> NoRef]
  OBVIOUS
<1>2. held \in WorkerRow /\ held.pc = p /\ held.action = a
  BY <1>1 DEF WorkerRow, WorkerPC, Ref
<1>3. RepliesTypeOK'
  BY <1>1, <1>2 DEF RepliesInv, RepliesTypeOK
<1>4. row.status \notin Early /\ row.status # "EXECUTED"
  BY DEF Early
<1>5. Grows /\ UnclaimedUnposted' /\ ConfirmedIsReal'
  BY <1>3, <1>4, RowStep
<1>6. /\ worker'[w] = held
      /\ \A v \in Workers \ {w} : worker'[v] = worker[v]
      /\ action'[a] = row
  BY <1>1 DEF RepliesInv, RepliesTypeOK
<1>7. p = "sending" => posts'[a] = 0
  BY DEF RepliesInv, UnclaimedUnposted
<1>8. HeldOK(w)'
  BY <1>2, <1>4, <1>6, <1>7 DEF HeldOK
<1>9. \A v \in Workers : HeldOK(v)'
  BY <1>3, <1>5, <1>6, <1>8, OtherHeld
<1>10. ASSUME NEW v \in Workers \ {w}, worker[v].pc = "sending", p = "sending"
       PROVE  worker[v].action # a
  BY <1>10 DEF RepliesInv, HeldOK
<1>11. OneSender'
  BY <1>2, <1>6, <1>10 DEF RepliesInv, OneSender
<1> QED BY <1>3, <1>5, <1>9, <1>11 DEF RepliesInv

LEMMA ClaimDeliveryInv ==
  ASSUME RepliesInv, NEW w \in Workers, NEW a \in Actions, ClaimDelivery(w, a)
  PROVE  RepliesInv'
<1>1. action[a].status = "DELIVERY_PENDING" /\ UNCHANGED <<posts, heard>>
  BY DEF ClaimDelivery, Oldest, With
<1>2. PICK row : row = [action[a] EXCEPT !.status = "SENDING"]
  OBVIOUS
<1>3. row \in Row /\ row.status = "SENDING" /\ row.text = action[a].text
  BY <1>2, RowType DEF RepliesInv, RepliesTypeOK, Row, Status, Unsettled
<1>4. /\ action' = [action EXCEPT ![a] = row]
      /\ worker' = [worker EXCEPT ![w] = [pc |-> "sending", action |-> a, ref |-> NoRef]]
  BY <1>2 DEF ClaimDelivery
<1> QED BY <1>1, <1>3, <1>4, ClaimStep DEF Early

LEMMA ClaimReconciliationInv ==
  ASSUME RepliesInv, NEW w \in Workers, NEW a \in Actions, ClaimReconciliation(w, a)
  PROVE  RepliesInv'
<1>1. UNCHANGED <<posts, heard>>
  BY DEF ClaimReconciliation
<1>2. PICK row : row = [action[a] EXCEPT !.status = "RECONCILING", !.check = FALSE]
  OBVIOUS
<1>3. row \in Row /\ row.status = "RECONCILING" /\ row.text = action[a].text
  BY <1>2, RowType DEF RepliesInv, RepliesTypeOK, Row, Status, Unsettled
<1>4. /\ action' = [action EXCEPT ![a] = row]
      /\ worker' = [worker EXCEPT ![w] = [pc |-> "checking", action |-> a, ref |-> NoRef]]
  BY <1>2 DEF ClaimReconciliation
<1> QED BY <1>1, <1>3, <1>4, ClaimStep

-----------------------------------------------------------------------------
(* The post itself: at most one message more, by the only loop that may.        *)
LEMMA PostStep ==
  ASSUME RepliesInv, UNCHANGED <<action, heard>>, NEW w \in Workers,
         worker[w].pc = "sending", NEW CONSTANT a \in Actions, a = worker[w].action,
         NEW CONSTANT n \in {0, 1}, posts' = [posts EXCEPT ![a] = n],
         NEW CONSTANT held \in WorkerRow, worker' = [worker EXCEPT ![w] = held],
         held.action = a, held.pc \in {"sent", "failed"},
         held.pc = "sent" => n = 1 /\ held.ref = [by |-> a, no |-> 1]
  PROVE  RepliesInv'
<1>1. posts[a] = 0 /\ action[a].status \notin Early
  BY DEF RepliesInv, HeldOK
<1>2. posts'[a] = n /\ \A b \in Actions \ {a} : posts'[b] = posts[b]
  BY DEF RepliesInv, RepliesTypeOK
<1>3. worker'[w] = held /\ \A v \in Workers \ {w} : worker'[v] = worker[v]
  BY DEF RepliesInv, RepliesTypeOK
<1>4. RepliesTypeOK'
  BY DEF RepliesInv, RepliesTypeOK
<1>5. Grows
  <2>1. \A b \in Actions : posts'[b] >= posts[b]
    BY <1>1, <1>2 DEF RepliesInv, RepliesTypeOK
  <2> QED BY <2>1 DEF Grows
<1>6. UnclaimedUnposted'
  BY <1>1, <1>2 DEF RepliesInv, UnclaimedUnposted
<1>7. ConfirmedIsReal'
  <2> SUFFICES ASSUME NEW b \in Actions, action'[b].status = "EXECUTED"
               PROVE  action'[b].ref \in Saying(action[b].text)'
    BY DEF ConfirmedIsReal
  <2> QED BY <1>4, <1>5, StillReal
<1>8. ASSUME NEW v \in Workers \ {w} PROVE HeldOK(v)'
  <2>1. worker[v].pc = "sending" => worker[v].action # a /\ worker[v].action \in Actions
    BY DEF RepliesInv, OneSender, HeldOK
  <2>2. worker[v].pc = "sending" => posts'[worker[v].action] = posts[worker[v].action]
    BY <1>2, <2>1
  <2> QED BY <1>3, <1>4, <1>5, <2>2, OtherHeld
<1>9. HeldOK(w)'
  <2>1. PICK t : t = action[a].text
    OBVIOUS
  <2>2. held.pc = "sent" => held.ref \in Saying(t)'
    BY <1>2, <2>1, InConversationNext
  <2>3. Saying(action[a].text)' = Saying(t)'
    BY <2>1 DEF Saying
  <2> QED BY <1>1, <1>3, <2>2, <2>3 DEF HeldOK
<1>10. OneSender'
  BY <1>3 DEF RepliesInv, OneSender
<1> QED BY <1>4, <1>6, <1>7, <1>8, <1>9, <1>10 DEF RepliesInv

LEMMA PostInv ==
  ASSUME RepliesInv, NEW w \in Workers, Post(w)
  PROVE  RepliesInv'
<1>1. worker[w].pc = "sending" /\ UNCHANGED <<action, heard>>
  BY DEF Post
<1>2. PICK a \in Actions : a = worker[w].action
  BY <1>1 DEF RepliesInv, HeldOK
<1>3. posts[a] = 0
  BY <1>1, <1>2 DEF RepliesInv, HeldOK
<1>4. PICK r \in Ref : r = [by |-> a, no |-> 1]
  <2>1. 1 \in Nat \ {0}
    OBVIOUS
  <2>2. [by |-> a, no |-> 1] \in Message
    BY <2>1 DEF Message
  <2> QED BY <2>2 DEF Ref
<1>5. PICK held : held = [worker[w] EXCEPT !.pc = "sent", !.ref = r]
  OBVIOUS
<1>6. held \in WorkerRow /\ held.pc = "sent" /\ held.action = a /\ held.ref = r
  BY <1>2, <1>5 DEF RepliesInv, RepliesTypeOK, WorkerRow, WorkerPC
<1>7. PICK n : n = posts[a] + 1
  OBVIOUS
<1>8. n = 1
  BY <1>3, <1>7
<1>9. posts' = [posts EXCEPT ![a] = n]
  BY <1>2, <1>7 DEF Post
<1>10. [by |-> a, no |-> n] = r
  BY <1>4, <1>8
<1>11. worker' = [worker EXCEPT ![w] = held]
  BY <1>2, <1>5, <1>7, <1>10 DEF Post
<1> QED BY <1>1, <1>2, <1>4, <1>6, <1>8, <1>9, <1>11, PostStep

LEMMA PostUnconfirmedInv ==
  ASSUME RepliesInv, NEW w \in Workers, PostUnconfirmed(w)
  PROVE  RepliesInv'
<1>1. worker[w].pc = "sending" /\ UNCHANGED <<action, heard>>
  BY DEF PostUnconfirmed
<1>2. PICK a \in Actions : a = worker[w].action
  BY <1>1 DEF RepliesInv, HeldOK
<1>3. posts[a] = 0
  BY <1>1, <1>2 DEF RepliesInv, HeldOK
<1>4. PICK held : held = [worker[w] EXCEPT !.pc = "failed"]
  OBVIOUS
<1>5. held \in WorkerRow /\ held.pc = "failed" /\ held.action = a
  BY <1>2, <1>4 DEF RepliesInv, RepliesTypeOK, WorkerRow, WorkerPC
<1>6. worker' = [worker EXCEPT ![w] = held]
  BY <1>4 DEF PostUnconfirmed
<1>7. PICK arrived \in {0, 1} : posts' = [posts EXCEPT ![a] = posts[a] + arrived]
  BY <1>2 DEF PostUnconfirmed
<1>8. PICK n : n = posts[a] + arrived
  OBVIOUS
<1>9. n \in {0, 1}
  BY <1>3, <1>8
<1>10. posts' = [posts EXCEPT ![a] = n]
  BY <1>7, <1>8
<1> QED BY <1>1, <1>2, <1>5, <1>6, <1>9, <1>10, PostStep

-----------------------------------------------------------------------------
(* A unique match is one of the messages that were seen.                        *)
LEMMA UniqueIsSeen ==
  ASSUME NEW a, NEW seen
  PROVE  UniqueReference(a, seen) \in seen \cup {NoRef}
<1>1. CASE Cardinality(seen) = 1
  <2>1. seen # {}
    BY <1>1, FS_EmptySet
  <2> QED BY <1>1, <2>1 DEF UniqueReference
<1>2. CASE Cardinality(seen) # 1
  BY <1>2 DEF UniqueReference
<1> QED BY <1>1, <1>2

LEMMA ReadHistoryInv ==
  ASSUME RepliesInv, NEW w \in Workers, ReadHistory(w)
  PROVE  RepliesInv'
<1>1. worker[w].pc = "checking" /\ UNCHANGED <<action, posts, heard>>
  BY DEF ReadHistory
<1>2. PICK a \in Actions : a = worker[w].action
  BY <1>1 DEF RepliesInv, HeldOK
<1>3. PICK seen \in SUBSET Saying(action[a].text) :
        worker' = [worker EXCEPT ![w].pc = "checked", ![w].ref = UniqueReference(a, seen)]
  BY <1>2 DEF ReadHistory
<1>4. PICK r : r = UniqueReference(a, seen)
  OBVIOUS
<1>5. r \in Saying(action[a].text) \cup {NoRef}
  BY <1>3, <1>4, UniqueIsSeen
<1>6. r \in Ref
  BY <1>5, SayingIsMessage DEF RepliesInv, Ref
<1>7. PICK held : held = [worker[w] EXCEPT !.pc = "checked", !.ref = r]
  OBVIOUS
<1>8. held \in WorkerRow /\ held.pc = "checked" /\ held.action = a /\ held.ref = r
  BY <1>2, <1>6, <1>7 DEF RepliesInv, RepliesTypeOK, WorkerRow, WorkerPC
<1>9. worker' = [worker EXCEPT ![w] = held]
  BY <1>3, <1>4, <1>7
<1>10. worker'[w] = held /\ \A v \in Workers \ {w} : worker'[v] = worker[v]
  BY <1>9 DEF RepliesInv, RepliesTypeOK
<1>11. RepliesTypeOK'
  BY <1>1, <1>8, <1>9 DEF RepliesInv, RepliesTypeOK
<1>12. Grows /\ UnclaimedUnposted' /\ ConfirmedIsReal'
  BY <1>1, SameRows
<1>13. HeldOK(w)'
  <2>1. Saying(action[a].text)' = Saying(action[a].text)
    BY <1>1 DEF Saying, Conversation
  <2>2. action[a].status \notin Early
    BY <1>1, <1>2 DEF RepliesInv, HeldOK
  <2> QED BY <1>1, <1>5, <1>8, <1>10, <2>1, <2>2 DEF HeldOK
<1>14. ASSUME NEW v \in Workers \ {w} PROVE HeldOK(v)'
  BY <1>1, <1>10, <1>11, <1>12, OtherHeld
<1>15. OneSender'
  BY <1>8, <1>10 DEF RepliesInv, OneSender
<1> QED BY <1>11, <1>12, <1>13, <1>14, <1>15 DEF RepliesInv

-----------------------------------------------------------------------------
LEMMA RepliesInit == Init => RepliesInv
<1> SUFFICES ASSUME Init PROVE RepliesInv
  OBVIOUS
<1>1. RepliesTypeOK
  BY DEF Init, RepliesTypeOK, Row, Status, Kinds, Ref, Idle, WorkerRow, WorkerPC
<1>2. UnclaimedUnposted /\ ConfirmedIsReal
  BY DEF Init, UnclaimedUnposted, ConfirmedIsReal
<1>3. (\A w \in Workers : HeldOK(w)) /\ OneSender
  BY DEF Init, Idle, HeldOK, OneSender
<1> QED BY <1>1, <1>2, <1>3 DEF RepliesInv

LEMMA RepliesStep == RepliesInv /\ [Next]_vars => RepliesInv'
<1> SUFFICES ASSUME RepliesInv, [Next]_vars PROVE RepliesInv'
  OBVIOUS
<1>1. CASE \E a \in Actions : \E k \in Kinds : \E t \in Texts : Record(a, k, t)
  BY <1>1, RecordInv
<1>2. CASE \E a \in Actions : RefuseDelivery(a) \/ Recover(a) \/ RequestCheck(a)
  BY <1>2, RefuseInv, RecoverInv, RequestCheckInv
<1>3. CASE \E a \in Actions : \E w \in Workers :
             ClaimDelivery(w, a) \/ ClaimReconciliation(w, a)
  BY <1>3, ClaimDeliveryInv, ClaimReconciliationInv
<1>4. CASE \E a \in Actions : \E m \in Conversation : Echo(m, a)
  BY <1>4, EchoInv
<1>5. CASE \E w \in Workers : Deliver(w)
  BY <1>5, PostInv, PostUnconfirmedInv, CompleteDeliveryInv, FailDeliveryInv,
     ReadHistoryInv, CompleteReconciliationInv DEF Deliver
<1>6. CASE \E w \in Workers : Abandon(w)
  BY <1>6, AbandonInv
<1>7. CASE UNCHANGED vars
  <2>1. UNCHANGED <<action, posts, heard, worker>>
    BY <1>7 DEF vars
  <2>2. RepliesTypeOK'
    BY <2>1 DEF RepliesInv, RepliesTypeOK
  <2> QED BY <2>1, <2>2, SameRows, RowOnly
<1> QED BY <1>1, <1>2, <1>3, <1>4, <1>5, <1>6, <1>7 DEF Next

(* However many effect loops crash, time out, are suspended past their          *)
(* deadline or check an uncertain send again, no message is posted twice, a      *)
(* refused one is never posted, and every confirmation names a message that      *)
(* stands in the conversation.                                                 *)
THEOREM RepliesAtMostOnce == Spec => [](RepliesTypeOK /\ NeverResent /\ ConfirmedIsReal)
<1>1. RepliesInv => RepliesTypeOK /\ NeverResent /\ ConfirmedIsReal
  BY DEF RepliesInv, UnclaimedUnposted, NeverResent, Early
<1> QED BY <1>1, RepliesInit, RepliesStep, PTL DEF Spec

-----------------------------------------------------------------------------
(***************************************************************************)
(* Observer. For any number of questions, processes and pages: no question *)
(* is answered twice at once. OneRunning is what the partial index         *)
(* promises; the invariant adds that a stream keeps its question until it  *)
(* lets go of it, and that the one who asked a question is the only one to *)
(* store it. A question that another process has marked INTERRUPTED is not *)
(* offered to the model again, so its late answer stays the only one.      *)
(***************************************************************************)
(* A question is asked by one stream, before it has a row.                  *)
AskedOnce ==
  \A p \in Apis : stream[p].at = "asking" =>
    /\ question[stream[p].on].status = "NEW"
    /\ \A x \in Apis : stream[x].at = "asking" /\ stream[x].on = stream[p].on => x = p

(* A question in hand was claimed, its claim counts until the stream lets   *)
(* go of it, and no other stream has it.                                    *)
InHandIsClaimed ==
  \A p \in Apis : stream[p].at \in InHand =>
    /\ question[stream[p].on].status \notin {"NEW", "PENDING", "STALE"}
    /\ \A x \in Apis : stream[x].at \in InHand /\ stream[x].on = stream[p].on => x = p

ObserverInv == ObserverTypeOK /\ AskedOnce /\ InHandIsClaimed

-----------------------------------------------------------------------------
(* What most steps do to a stream, at most, and to a question.              *)
LetsGo ==
  \A x \in Apis :
    \/ stream'[x] = stream[x]
    \/ stream'[x].at \notin InHand \cup {"asking"}
    \/ /\ stream[x].at \in InHand /\ stream'[x].at \in InHand
       /\ stream'[x].on = stream[x].on

SettlesOnly ==
  \A q \in Questions :
    \/ question'[q].status = question[q].status
    \/ /\ Open(question[q].status)
       /\ question'[q].status \in {"COMPLETED", "INTERRUPTED"}

(* A step of that kind can disturb nothing.                                 *)
LEMMA QuietStep ==
  ASSUME ObserverInv, ObserverTypeOK', LetsGo, SettlesOnly
  PROVE  ObserverInv'
<1>1. \A x \in Apis : stream'[x].at = "asking" =>
        stream'[x] = stream[x] /\ stream[x].at = "asking"
  BY DEF LetsGo, InHand
<1>2. \A x \in Apis : stream'[x].at \in InHand =>
        stream[x].at \in InHand /\ stream'[x].on = stream[x].on
  BY DEF LetsGo, InHand
<1>3. \A x \in Apis : stream[x].at # "free" => stream[x].on \in Questions
  BY DEF ObserverInv, ObserverTypeOK, Unused
<1>4. AskedOnce'
  BY <1>1, <1>3, SMT DEF ObserverInv, AskedOnce, SettlesOnly, Open, Claimed
<1>5. InHandIsClaimed'
  BY <1>2, <1>3, SMT DEF ObserverInv, InHandIsClaimed, SettlesOnly, InHand
<1> QED
  BY <1>4, <1>5 DEF ObserverInv

(* Where Moves takes a stream.                                              *)
LEMMA MovesStream ==
  ASSUME ObserverTypeOK, NEW p \in Apis, NEW to \in Steps,
         stream[p].at = "free" => to = "free", Moves(p, to)
  PROVE  /\ stream' \in [Apis -> {Unused} \cup [at : Steps, on : Questions]]
         /\ stream'[p].at = to
         /\ to # "free" => stream'[p].on = stream[p].on /\ stream[p].on \in Questions
         /\ \A x \in Apis : x # p => stream'[x] = stream[x]
<1> DEFINE Busy == [at : Steps, on : Questions]
<1>1. stream \in [Apis -> {Unused} \cup Busy]
  BY DEF ObserverTypeOK
<1>2. CASE to = "free"
  BY <1>1, <1>2 DEF Moves, Unused
<1>3. CASE to # "free"
  <2>1. stream[p] \in Busy
    BY <1>1, <1>3 DEF Unused
  <2>2. [stream[p] EXCEPT !.at = to] \in Busy
    BY <2>1
  <2>3. stream' = [stream EXCEPT ![p] = [stream[p] EXCEPT !.at = to]]
    BY <1>1, <1>3 DEF Moves
  <2> QED
    BY <1>1, <1>3, <2>1, <2>2, <2>3
<1> QED
  BY <1>2, <1>3

(* A stream that is told to stop, wherever it is.                           *)
LEMMA CancelledStream ==
  ASSUME ObserverTypeOK, NEW p \in Apis, Moves(p, Cancelled(stream[p].at))
  PROVE  stream' \in [Apis -> {Unused} \cup [at : Steps, on : Questions]] /\ LetsGo
<1> DEFINE to == Cancelled(stream[p].at)
<1>1. stream[p].at \in Steps
  BY DEF ObserverTypeOK, Unused, Steps
<1>2. to \in Steps /\ (stream[p].at = "free" => to = "free")
  BY <1>1 DEF Cancelled, Steps, InHand
<1>3. to \notin InHand /\ (to = "asking" => stream[p].at = "asking")
  BY <1>1 DEF Cancelled, Steps, InHand
<1>4. Moves(p, to)
  OBVIOUS
<1> HIDE DEF to
<1>5. /\ stream' \in [Apis -> {Unused} \cup [at : Steps, on : Questions]]
      /\ stream'[p].at = to
      /\ to # "free" => stream'[p].on = stream[p].on /\ stream[p].on \in Questions
      /\ \A x \in Apis : x # p => stream'[x] = stream[x]
  BY <1>2, <1>4, MovesStream
<1>6. to = "asking" => stream'[p] = stream[p]
  <2> SUFFICES ASSUME to = "asking" PROVE stream'[p] = stream[p]
    OBVIOUS
  <2> DEFINE Busy == [at : Steps, on : Questions]
  <2>1. stream[p] \in Busy /\ stream'[p] \in Busy
    BY <1>3, <1>5 DEF ObserverTypeOK, Unused
  <2> QED
    BY <1>3, <1>5, <2>1
<1>7. LetsGo
  BY <1>3, <1>5, <1>6 DEF LetsGo
<1> QED
  BY <1>5, <1>7

(* A change that keeps what is known of a question changes its status.       *)
LEMMA QuestionStep ==
  ASSUME ObserverTypeOK, NEW q \in Questions,
         NEW s \in {"NEW", "PENDING", "RUNNING", "STALE", "COMPLETED", "INTERRUPTED"},
         question' = [question EXCEPT ![q].status = s]
  PROVE  /\ question' \in [Questions -> Question]
         /\ question'[q].status = s
         /\ \A o \in Questions : o # q => question'[o] = question[o]
BY DEF ObserverTypeOK, Question

LEMMA ReceiptStep ==
  ASSUME ObserverTypeOK, NEW p \in Apis, stream[p].at # "free",
         NEW r \in {"NONE", "STARTED", "DONE", "INTERRUPTED"}, Receipt(p, r)
  PROVE  receipt' \in [Questions -> {"NONE", "STARTED", "DONE", "INTERRUPTED"}]
BY DEF ObserverTypeOK, Receipt, Unused

-----------------------------------------------------------------------------
LEMMA ObserverInitOK == ObserverInit => ObserverInv
<1> SUFFICES ASSUME ObserverInit PROVE ObserverInv
  OBVIOUS
<1>1. \A s \in Switch : AsTold(s) \in Runtime
  BY DEF AsTold, Stopped, Runtime, Switch
<1>2. runtime \in [Processes -> Runtime]
  BY <1>1 DEF ObserverInit
<1>3. question \in [Questions -> Question]
  BY DEF ObserverInit, Question
<1>4. stream \in [Apis -> {Unused}]
  BY DEF ObserverInit
<1>5. ObserverTypeOK
  BY <1>2, <1>3, <1>4 DEF ObserverInit, ObserverTypeOK
<1> QED
  BY <1>5, <1>4 DEF ObserverInit, ObserverInv, AskedOnce, InHandIsClaimed,
     InHand, Unused

(* The steps of the switch.                                                 *)
LEMMA SwitchStepsKeep ==
  ASSUME ObserverInv, NEW p \in Processes, SwitchSteps(p)
  PROVE  ObserverInv'
<1> USE DEF Processes
<1>t. ObserverTypeOK
  BY DEF ObserverInv
<1>r. runtime \in [Processes -> Runtime] /\ runtime[p] \in Runtime
  BY <1>t DEF ObserverTypeOK
<1>1. ASSUME NEW s \in Switch, p \in Apis, SaveSwitch(p, s) PROVE ObserverInv'
  <2>1. \A x \in Processes :
          [runtime[x] EXCEPT !.told = @ \/ runtime[x].linked, !.got = IF x = p THEN s ELSE @]
            \in Runtime
    BY <1>r, <1>1 DEF Runtime
  <2>2. ObserverTypeOK'
    BY <1>t, <1>1, <2>1 DEF ObserverTypeOK, SaveSwitch
  <2> QED
    BY <1>1, <2>2, QuietStep DEF SaveSwitch, LetsGo, SettlesOnly
<1>2. ASSUME Connect(p) \/ Disconnect(p) \/ Configure(p) PROVE ObserverInv'
  <2>1. runtime' \in [Processes -> Runtime]
    <3>1. CASE Connect(p)
      BY <1>r, <3>1 DEF Connect, Runtime
    <3>2. CASE Disconnect(p)
      BY <1>r, <3>2 DEF Disconnect, Runtime
    <3>3. CASE Configure(p)
      <4>1. preference \in Switch
        BY <1>t DEF ObserverTypeOK
      <4>2. runtime' = [runtime EXCEPT ![p].told = FALSE, ![p].got = preference]
        BY <3>3 DEF Configure
      <4> QED
        BY <1>r, <4>1, <4>2 DEF Runtime
    <3> QED
      BY <1>2, <3>1, <3>2, <3>3
  <2>2. UNCHANGED <<preference, question, receipt, stream>>
    BY <1>2 DEF Connect, Disconnect, Configure
  <2>3. ObserverTypeOK'
    BY <1>t, <2>1, <2>2 DEF ObserverTypeOK
  <2> QED
    BY <2>2, <2>3, QuietStep DEF LetsGo, SettlesOnly
<1>3. ASSUME NEW s \in Switch, Switches(p, s), UNCHANGED <<preference, question, receipt>>
      PROVE ObserverInv'
  <2>1. runtime' \in [Processes -> Runtime]
    BY <1>r, <1>3 DEF Switches, Runtime
  <2>2. stream' \in [Apis -> {Unused} \cup [at : Steps, on : Questions]] /\ LetsGo
    <3>1. CASE UNCHANGED stream
      BY <1>t, <3>1 DEF ObserverTypeOK, LetsGo
    <3>2. CASE p \in Apis /\ Moves(p, Cancelled(stream[p].at))
      BY <1>t, <3>2, CancelledStream
    <3> QED
      BY <1>3, <3>1, <3>2 DEF Switches
  <2>3. ObserverTypeOK'
    BY <1>t, <1>3, <2>1, <2>2 DEF ObserverTypeOK
  <2> QED
    BY <1>3, <2>2, <2>3, QuietStep DEF SettlesOnly
<1>4. ASSUME Apply(p) PROVE ObserverInv'
  <2>1. runtime[p].got \in Switch
    BY <1>r, <1>4 DEF Apply, Runtime
  <2> QED
    BY <1>3, <1>4, <2>1 DEF Apply
<1>5. ASSUME FailClosed(p) PROVE ObserverInv'
  BY <1>3, <1>5 DEF FailClosed, Switch
<1>6. ASSUME FinishApply(p) PROVE ObserverInv'
  <2>1. runtime' \in [Processes -> Runtime]
    BY <1>r, <1>6 DEF FinishApply, Runtime
  <2>2. question' \in [Questions -> Question] /\ SettlesOnly
    BY <1>t, <1>6 DEF FinishApply, ObserverTypeOK, Question, SettlesOnly
  <2>3. ObserverTypeOK'
    BY <1>t, <1>6, <2>1, <2>2 DEF ObserverTypeOK, FinishApply
  <2> QED
    BY <1>6, <2>2, <2>3, QuietStep DEF FinishApply, LetsGo
<1>7. ASSUME Kill(p) PROVE ObserverInv'
  <2>1. runtime' \in [Processes -> Runtime]
    BY <1>r, <1>7 DEF Kill, Runtime, Stopped, Switch
  <2>2. stream' \in [Apis -> {Unused} \cup [at : Steps, on : Questions]] /\ LetsGo
    <3>1. CASE UNCHANGED stream
      BY <1>t, <3>1 DEF ObserverTypeOK, LetsGo
    <3>2. CASE p \in Apis /\ Moves(p, "free")
      BY <1>t, <3>2, MovesStream DEF Steps, LetsGo, InHand
    <3> QED
      BY <1>7, <3>1, <3>2 DEF Kill
  <2>3. ObserverTypeOK'
    BY <1>t, <1>7, <2>1, <2>2 DEF ObserverTypeOK, Kill
  <2> QED
    BY <1>7, <2>2, <2>3, QuietStep DEF Kill, SettlesOnly
<1> QED
  BY <1>1, <1>2, <1>4, <1>5, <1>6, <1>7 DEF SwitchSteps

(* Beginning a stream.                                                      *)
LEMMA BeginsStream ==
  ASSUME ObserverTypeOK, NEW p \in Apis, NEW q \in Questions, NEW to \in Steps,
         Begins(p, q, to)
  PROVE  /\ stream' \in [Apis -> {Unused} \cup [at : Steps, on : Questions]]
         /\ stream'[p] = [at |-> to, on |-> q]
         /\ \A x \in Apis : x # p => stream'[x] = stream[x]
BY DEF ObserverTypeOK, Begins

LEMMA AskKeeps ==
  ASSUME ObserverInv, NEW p \in Apis, NEW q \in Questions, Ask(p, q) \/ OpenStream(p, q)
  PROVE  ObserverInv'
<1>t. ObserverTypeOK
  BY DEF ObserverInv
<1>1. CASE Ask(p, q)
  <2>1. Begins(p, q, "asking") /\ "asking" \in Steps
    BY <1>1 DEF Ask, Steps
  <2>2. /\ stream' \in [Apis -> {Unused} \cup [at : Steps, on : Questions]]
        /\ stream'[p] = [at |-> "asking", on |-> q]
        /\ \A x \in Apis : x # p => stream'[x] = stream[x]
    BY <1>t, <2>1, BeginsStream
  <2>3. ObserverTypeOK'
    BY <1>t, <1>1, <2>2 DEF ObserverTypeOK, Ask, Others
  <2>4. AskedOnce'
    BY <1>1, <2>2 DEF ObserverInv, AskedOnce, Ask, Stands
  <2>5. InHandIsClaimed'
    BY <1>1, <2>2 DEF ObserverInv, InHandIsClaimed, Ask, InHand
  <2> QED
    BY <1>1, <2>3, <2>4, <2>5 DEF ObserverInv
<1>2. CASE OpenStream(p, q)
  <2>1. Begins(p, q, "opened") /\ "opened" \in Steps
    BY <1>2 DEF OpenStream, Steps
  <2>2. /\ stream' \in [Apis -> {Unused} \cup [at : Steps, on : Questions]]
        /\ stream'[p] = [at |-> "opened", on |-> q]
        /\ \A x \in Apis : x # p => stream'[x] = stream[x]
    BY <1>t, <2>1, BeginsStream
  <2>3. ObserverTypeOK'
    BY <1>t, <1>2, <2>2 DEF ObserverTypeOK, OpenStream, Others
  <2> QED
    BY <1>2, <2>2, <2>3, QuietStep DEF OpenStream, LetsGo, SettlesOnly, InHand
<1> QED
  BY <1>1, <1>2

(* The row of a question, which nobody can have in hand before.             *)
LEMMA CreateQuestionKeeps ==
  ASSUME ObserverInv, NEW p \in Apis, CreateQuestion(p)
  PROVE  ObserverInv'
<1> DEFINE q == stream[p].on
<1>t. ObserverTypeOK
  BY DEF ObserverInv
<1>1. stream[p].at = "asking" /\ Moves(p, "free") /\ "free" \in Steps
  BY DEF CreateQuestion, Stands, Steps
<1>2. /\ stream' \in [Apis -> {Unused} \cup [at : Steps, on : Questions]]
      /\ stream'[p].at = "free"
      /\ \A x \in Apis : x # p => stream'[x] = stream[x]
  BY <1>t, <1>1, MovesStream
<1>3. q \in Questions /\ question[q].status = "NEW"
  BY <1>t, <1>1 DEF ObserverTypeOK, Unused, ObserverInv, AskedOnce
<1>4. question' = [question EXCEPT ![q].status = "PENDING"]
  BY DEF CreateQuestion
<1>5. \A x \in Apis : stream[x].at = "asking" /\ stream[x].on = q => x = p
  BY <1>1 DEF ObserverInv, AskedOnce
<1>6. \A x \in Apis : stream[x].at \in InHand => stream[x].on # q
  BY <1>3 DEF ObserverInv, InHandIsClaimed
<1>on. \A x \in Apis : stream[x].at # "free" => stream[x].on \in Questions
  BY <1>t DEF ObserverTypeOK, Unused
<1> HIDE DEF q
<1>7. /\ question' \in [Questions -> Question]
      /\ question'[q].status = "PENDING"
      /\ \A o \in Questions : o # q => question'[o] = question[o]
  BY <1>t, <1>3, <1>4, QuestionStep
<1>8. ObserverTypeOK'
  BY <1>t, <1>2, <1>7 DEF ObserverTypeOK, CreateQuestion, Others
<1>9. AskedOnce'
  BY <1>2, <1>5, <1>7, <1>on DEF ObserverInv, AskedOnce
<1>10. InHandIsClaimed'
  BY <1>2, <1>6, <1>7, <1>on DEF ObserverInv, InHandIsClaimed, InHand
<1> QED
  BY <1>8, <1>9, <1>10 DEF ObserverInv

(* The claim, in one transaction: the question is in no other hand.         *)
LEMMA ClaimQuestionKeeps ==
  ASSUME ObserverInv, NEW p \in Apis, ClaimQuestion(p)
  PROVE  ObserverInv'
<1> DEFINE q == stream[p].on
<1>t. ObserverTypeOK
  BY DEF ObserverInv
<1>on. \A x \in Apis : stream[x].at # "free" => stream[x].on \in Questions
  BY <1>t DEF ObserverTypeOK, Unused
<1>at. stream[p].at = "opened" /\ q \in Questions
  BY <1>on DEF ClaimQuestion, Stands
<1>1. CASE Moves(p, "free") /\ UNCHANGED question
  <2>1. /\ stream' \in [Apis -> {Unused} \cup [at : Steps, on : Questions]]
        /\ LetsGo
    BY <1>t, <1>1, MovesStream DEF Steps, LetsGo, InHand
  <2>2. ObserverTypeOK'
    BY <1>t, <1>1, <2>1 DEF ObserverTypeOK, ClaimQuestion, Others
  <2> QED
    BY <1>1, <2>1, <2>2, QuietStep DEF SettlesOnly
<1>2. CASE /\ MayClaim(q)
           /\ Moves(p, "reading")
           /\ question' = [question EXCEPT ![q].status = "RUNNING"]
  <2>1. /\ stream' \in [Apis -> {Unused} \cup [at : Steps, on : Questions]]
        /\ stream'[p].at = "reading" /\ stream'[p].on = q
        /\ \A x \in Apis : x # p => stream'[x] = stream[x]
    BY <1>t, <1>2, <1>at, MovesStream DEF Steps, InHand
  <2>2. question[q].status = "PENDING"
    BY <1>2 DEF MayClaim
  <2>3. \A x \in Apis : stream[x].at \in InHand \cup {"asking"} => stream[x].on # q
    BY <2>2 DEF ObserverInv, InHandIsClaimed, AskedOnce
  <2> HIDE DEF q
  <2>4. /\ question' \in [Questions -> Question]
        /\ question'[q].status = "RUNNING"
        /\ \A o \in Questions : o # q => question'[o] = question[o]
    BY <1>t, <1>at, <1>2, QuestionStep
  <2>5. ObserverTypeOK'
    BY <1>t, <2>1, <2>4 DEF ObserverTypeOK, ClaimQuestion, Others
  <2>6. AskedOnce'
    BY <2>1, <2>3, <2>4, <1>on DEF ObserverInv, AskedOnce
  <2>7. InHandIsClaimed'
    BY <2>1, <2>3, <2>4, <1>on DEF ObserverInv, InHandIsClaimed, InHand
  <2> QED
    BY <2>5, <2>6, <2>7 DEF ObserverInv
<1> QED
  BY <1>1, <1>2 DEF ClaimQuestion

(* The answer, up to its bookkeeping.                                       *)
LEMMA AnswerKeeps ==
  ASSUME ObserverInv, NEW p \in Apis, Gathered(p) \/ Explained(p) \/ OutOfTime(p)
  PROVE  ObserverInv'
<1>t. ObserverTypeOK
  BY DEF ObserverInv
<1>1. stream[p].at \in InHand /\ stream[p].at # "free"
  BY DEF Gathered, Explained, OutOfTime, Stands, InHand
<1>2. Moves(p, "local") \/ Moves(p, "ended")
  BY DEF Gathered, Explained, OutOfTime
<1>3. stream' \in [Apis -> {Unused} \cup [at : Steps, on : Questions]] /\ LetsGo
  <2>1. CASE Moves(p, "local")
    <3>1. /\ stream' \in [Apis -> {Unused} \cup [at : Steps, on : Questions]]
          /\ stream'[p].at = "local" /\ stream'[p].on = stream[p].on
          /\ \A x \in Apis : x # p => stream'[x] = stream[x]
      BY <1>t, <1>1, <2>1, MovesStream DEF Steps, InHand
    <3> QED
      BY <1>1, <3>1 DEF LetsGo, InHand
  <2>2. CASE Moves(p, "ended")
    BY <1>t, <1>1, <2>2, MovesStream DEF Steps, LetsGo, InHand
  <2> QED
    BY <1>2, <2>1, <2>2
<1>4. UNCHANGED <<preference, runtime, question>>
  BY DEF Gathered, Explained, OutOfTime, Others
<1>5. UNCHANGED receipt \/ Receipt(p, "STARTED") \/ Receipt(p, "DONE") \/ Receipt(p, "INTERRUPTED")
  BY DEF Gathered, Explained, OutOfTime
<1>6. receipt' \in [Questions -> {"NONE", "STARTED", "DONE", "INTERRUPTED"}]
  <2>1. CASE UNCHANGED receipt
    BY <1>t, <2>1 DEF ObserverTypeOK
  <2> QED
    BY <1>t, <1>1, <1>5, <2>1, ReceiptStep
<1>7. ObserverTypeOK'
  BY <1>t, <1>3, <1>4, <1>6 DEF ObserverTypeOK
<1> QED
  BY <1>3, <1>4, <1>7, QuietStep DEF SettlesOnly

LEMMA AnsweredSettles ==
  ASSUME ObserverTypeOK, NEW q \in Questions, Answered(q)
  PROVE  question' \in [Questions -> Question] /\ SettlesOnly
BY DEF ObserverTypeOK, Answered, SettlesOnly, Question, Open, Claimed

(* What a stream does at its end.                                           *)
LEMMA EndKeeps ==
  ASSUME ObserverInv, NEW p \in Apis,
         FinishQuestion(p) \/ Interrupt(p) \/ ClosePage(p) \/ DropStream(p)
  PROVE  ObserverInv'
<1>t. ObserverTypeOK
  BY DEF ObserverInv
<1>1. stream[p].at # "free"
  BY DEF FinishQuestion, Interrupt, ClosePage, DropStream, Stands, InHand
<1>2. stream[p].on \in Questions
  BY <1>t, <1>1 DEF ObserverTypeOK, Unused
<1>3. stream' \in [Apis -> {Unused} \cup [at : Steps, on : Questions]] /\ LetsGo
  <2>1. CASE Moves(p, "free")
    BY <1>t, <2>1, MovesStream DEF Steps, LetsGo, InHand
  <2>2. CASE Moves(p, Cancelled(stream[p].at))
    BY <1>t, <2>2, CancelledStream
  <2> QED
    BY <2>1, <2>2 DEF FinishQuestion, Interrupt, ClosePage, DropStream
<1>4. question' \in [Questions -> Question] /\ SettlesOnly
  <2>1. CASE Answered(stream[p].on)
    BY <1>t, <1>2, <2>1, AnsweredSettles
  <2>2. CASE UNCHANGED question
    BY <1>t, <2>2 DEF ObserverTypeOK, SettlesOnly
  <2> QED
    BY <2>1, <2>2 DEF FinishQuestion, Interrupt, ClosePage, DropStream
<1>5. UNCHANGED receipt \/ Receipt(p, "INTERRUPTED")
  BY DEF FinishQuestion, Interrupt, ClosePage, DropStream
<1>6. receipt' \in [Questions -> {"NONE", "STARTED", "DONE", "INTERRUPTED"}]
  <2>1. CASE UNCHANGED receipt
    BY <1>t, <2>1 DEF ObserverTypeOK
  <2> QED
    BY <1>t, <1>1, <1>5, <2>1, ReceiptStep
<1>7. UNCHANGED <<preference, runtime>>
  BY DEF FinishQuestion, Interrupt, ClosePage, DropStream, Others
<1>8. ObserverTypeOK'
  BY <1>t, <1>3, <1>4, <1>6, <1>7 DEF ObserverTypeOK
<1> QED
  BY <1>3, <1>4, <1>8, QuietStep

(* A claim expires that no stream works on any more.                        *)
LEMMA ClaimExpiresKeeps ==
  ASSUME ObserverInv, NEW q \in Questions, ClaimExpires(q)
  PROVE  ObserverInv'
<1>t. ObserverTypeOK
  BY DEF ObserverInv
<1>1. /\ question[q].status = "RUNNING"
      /\ question' = [question EXCEPT ![q].status = "STALE"]
      /\ UNCHANGED <<preference, runtime, receipt, stream>>
  BY DEF ClaimExpires, Others
<1>2. /\ question' \in [Questions -> Question]
      /\ question'[q].status = "STALE"
      /\ \A o \in Questions : o # q => question'[o] = question[o]
  BY <1>t, <1>1, QuestionStep
<1>3. \A x \in Apis : stream[x].at \in InHand => stream[x].on # q
  BY DEF ClaimExpires, WorkedOn
<1>on. \A x \in Apis : stream[x].at # "free" => stream[x].on \in Questions
  BY <1>t DEF ObserverTypeOK, Unused
<1>4. ObserverTypeOK'
  BY <1>t, <1>1, <1>2 DEF ObserverTypeOK
<1>5. AskedOnce'
  BY <1>1, <1>2, <1>on DEF ObserverInv, AskedOnce
<1>6. InHandIsClaimed'
  BY <1>1, <1>2, <1>3, <1>on DEF ObserverInv, InHandIsClaimed, InHand
<1> QED
  BY <1>4, <1>5, <1>6 DEF ObserverInv

(* Time and the hourly cleanup.                                             *)
LEMMA CleanupKeeps ==
  ASSUME ObserverInv,
         (\E q \in Questions : Grow(q)) \/ (\E w \in Supporters : Cleanup(w))
  PROVE  ObserverInv'
<1>t. ObserverTypeOK
  BY DEF ObserverInv
<1>1. UNCHANGED <<preference, runtime, stream>>
  BY DEF Grow, Cleanup, Others
<1>2. question' \in [Questions -> Question] /\ SettlesOnly
  <2>1. ASSUME NEW q \in Questions, Grow(q)
        PROVE question' \in [Questions -> Question] /\ SettlesOnly
    BY <1>t, <2>1 DEF Grow, ObserverTypeOK, Question, SettlesOnly
  <2>2. ASSUME NEW w \in Supporters, Cleanup(w)
        PROVE question' \in [Questions -> Question] /\ SettlesOnly
    BY <1>t, <2>2 DEF Cleanup, GivenUp, ObserverTypeOK, Question, SettlesOnly
  <2> QED
    BY <2>1, <2>2
<1>3. receipt' \in [Questions -> {"NONE", "STARTED", "DONE", "INTERRUPTED"}]
  BY <1>t DEF Grow, Cleanup, ObserverTypeOK
<1>4. ObserverTypeOK'
  BY <1>t, <1>1, <1>2, <1>3 DEF ObserverTypeOK
<1> QED
  BY <1>1, <1>2, <1>4, QuietStep DEF LetsGo

LEMMA ObserverStepKeeps == ObserverInv /\ [ObserverNext]_observerVars => ObserverInv'
<1> SUFFICES ASSUME ObserverInv, [ObserverNext]_observerVars PROVE ObserverInv'
  OBVIOUS
<1>1. CASE ObserverNext
  BY <1>1, SwitchStepsKeep, AskKeeps, CreateQuestionKeeps, ClaimQuestionKeeps, AnswerKeeps,
     EndKeeps, ClaimExpiresKeeps, CleanupKeeps DEF ObserverNext, Proceed
<1>2. CASE UNCHANGED observerVars
  BY <1>2 DEF observerVars, ObserverInv, ObserverTypeOK, AskedOnce, InHandIsClaimed
<1> QED
  BY <1>1, <1>2

(* No question is in the hands of two streams, for any number of questions, *)
(* processes and pages (claim_question() in observer/repository.py).        *)
THEOREM QuestionsAreAnsweredOnce == ObserverSpec => []NoDuplicateInference
<1>1. ObserverSpec => []ObserverInv
  BY ObserverInitOK, ObserverStepKeeps, PTL DEF ObserverSpec
<1>2. ObserverInv => NoDuplicateInference
  BY DEF ObserverInv, InHandIsClaimed, NoDuplicateInference
<1> QED
  BY <1>1, <1>2, PTL

-----------------------------------------------------------------------------
(***************************************************************************)
(* Attention. A notice of pressure opens only of what lasted, for any      *)
(* number of detectors, any hold and any gap.                              *)
(*                                                                         *)
(* detected says where the window of a PENDING row begins, and nobody      *)
(* tells the row that the condition went away. The invariant says when it  *)
(* may be wrong: only after an absence longer than the gap, and then the   *)
(* row was seen so long ago that the next observation begins a new window. *)
(* That observation may itself be old; it is never older than the          *)
(* condition.                                                              *)
(***************************************************************************)
(* Time passes no sample, and a condition that is away was not sampled      *)
(* since.                                                                   *)
SamplesAreRecent ==
  \A d \in Detectors :
    sample[d].what \in Severity =>
      /\ clock <= sample[d].at + 1 /\ sample[d].at <= clock
      /\ host.steady <= sample[d].at
      /\ host.level = Absent => sample[d].at <= host.away

HostIsInThePast == host.away <= clock /\ host.steady <= clock

(* The window of a row that may still open.                                 *)
WindowIsSteady ==
  event.status = "PENDING" =>
    /\ event.seen <= clock
    /\ host.level = Absent => event.seen <= host.away
    /\ host.steady <= event.detected \/ event.seen + Gap < host.steady

AttentionInv ==
  /\ AttentionTypeOK
  /\ SamplesAreRecent
  /\ HostIsInThePast
  /\ WindowIsSteady

-----------------------------------------------------------------------------
(* The row an observation leaves, whether or not it opens.                  *)
LEMMA ObservedRow ==
  ASSUME AttentionTypeOK, NEW l \in Severity, NEW at \in Time, Observe(l, at)
  PROVE  /\ event' \in [status : {"PENDING", "OPEN", "ACKNOWLEDGED", "SNOOZED"},
                        severity : Severity, detected : Time, seen : Time]
         /\ event'.seen = at
         /\ event.status = "PENDING" => event'.detected = IF at > event.seen + Gap THEN at
                                                          ELSE event.detected
         /\ event.status # "PENDING" /\ event'.status = "PENDING" => event'.detected = at
         /\ event.status = "PENDING" /\ event'.status = "OPEN" =>
              \/ event.severity = "WARNING" /\ l = "CRITICAL"
              \/ at >= event'.detected + HoldOf
<1> DEFINE row == [Seen(event, at) EXCEPT !.severity = l]
<1>1. /\ row \in [status : {"PENDING", "OPEN", "ACKNOWLEDGED", "SNOOZED"},
                  severity : Severity, detected : Time, seen : Time]
      /\ row.seen = at
      /\ row.status = IF event.status \in {"NONE", "RESOLVED"} THEN "PENDING" ELSE event.status
      /\ event.status \in {"NONE", "RESOLVED"} => row.detected = at
      /\ event.status = "PENDING" => row.detected = IF at > event.seen + Gap THEN at
                                                    ELSE event.detected
  BY AttentionAssumption DEF Seen, AttentionTypeOK, Time, Severity
<1> HIDE DEF row
<1>2. CASE event' = [row EXCEPT !.status =
                      IF Escalates(event, l) \/ Ripe(row, at) THEN "OPEN" ELSE @]
  BY <1>1, <1>2 DEF Escalates, Ripe, AttentionTypeOK, Severity
<1>3. CASE row.status = "SNOOZED" /\ event' = [row EXCEPT !.status = "OPEN"]
  BY <1>1, <1>3 DEF AttentionTypeOK
<1> QED
  BY <1>2, <1>3 DEF Observe, row

LEMMA InvStarts == AttentionInit => AttentionInv
BY AttentionAssumption
   DEF AttentionInit, AttentionInv, AttentionTypeOK, SamplesAreRecent, HostIsInThePast,
       WindowIsSteady, Time, Levels, Severity, Absent, NoSample, NoEvent

LEMMA InvStays ==
  ASSUME AttentionInv, [AttentionNext]_attentionVars
  PROVE  AttentionInv'
<1> USE AttentionAssumption
    DEF AttentionInv, AttentionTypeOK, SamplesAreRecent, HostIsInThePast, WindowIsSteady, Time,
        Severity, Absent, Levels
<1>1. ASSUME NEW l \in Severity \cup {Absent}, Changes(l) PROVE AttentionInv'
  BY <1>1 DEF Changes
<1>2. ASSUME NEW d \in Detectors, Snapshot(d) PROVE AttentionInv'
  BY <1>2 DEF Snapshot
<1>3. ASSUME NEW d \in Detectors, Synchronize(d) PROVE AttentionInv'
  <2>1. CASE sample[d].what \in Severity /\ Observe(sample[d].what, sample[d].at)
    BY <1>3, <2>1, ObservedRow DEF Synchronize, NoSample
  <2>2. CASE sample[d].what \notin Severity /\ Resolve
    BY <1>3, <2>2 DEF Synchronize, NoSample, Resolve
  <2> QED
    BY <1>3, <2>1, <2>2 DEF Synchronize
<1>4. ASSUME NEW d \in Detectors, Skip(d) PROVE AttentionInv'
  BY <1>4 DEF Skip, NoSample
<1>5. CASE Acknowledge \/ Snooze
  BY <1>5 DEF Acknowledge, Snooze
<1>6. CASE Minute
  BY <1>6 DEF Minute, NoSample
<1>7. CASE UNCHANGED attentionVars
  BY <1>7 DEF attentionVars
<1> QED
  BY <1>1, <1>2, <1>3, <1>4, <1>5, <1>6, <1>7 DEF AttentionNext

(* A row opens in synchronize() alone, of a condition that lasted: samples  *)
(* that are late, lost or overtaken open nothing.                           *)
THEOREM OpensOnlyWhatLasted == AttentionSpec => AttentionIsSustained
<1>1. AttentionInv /\ [AttentionNext]_attentionVars =>
        [(event.status = "PENDING" /\ event'.status = "OPEN") =>
           event'.seen >= host.steady + HoldOf]_attentionVars
  <2> SUFFICES ASSUME AttentionInv, AttentionNext, event.status = "PENDING", event'.status = "OPEN"
               PROVE  event'.seen >= host.steady + HoldOf
    OBVIOUS
  <2>1. PICK d \in Detectors : Synchronize(d) /\ sample[d].what \in Severity
    BY DEF AttentionNext, Changes, Snapshot, Synchronize, Resolve, Skip, Acknowledge, Snooze, Minute,
           AttentionInv, AttentionTypeOK
  <2> DEFINE at == sample[d].at
  <2>2. at \in Time /\ host.steady <= at /\ Observe(sample[d].what, at)
    BY <2>1 DEF Synchronize, AttentionInv, AttentionTypeOK, SamplesAreRecent
  <2>3. host.steady <= event'.detected /\ event'.seen = at
    BY <2>1, <2>2, ObservedRow, AttentionAssumption
       DEF AttentionInv, AttentionTypeOK, WindowIsSteady, Time, Severity
  <2>4. CASE event.severity = "WARNING" /\ sample[d].what = "CRITICAL"
    <3>1. HoldOf = 0
      BY <2>4 DEF HoldOf, Levels, Absent, AttentionInv, AttentionTypeOK
    <3> QED
      BY <2>2, <2>3, <3>1, AttentionAssumption DEF AttentionInv, AttentionTypeOK, Time
  <2>5. CASE at >= event'.detected + HoldOf
    <3>1. HoldOf \in Nat /\ event'.detected \in Nat /\ host.steady \in Nat /\ at \in Nat
      BY <2>1, <2>2, ObservedRow, AttentionAssumption
         DEF HoldOf, AttentionInv, AttentionTypeOK, Time
    <3> QED
      BY <2>3, <2>5, <3>1
  <2> QED
    BY <2>1, <2>2, <2>4, <2>5, ObservedRow DEF AttentionInv
<1>2. AttentionSpec => []AttentionInv
  <2>1. AttentionInv /\ [AttentionNext]_attentionVars => AttentionInv'
    BY InvStays
  <2> QED
    BY InvStarts, <2>1, PTL DEF AttentionSpec
<1> QED
  BY <1>1, <1>2, PTL DEF AttentionSpec, AttentionIsSustained
=============================================================================
