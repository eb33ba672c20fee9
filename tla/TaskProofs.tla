----------------------------- MODULE TaskProofs -----------------------------
(***************************************************************************)
(* The row of a task: what every change of it obeys (TaskLifecycle), and   *)
(* how an item of an outside system becomes one and stays in step with it  *)
(* (Intake), the Team it belongs to (Teams), and what the turns of its     *)
(* Developer are told of it (Sessions). Each part is proved for itself.    *)
(***************************************************************************)
EXTENDS TaskLifecycle, Intake, Teams, Sessions, LifecycleProofs, SequenceTheorems

-----------------------------------------------------------------------------
(***************************************************************************)
(* TaskLifecycle. The contract of a task holds for any number of           *)
(* transitions and any number of requirement revisions.                    *)
(***************************************************************************)
(* ConsistentState and OnlyValidatedAdvance are inductive together with the  *)
(* type: __post_init__ ties COMPLETE to MERGED, so that no paused or blocked *)
(* row can be resumed at COMPLETE.                                          *)
ContractInv == LifecycleTypeOK /\ ConsistentState /\ OnlyValidatedAdvance

LEMMA StepKeepsContract ==
  ASSUME ContractInv, NEW a \in Action, NEW reason \in WaitReason, Step(a, reason)
  PROVE  ContractInv'
<1> USE DEF ContractInv, LifecycleTypeOK
<1>1. state' \in EngineeringState /\ ConsistentState'
  BY TransitionConsistent DEF Step, ConsistentState
<1>2. enrolled' \in BOOLEAN /\ validated' \in Nat
  BY DEF Step, EngineeringState
<1>3. OnlyValidatedAdvance'
  BY TransitionDelivers DEF Step, OnlyValidatedAdvance, Delivering
<1> QED BY <1>1, <1>2, <1>3

LEMMA TwoStepsKeepContract ==
  ASSUME ContractInv, NEW p \in Together, NEW reason \in WaitReason,
         TwoSteps(p[1], p[2], reason)
  PROVE  ContractInv'
<1> USE DEF ContractInv, LifecycleTypeOK
<1> DEFINE between == Transition(state, p[1], "NONE", FALSE)
<1>1. /\ p[1] \in Action /\ p[2] \in Action /\ "NONE" \in WaitReason
      /\ p[1] # "VALIDATION_PASSED" /\ p[2] # "VALIDATION_PASSED"
  BY DEF Together, Action, StepAction, WaitReason
<1>2. /\ Permits(state, p[1], "NONE") /\ Permits(between, p[2], reason)
      /\ state' = Transition(between, p[2], reason, FALSE)
      /\ enrolled' = enrolled /\ validated' = validated
  BY DEF TwoSteps
<1>3. between \in EngineeringState /\ Consistent(between)
  BY <1>1, <1>2, TransitionConsistent DEF ConsistentState
<1>4. state' \in EngineeringState /\ Consistent(state')
  BY <1>1, <1>2, <1>3, TransitionConsistent
<1>5. state'.stage \in Delivering =>
        /\ state'.req = between.req
        /\ between.stage \in Delivering
  BY <1>1, <1>2, <1>3, TransitionDelivers
<1>6. between.stage \in Delivering => between.req = state.req /\ state.stage \in Delivering
  BY <1>1, <1>2, TransitionDelivers
<1>7. OnlyValidatedAdvance'
  BY <1>2, <1>5, <1>6 DEF OnlyValidatedAdvance, Delivering
<1> QED BY <1>2, <1>4, <1>7 DEF ConsistentState

(* Whatever sequence of transitions, paired transitions and enrollment a     *)
(* task goes through, transition() leaves a row that __post_init__ accepts,   *)
(* and publication, review and merge belong to the requirement version that  *)
(* passed validation.                                                       *)
THEOREM ContractHolds ==
  Spec => [](LifecycleTypeOK /\ ConsistentState /\ OnlyValidatedAdvance)
<1>1. Init => ContractInv
  <2> SUFFICES ASSUME Init PROVE ContractInv
    OBVIOUS
  <2>1. LifecycleTypeOK
    BY NewStateConsistent DEF Init, LifecycleTypeOK
  <2>2. ConsistentState
    BY NewStateConsistent DEF Init, ConsistentState
  <2>3. OnlyValidatedAdvance
    BY NewStateConsistent DEF Init, OnlyValidatedAdvance
  <2> QED BY <2>1, <2>2, <2>3 DEF ContractInv
<1>2. ContractInv /\ [Next]_lifecycleVars => ContractInv'
  <2> SUFFICES ASSUME ContractInv, [Next]_lifecycleVars
               PROVE  ContractInv'
    OBVIOUS
  <2>1. CASE \E a \in Action : \E reason \in ReasonsOf(a) : Step(a, reason)
    BY <2>1, StepKeepsContract DEF ReasonsOf, WaitReason
  <2>2. CASE \E p \in Together : \E reason \in ReasonsOf(p[2]) :
               TwoSteps(p[1], p[2], reason)
    BY <2>2, TwoStepsKeepContract DEF ReasonsOf, WaitReason
  <2>3. CASE EnrollTask
    BY <2>3 DEF EnrollTask, ContractInv, LifecycleTypeOK, ConsistentState,
                OnlyValidatedAdvance, EngineeringState, TaskStatus, Stage, WaitReason,
                Consistent
  <2>4. CASE UNCHANGED lifecycleVars
    BY <2>4 DEF lifecycleVars, ContractInv, LifecycleTypeOK, ConsistentState,
                OnlyValidatedAdvance
  <2> QED BY <2>1, <2>2, <2>3, <2>4 DEF Next
<1> QED BY <1>1, <1>2, PTL DEF Spec, ContractInv

-----------------------------------------------------------------------------
(***************************************************************************)
(* Intake. For any number of replicas, events and polls. What a replica    *)
(* read of the task without a lock may be old when it commits: the         *)
(* invariant says what of it still holds (ViewOK), and that a delivery and *)
(* a status update are in one replica's hands at a time (HandsOK).         *)
(***************************************************************************)
Text  == 0..Literal
Shots == Lists \cup {NoList}
View  == [rows : Nat, version : Nat, text : Text, shot : Shots, over : BOOLEAN]
Item  == [text : 0..MaxText, list : Lists, gone : BOOLEAN]
Hand  ==
  {AtRest} \cup [pc : {"handling"}, row : Nat, seen : View]
    \cup [pc : {"failing"}, row : Nat]
    \cup [pc : {"listed"}, found : BOOLEAN, got : Item]
    \cup [pc : {"loaded"}, found : BOOLEAN, got : Item, seen : View]
    \cup [pc : {"moving", "moved"}, to : Lists]

Moving(c)   == hands[c].pc \in {"moving", "moved"}
Handling(c) == hands[c].pc = "handling"
Failing(c)  == hands[c].pc = "failing"

OutsideOK ==
  /\ provider \in Providers /\ item \in Item
  /\ events \in Seq(Event) /\ Len(events) <= MaxEvents

(* An item without a task has no status to show either.                     *)
TaskOK ==
  /\ task \in TaskRow /\ Consistent(task.state)
  /\ task.rows <= 1
  /\ task.rows = 0 => task = NoTask /\ sync = NoSync

SyncOK == sync \in SyncRow /\ (sync.status = "PENDING" => sync.attempts < MaxSyncAttempts)

(* A delivery is of an event its provider reported, and of no other row's.   *)
InboxOK ==
  /\ inbox \in Seq(Delivery)
  /\ \A r \in 1..Len(inbox) : inbox[r].event \in 1..Len(events)
  /\ \A q, r \in 1..Len(inbox) : inbox[q].event = inbox[r].event => q = r

(* A comment was told once its delivery was settled, and once only.         *)
ToldOK ==
  /\ told \in [1..MaxEvents -> Nat]
  /\ \A e \in 1..MaxEvents :
       /\ told[e] <= 1
       /\ told[e] = 1 => \E r \in 1..Len(inbox) : inbox[r].event = e /\ inbox[r].status # "RECEIVED"

(* What a replica read of the task may be old, but a task that was over is   *)
(* still over, and at the same version it is as it was seen.                *)
ViewOK(seen) ==
  /\ seen.rows <= task.rows /\ seen.version <= task.version
  /\ seen.over => Terminated(task)
  /\ seen.version = task.version /\ Terminated(task) => seen.over

HandsOK ==
  /\ hands \in [Controllers -> Hand]
  /\ \A c \in Controllers :
       /\ Handling(c) => /\ hands[c].row \in 1..Len(inbox)
                         /\ inbox[hands[c].row].status = "RECEIVED"
       /\ Failing(c) => hands[c].row \in 1..Len(inbox)
       /\ hands[c].pc \in {"handling", "loaded"} => ViewOK(hands[c].seen)
       /\ Moving(c) => sync.status = "PENDING"
  /\ \A c, d \in Controllers :
       /\ Moving(c) /\ Moving(d) => c = d
       /\ Handling(c) /\ Handling(d) /\ hands[c].row = hands[d].row => c = d

IntakeInv == jammed \in BOOLEAN /\ OutsideOK /\ TaskOK /\ SyncOK /\ InboxOK /\ ToldOK /\ HandsOK

(* The body of ChangedTextStopsWork.                                        *)
TextStops ==
  task.rows > 0 /\ task'.text # task.text /\ ~ Terminated(task') =>
    /\ task'.state.status = "PAUSED"
    /\ task'.state.req > task.state.req
    /\ sync'.wanted = "paused" /\ sync'.status \in {"PENDING", "SYNCED"}

-----------------------------------------------------------------------------
(* What a transaction does to the task.                                     *)
LEMMA LiteralType == Literal \in Nat /\ MaxText \in Nat /\ 0..MaxText \subseteq Text
BY IntakeAssumption DEF Literal, Text

LEMMA SteppedOK ==
  ASSUME NEW t \in TaskRow, Consistent(t.state),
         NEW a \in Action, Permits(t.state, a, "MISSING_CONFIGURATION")
  PROVE  /\ Stepped(t, a) \in TaskRow
         /\ Consistent(Stepped(t, a).state)
         /\ Stepped(t, a).state = Transition(t.state, a, "MISSING_CONFIGURATION", FALSE)
         /\ Stepped(t, a).version = t.version + 1
         /\ Stepped(t, a).rows = t.rows /\ Stepped(t, a).text = t.text
         /\ Stepped(t, a).shot = t.shot
<1> DEFINE s == Transition(t.state, a, "MISSING_CONFIGURATION", FALSE)
<1>1. "MISSING_CONFIGURATION" \in WaitReason /\ t.state \in EngineeringState
  BY DEF WaitReason, TaskRow
<1>2. s \in EngineeringState /\ Consistent(s)
  BY <1>1, TransitionConsistent
<1>3. Stepped(t, a) = [t EXCEPT !.state = s, !.version = t.version + 1]
  BY DEF Stepped, TaskRow
<1> HIDE DEF s
<1>4. t.version + 1 \in Nat
  BY DEF TaskRow
<1> QED
  BY <1>2, <1>3, <1>4 DEF TaskRow, s

(* A task under way is paused, then revised.                                *)
LEMMA RevisedOK ==
  ASSUME NEW t \in TaskRow, Consistent(t.state), NEW text \in Text
  PROVE  /\ Revised(t, text) \in TaskRow /\ Consistent(Revised(t, text).state)
         /\ Revised(t, text).rows = t.rows /\ Revised(t, text).shot = t.shot
         /\ Revised(t, text).text = text
         /\ IF text = t.text \/ Terminated(t)
            THEN Revised(t, text).version = t.version /\ Revised(t, text).state = t.state
            ELSE /\ Revised(t, text).version = t.version + 2
                 /\ Revised(t, text).state.status = "PAUSED"
                 /\ Revised(t, text).state.req = t.state.req + 1
<1>1. CASE text = t.text \/ Terminated(t)
  <2>1. Revised(t, text) = [t EXCEPT !.text = text]
    BY <1>1 DEF Revised
  <2> QED
    BY <1>1, <2>1 DEF TaskRow, Text
<1>2. CASE ~ (text = t.text \/ Terminated(t))
  <2> DEFINE p == Stepped(t, "PAUSE")
             u == Stepped(p, "REVISE_REQUIREMENT")
  <2>1. "PAUSE" \in Action /\ "REVISE_REQUIREMENT" \in Action
    BY DEF Action
  <2>2. Permits(t.state, "PAUSE", "MISSING_CONFIGURATION")
    BY <1>2 DEF Permits, Terminated
  <2>3. /\ p \in TaskRow /\ Consistent(p.state)
        /\ p.state = PauseState(t.state, t.state.takeover)
        /\ p.version = t.version + 1 /\ p.rows = t.rows /\ p.shot = t.shot
    <3>1. Transition(t.state, "PAUSE", "MISSING_CONFIGURATION", FALSE)
            = PauseState(t.state, t.state.takeover)
      BY DEF Transition, StepAction
    <3> QED BY <2>1, <2>2, <3>1, SteppedOK
  <2>4. p.state.status = "PAUSED" /\ p.state.req = t.state.req
    BY <2>3 DEF PauseState, TaskRow, EngineeringState
  <2> HIDE DEF p
  <2>5. Permits(p.state, "REVISE_REQUIREMENT", "MISSING_CONFIGURATION")
    BY <2>4 DEF Permits, Terminal
  <2>6. /\ u \in TaskRow /\ Consistent(u.state)
        /\ u.state = ReviseState(p.state)
        /\ u.version = p.version + 1 /\ u.rows = p.rows /\ u.shot = p.shot
    <3>1. Transition(p.state, "REVISE_REQUIREMENT", "MISSING_CONFIGURATION", FALSE)
            = ReviseState(p.state)
      BY DEF Transition, StepAction
    <3> QED BY <2>1, <2>3, <2>5, <3>1, SteppedOK
  <2>7. u.state.status = "PAUSED" /\ u.state.req = t.state.req + 1
    BY <2>3, <2>4, <2>6 DEF ReviseState, TaskRow, EngineeringState
  <2>8. Revised(t, text) = [u EXCEPT !.text = text]
    BY <1>2 DEF Revised, p
  <2> HIDE DEF u
  <2>9. u.version = t.version + 2
    BY <2>3, <2>6 DEF TaskRow
  <2> QED
    BY <1>2, <2>3, <2>6, <2>7, <2>8, <2>9 DEF TaskRow, Text
<1> QED BY <1>1, <1>2

(* The one task that is made for the item.                                  *)
LEMMA CreatedOK ==
  ASSUME TaskOK, task.rows = 0, NEW text \in Text, NEW list \in Shots,
         NEW u \in Created(text, list)
  PROVE  u \in TaskRow /\ Consistent(u.state) /\ u.rows = 1 /\ u.version = 1
<1> DEFINE new == [rows |-> 1, state |-> NewState, version |-> 0, text |-> text, shot |-> list]
<1>1. u \in {[new EXCEPT !.version = 1], Stepped(new, "BLOCK")}
  BY DEF Created
<1>2. new \in TaskRow /\ Consistent(new.state) /\ new.rows = 1 /\ new.version = 0
  BY NewStateConsistent DEF TaskRow, Text, Shots
<1>3. Permits(new.state, "BLOCK", "MISSING_CONFIGURATION")
  BY DEF Permits, NewState, Terminal
<1>4. "BLOCK" \in Action
  BY DEF Action
<1> HIDE DEF new
<1>5. CASE u = [new EXCEPT !.version = 1]
  BY <1>2, <1>5 DEF TaskRow
<1>6. CASE u = Stepped(new, "BLOCK")
  <2>1. /\ u \in TaskRow /\ Consistent(u.state)
        /\ u.version = new.version + 1 /\ u.rows = new.rows
    BY <1>2, <1>3, <1>4, <1>6, SteppedOK
  <2> QED BY <1>2, <2>1
<1> QED BY <1>1, <1>5, <1>6

(* The status row asks for the status of the state it was given.            *)
LEMMA EnqueueOK ==
  ASSUME SyncOK, NEW s \in EngineeringState
  PROVE  /\ Enqueue(sync, s) \in SyncRow
         /\ Enqueue(sync, s).wanted = SemanticStatus(s)
         /\ Enqueue(sync, s).status \in {"PENDING", "SYNCED"}
         /\ Enqueue(sync, s).status = "PENDING" => Enqueue(sync, s).attempts < MaxSyncAttempts
         /\ sync.status = "PENDING" => Enqueue(sync, s).status = "PENDING"
<1>1. SemanticStatus(s) \in Semantic
  BY DEF SemanticStatus, Semantic
<1> DEFINE wanted == SemanticStatus(s)
           new == [wanted |-> wanted, attempts |-> 0, status |-> "PENDING"]
<1>2. Enqueue(sync, s) = IF sync.wanted = wanted /\ sync.status \in {"PENDING", "SYNCED"}
                         THEN sync ELSE new
  BY DEF Enqueue
<1> HIDE DEF wanted
<1>3. new \in SyncRow /\ new.attempts < MaxSyncAttempts
  BY <1>1, IntakeAssumption DEF SyncRow, wanted
<1> QED
  BY <1>2, <1>3 DEF SyncOK, wanted

(* How the task may have changed since it was read.                         *)
Advances ==
  \/ task'.rows = task.rows /\ task'.version = task.version /\ task'.state = task.state
  \/ task'.rows = task.rows /\ task'.version > task.version /\ ~ Terminated(task)
  \/ task.rows = 0 /\ task'.rows = 1 /\ task'.version = 1

ViewsKeep == \A v \in View : ViewOK(v) => ViewOK(v)'

LEMMA AdvancesKeepsViews ==
  ASSUME TaskOK, TaskOK', Advances
  PROVE  ViewsKeep
<1> SUFFICES ASSUME NEW v \in View, ViewOK(v)
             PROVE  ViewOK(v)'
  BY DEF ViewsKeep
<1>1. /\ v.rows \in Nat /\ v.version \in Nat /\ v.over \in BOOLEAN
      /\ task.rows \in Nat /\ task.version \in Nat
      /\ task'.rows \in Nat /\ task'.version \in Nat
  BY DEF View, TaskOK, TaskRow
<1>2. CASE task'.rows = task.rows /\ task'.version = task.version /\ task'.state = task.state
  BY <1>2 DEF ViewOK, Terminated
<1>3. CASE task'.rows = task.rows /\ task'.version > task.version /\ ~ Terminated(task)
  BY <1>1, <1>3 DEF ViewOK
<1>4. CASE task.rows = 0 /\ task'.rows = 1 /\ task'.version = 1
  <2>1. task.version = 0 /\ ~ Terminated(task)
    BY <1>4 DEF TaskOK, NoTask, NewState, Terminated, Terminal
  <2> QED
    BY <1>1, <1>4, <2>1 DEF ViewOK
<1> QED BY <1>2, <1>3, <1>4 DEF Advances

(* What a step may do to the task and its status row.                       *)
TaskStep ==
  /\ TaskOK' /\ SyncOK' /\ Advances /\ TextStops
  /\ sync.status = "PENDING" => sync'.status = "PENDING"

LEMMA NoTaskStep ==
  ASSUME IntakeInv, UNCHANGED <<task, sync>>
  PROVE  TaskStep
BY DEF TaskStep, IntakeInv, TaskOK, SyncOK, Advances, TextStops

(* A transition of the task, which its status row follows.                  *)
LEMMA MovesTask ==
  ASSUME IntakeInv, task.rows > 0, NEW a \in Action,
         Permits(task.state, a, "MISSING_CONFIGURATION"),
         task' = Stepped(task, a), sync' = Enqueue(sync, task'.state)
  PROVE  TaskStep
<1>1. task \in TaskRow /\ Consistent(task.state) /\ task.rows = 1 /\ SyncOK
  BY DEF IntakeInv, TaskOK, TaskRow
<1>2. /\ task' \in TaskRow /\ Consistent(task'.state) /\ task'.version = task.version + 1
      /\ task'.rows = 1 /\ task'.text = task.text
  BY <1>1, SteppedOK
<1>3. /\ sync' \in SyncRow
      /\ sync'.status = "PENDING" => sync'.attempts < MaxSyncAttempts
      /\ sync.status = "PENDING" => sync'.status = "PENDING"
  BY <1>1, <1>2, EnqueueOK DEF TaskRow
<1>4. ~ Terminated(task) /\ task.version \in Nat
  BY <1>1 DEF Permits, Terminated, TaskRow
<1> QED
  BY <1>1, <1>2, <1>3, <1>4 DEF TaskStep, TaskOK, SyncOK, Advances, TextStops

LEMMA MakesTask ==
  ASSUME IntakeInv, task.rows = 0, NEW text \in Text, NEW list \in Shots,
         task' \in Created(text, list), sync' = Enqueue(sync, task'.state)
  PROVE  TaskStep
<1>1. TaskOK /\ SyncOK
  BY DEF IntakeInv
<1>2. task' \in TaskRow /\ Consistent(task'.state) /\ task'.rows = 1 /\ task'.version = 1
  BY <1>1, CreatedOK
<1>3. /\ sync' \in SyncRow
      /\ sync'.status = "PENDING" => sync'.attempts < MaxSyncAttempts
      /\ sync.status = "PENDING" => sync'.status = "PENDING"
  BY <1>1, <1>2, EnqueueOK DEF TaskRow
<1> QED
  BY <1>2, <1>3 DEF TaskStep, TaskOK, SyncOK, Advances, TextStops

(* The text of an event or a poll is written over the one that was read.     *)
LEMMA UpdatesTask ==
  ASSUME IntakeInv, NEW seen \in View, ViewOK(seen), seen.rows > 0,
         NEW text \in Text, NEW list \in Lists,
         ~ (Material(seen, text) /\ Conflicts(seen)), Updates(seen, text, list)
  PROVE  TaskStep
<1>1. task \in TaskRow /\ Consistent(task.state) /\ task.rows = 1 /\ SyncOK
  BY DEF IntakeInv, TaskOK, TaskRow, ViewOK, View
<1> DEFINE u == IF Material(seen, text) THEN Revised(task, text) ELSE task
<1>2. /\ u \in TaskRow /\ Consistent(u.state) /\ u.rows = 1
      /\ IF Material(seen, text) /\ text # task.text /\ ~ Terminated(task)
         THEN /\ u.version = task.version + 2 /\ u.state.status = "PAUSED"
              /\ u.state.req = task.state.req + 1
         ELSE u.version = task.version /\ u.state = task.state
  BY <1>1, RevisedOK
<1>3. task' = Written(u, seen, text, list)
  BY DEF Updates
<1>4. Material(seen, text) => u.text = text
  BY <1>1, RevisedOK
<1>5. ~ Material(seen, text) => u.text = task.text
  OBVIOUS
<1> HIDE DEF u
<1>6. /\ task' \in TaskRow /\ task'.state = u.state /\ task'.version = u.version
      /\ task'.rows = u.rows
      /\ task'.text = IF text = seen.text THEN u.text ELSE text
  BY <1>2, <1>3 DEF Written, TaskRow, Text, Shots
<1>7. /\ sync' \in SyncRow
      /\ sync'.status = "PENDING" => sync'.attempts < MaxSyncAttempts
      /\ sync.status = "PENDING" => sync'.status = "PENDING"
      /\ Material(seen, text) => /\ sync'.wanted = SemanticStatus(task'.state)
                                 /\ sync'.status \in {"PENDING", "SYNCED"}
  <2>1. CASE Material(seen, text)
    BY <1>1, <1>6, <2>1, EnqueueOK DEF Updates, TaskRow
  <2>2. CASE ~ Material(seen, text)
    BY <1>1, <2>2 DEF Updates, SyncOK
  <2> QED BY <2>1, <2>2
<1>8. TextStops
  <2> SUFFICES ASSUME task'.text # task.text, ~ Terminated(task')
               PROVE  /\ task'.state.status = "PAUSED"
                      /\ task'.state.req > task.state.req
                      /\ sync'.wanted = "paused" /\ sync'.status \in {"PENDING", "SYNCED"}
    BY DEF TextStops
  <2>1. ~ Terminated(task)
    BY <1>2, <1>6 DEF Terminated, Terminal
  <2>2. Material(seen, text)
    BY <1>5, <1>6, <2>1 DEF Material, ViewOK
  <2>3. text # task.text
    BY <1>4, <1>6, <2>2
  <2>4. task'.state.status = "PAUSED" /\ task'.state.req = task.state.req + 1
    BY <1>2, <1>6, <2>1, <2>2, <2>3
  <2>5. SemanticStatus(task'.state) = "paused"
    BY <2>4 DEF SemanticStatus
  <2>6. task.state.req \in Nat
    BY <1>1 DEF TaskRow, EngineeringState
  <2> QED
    BY <1>7, <2>2, <2>4, <2>5, <2>6
<1>9. Advances
  <2>1. task.version \in Nat
    BY <1>1 DEF TaskRow
  <2> QED BY <1>1, <1>2, <1>6, <2>1 DEF Advances
<1>10. TaskOK' /\ SyncOK'
  BY <1>2, <1>6, <1>7 DEF TaskOK, SyncOK
<1> QED
  BY <1>7, <1>8, <1>9, <1>10 DEF TaskStep

-----------------------------------------------------------------------------
(* What a transaction does to its delivery.                                 *)
Settles(r, row) ==
  /\ row \in Delivery /\ row.event = inbox[r].event
  /\ inbox' = [inbox EXCEPT ![r] = row]

LEMMA SettleOK ==
  ASSUME InboxOK, NEW c \in Controllers, hands[c].row \in 1..Len(inbox),
         NEW status \in {"PROCESSED", "IGNORED", "FAILED"}, Settle(c, status)
  PROVE  \E row \in Delivery : Settles(hands[c].row, row) /\ row.status = status
<1> DEFINE r == hands[c].row
           row == [inbox[r] EXCEPT !.status = status, !.attempts = @ + 1]
<1>1. inbox \in Seq(Delivery) /\ inbox[r] \in Delivery
  BY DEF InboxOK
<1>2. row \in Delivery /\ row.event = inbox[r].event /\ row.status = status
  <2>1. inbox[r].attempts + 1 \in Nat
    BY <1>1 DEF Delivery
  <2>2. row = [inbox[r] EXCEPT !.status = status, !.attempts = inbox[r].attempts + 1]
    BY <1>1 DEF Delivery
  <2> QED BY <1>1, <2>1, <2>2 DEF Delivery
<1>3. inbox' = [inbox EXCEPT ![r] = row]
  BY <1>1 DEF Settle
<1> QED BY <1>2, <1>3 DEF Settles

(* No row but the one a replica holds changes.                              *)
LEMMA SettlesKeepsInbox ==
  ASSUME IntakeInv, NEW r \in 1..Len(inbox), NEW row \in Delivery, Settles(r, row),
         UNCHANGED events
  PROVE  /\ InboxOK'
         /\ Len(inbox') = Len(inbox) /\ inbox'[r] = row
         /\ \A q \in 1..Len(inbox) : q # r => inbox'[q] = inbox[q]
<1>1. inbox \in Seq(Delivery)
  BY DEF IntakeInv, InboxOK
<1>2. /\ inbox' \in Seq(Delivery) /\ Len(inbox') = Len(inbox)
      /\ \A q \in 1..Len(inbox) : inbox'[q] = IF q = r THEN row ELSE inbox[q]
  BY <1>1, ExceptSeq DEF Settles
<1>3. \A q \in 1..Len(inbox) : inbox'[q].event = inbox[q].event
  BY <1>2 DEF Settles
<1>4. InboxOK'
  BY <1>2, <1>3 DEF IntakeInv, InboxOK, Settles
<1> QED BY <1>2, <1>4

(* What was told stays told, while the deliveries that tell it stay settled.  *)
LEMMA ToldStays ==
  ASSUME IntakeInv, UNCHANGED told, Len(inbox) \in Nat, Len(inbox') \in Nat,
         Len(inbox') >= Len(inbox),
         \A q \in 1..Len(inbox) :
           inbox'[q].event = inbox[q].event
           /\ (inbox[q].status # "RECEIVED" => inbox'[q].status # "RECEIVED")
  PROVE  ToldOK'
<1> SUFFICES ASSUME NEW e \in 1..MaxEvents, told[e] = 1
             PROVE  \E q \in 1..Len(inbox') : inbox'[q].event = e /\ inbox'[q].status # "RECEIVED"
  BY DEF IntakeInv, ToldOK
<1>1. PICK q \in 1..Len(inbox) : inbox[q].event = e /\ inbox[q].status # "RECEIVED"
  BY DEF IntakeInv, ToldOK
<1>2. q \in 1..Len(inbox') /\ inbox'[q].event = e /\ inbox'[q].status # "RECEIVED"
  BY <1>1
<1> QED BY <1>1, <1>2

-----------------------------------------------------------------------------
(* What replicas hold.                                                      *)
LEMMA HandTypes ==
  ASSUME IntakeInv, NEW c \in Controllers
  PROVE  /\ Handling(c) => hands[c].row \in 1..Len(inbox) /\ hands[c].seen \in View
         /\ Failing(c) => hands[c].row \in 1..Len(inbox)
         /\ hands[c].pc \in {"listed", "loaded"} => hands[c].got \in Item /\ hands[c].found \in BOOLEAN
         /\ hands[c].pc = "loaded" => hands[c].seen \in View
         /\ Moving(c) => hands[c].to \in Lists
<1>1. hands[c] \in Hand
  BY DEF IntakeInv, HandsOK
<1>2. CASE Handling(c)
  BY <1>1, <1>2 DEF Hand, AtRest, Handling, Moving, IntakeInv, HandsOK
<1>3. CASE hands[c].pc \in {"listed", "loaded"}
  <2>1. \/ hands[c] \in [pc : {"listed"}, found : BOOLEAN, got : Item]
        \/ hands[c] \in [pc : {"loaded"}, found : BOOLEAN, got : Item, seen : View]
    BY <1>1, <1>3 DEF Hand, AtRest
  <2> QED BY <1>3, <2>1 DEF Handling, Moving, Failing
<1>4. CASE Moving(c)
  <2>1. hands[c] \in [pc : {"moving", "moved"}, to : Lists]
    BY <1>1, <1>4 DEF Hand, AtRest, Moving
  <2> QED BY <2>1 DEF Handling, Moving, Failing
<1>5. Failing(c) => hands[c].row \in 1..Len(inbox)
  BY DEF IntakeInv, HandsOK
<1> QED BY <1>2, <1>3, <1>4, <1>5

(* The rows that the others work on, and the status that one of them moves,   *)
(* stay theirs.                                                             *)
OthersStay(S) ==
  /\ ViewsKeep
  /\ \A d \in S :
       /\ Handling(d) => /\ hands[d].row \in 1..Len(inbox')
                         /\ inbox'[hands[d].row].status = "RECEIVED"
       /\ Failing(d) => hands[d].row \in 1..Len(inbox')
       /\ Moving(d) => sync'.status = "PENDING"

LEMMA HandsStay ==
  ASSUME IntakeInv, UNCHANGED hands, OthersStay(Controllers)
  PROVE  HandsOK'
<1>1. ASSUME NEW d \in Controllers, hands[d].pc \in {"handling", "loaded"}
      PROVE  ViewOK(hands[d].seen)'
  <2>1. PICK v \in View : v = hands[d].seen
    BY <1>1, HandTypes DEF Handling
  <2>2. ViewOK(v)'
    BY <1>1, <2>1 DEF OthersStay, ViewsKeep, IntakeInv, HandsOK
  <2> QED BY <2>1, <2>2 DEF ViewOK
<1> QED BY <1>1 DEF OthersStay, IntakeInv, HandsOK, Handling, Failing, Moving

Holds(c, h) ==
  /\ h.pc = "handling" => /\ h.row \in 1..Len(inbox')
                          /\ inbox'[h.row].status = "RECEIVED"
                          /\ \A d \in Controllers \ {c} : Handling(d) => hands[d].row # h.row
  /\ h.pc = "failing" => h.row \in 1..Len(inbox')
  /\ h.pc \in {"handling", "loaded"} => h.seen \in View /\ ViewOK(h.seen)'
  /\ h.pc \in {"moving", "moved"} => /\ sync'.status = "PENDING"
                                     /\ \A d \in Controllers \ {c} : ~ Moving(d)

LEMMA HandTakes ==
  ASSUME IntakeInv, NEW c \in Controllers, NEW h \in Hand, Holds(c, h),
         hands' = [hands EXCEPT ![c] = h], OthersStay(Controllers \ {c})
  PROVE  HandsOK'
<1>1. /\ hands' \in [Controllers -> Hand] /\ hands'[c] = h
      /\ \A d \in Controllers \ {c} : hands'[d] = hands[d]
  BY DEF IntakeInv, HandsOK
<1>2. ASSUME NEW d \in Controllers, hands'[d].pc \in {"handling", "loaded"}
      PROVE  ViewOK(hands[d].seen)'
  <2>1. CASE d = c
    BY <1>1, <1>2, <2>1 DEF Holds, ViewOK
  <2>2. CASE d # c
    <3>1. PICK v \in View : v = hands[d].seen
      BY <1>1, <1>2, <2>2, HandTypes DEF Handling
    <3>2. ViewOK(v)'
      BY <1>1, <1>2, <2>2, <3>1 DEF OthersStay, ViewsKeep, IntakeInv, HandsOK
    <3> QED BY <1>1, <2>2, <3>1, <3>2 DEF ViewOK
  <2> QED BY <2>1, <2>2
<1>3. ASSUME NEW d \in Controllers
      PROVE  /\ Handling(d)' => /\ hands'[d].row \in 1..Len(inbox')
                                /\ inbox'[hands'[d].row].status = "RECEIVED"
             /\ Failing(d)' => hands'[d].row \in 1..Len(inbox')
             /\ Moving(d)' => sync'.status = "PENDING"
  BY <1>1 DEF Holds, OthersStay, Handling, Failing, Moving
<1>4. ASSUME NEW d \in Controllers, NEW x \in Controllers
      PROVE  /\ Moving(d)' /\ Moving(x)' => d = x
             /\ Handling(d)' /\ Handling(x)' /\ hands'[d].row = hands'[x].row => d = x
  BY <1>1 DEF Holds, Handling, Moving, IntakeInv, HandsOK
<1> QED BY <1>1, <1>2, <1>3, <1>4 DEF HandsOK

LEMMA AtRestHolds ==
  ASSUME NEW c \in Controllers
  PROVE  AtRest \in Hand /\ Holds(c, AtRest)
BY DEF AtRest, Hand, Holds

-----------------------------------------------------------------------------
(* Steps that touch neither the task nor a delivery.                        *)
LEMMA SameDeliveries ==
  ASSUME IntakeInv, UNCHANGED <<inbox, told>>, Len(events') >= Len(events),
         Len(events) \in Nat, Len(events') \in Nat
  PROVE  InboxOK' /\ ToldOK'
BY DEF IntakeInv, InboxOK, ToldOK

LEMMA SameOutside ==
  ASSUME IntakeInv, UNCHANGED <<provider, item, events>>
  PROVE  OutsideOK' /\ Len(events) \in Nat
BY DEF IntakeInv, OutsideOK

LEMMA SameRowsStay ==
  ASSUME IntakeInv, TaskStep, UNCHANGED inbox
  PROVE  OthersStay(Controllers)
<1>1. ViewsKeep
  BY AdvancesKeepsViews DEF IntakeInv, TaskStep
<1> QED
  BY <1>1 DEF OthersStay, TaskStep, IntakeInv, HandsOK

(* The provider.                                                            *)
LEMMA ReportInv ==
  ASSUME IntakeInv, NEW k \in {"text", "list", "sync", "gone", "comment"}, NEW it \in Item,
         Report(k, it)
  PROVE  IntakeInv' /\ TextStops
<1>1. Reported(k, it) \in Event
  BY DEF Reported, Event, Item
<1>2. /\ events \in Seq(Event) /\ Len(events) < MaxEvents /\ Len(events) \in Nat
      /\ events' = Append(events, Reported(k, it)) /\ item' = it
  BY DEF IntakeInv, OutsideOK, Report
<1>3. events' \in Seq(Event) /\ Len(events') = Len(events) + 1
  BY <1>1, <1>2, AppendProperties
<1>4. UNCHANGED <<provider, inbox, task, told, sync, hands, jammed>>
  BY DEF Report
<1>5. OutsideOK'
  BY <1>2, <1>3, <1>4, IntakeAssumption DEF IntakeInv, OutsideOK
<1>6. InboxOK' /\ ToldOK'
  BY <1>2, <1>3, <1>4, SameDeliveries
<1>7. TaskStep
  BY <1>4, NoTaskStep
<1>8. HandsOK'
  BY <1>4, <1>7, SameRowsStay, HandsStay
<1> QED BY <1>4, <1>5, <1>6, <1>7, <1>8 DEF IntakeInv, TaskStep

LEMMA ProviderInv ==
  ASSUME IntakeInv, EditItem \/ MoveItem \/ DropItem \/ Comment
  PROVE  IntakeInv' /\ TextStops
<1>1. item \in Item
  BY DEF IntakeInv, OutsideOK
<1>2. CASE EditItem
  <2>1. [item EXCEPT !.text = @ + 1] \in Item
    BY <1>1, <1>2, IntakeAssumption DEF EditItem, Item
  <2> QED BY <1>2, <2>1, ReportInv DEF EditItem
<1>3. CASE MoveItem
  <2>1. PICK l \in Lists : Report("list", [item EXCEPT !.list = l])
    BY <1>3 DEF MoveItem
  <2>2. [item EXCEPT !.list = l] \in Item
    BY <1>1 DEF Item
  <2> QED BY <2>1, <2>2, ReportInv
<1>4. CASE DropItem
  <2>1. [item EXCEPT !.gone = TRUE] \in Item
    BY <1>1 DEF Item
  <2> QED BY <1>4, <2>1, ReportInv DEF DropItem
<1>5. CASE Comment
  BY <1>1, <1>5, ReportInv DEF Comment
<1> QED BY <1>2, <1>3, <1>4, <1>5

(* A step that changes the task, at most, and nothing a replica holds.      *)
LEMMA WorkInv ==
  ASSUME IntakeInv, NEW a \in {"START", "PAUSE", "RESUME", "TAKEOVER"}, Work(a)
  PROVE  IntakeInv' /\ TextStops
<1>1. a \in Action /\ Permits(task.state, a, "MISSING_CONFIGURATION")
  BY DEF Work, Permits, Action, StepAction
<1>2. TaskStep
  BY <1>1, MovesTask DEF Work
<1>3. UNCHANGED <<provider, item, events, inbox, told, hands, jammed>>
  BY DEF Work
<1>4. OutsideOK' /\ InboxOK' /\ ToldOK'
  BY <1>3, SameOutside, SameDeliveries
<1>5. HandsOK'
  BY <1>2, <1>3, SameRowsStay, HandsStay
<1> QED BY <1>2, <1>3, <1>4, <1>5 DEF IntakeInv, TaskStep

LEMMA TickInv ==
  ASSUME IntakeInv, Tick \/ UNCHANGED intakeVars
  PROVE  IntakeInv' /\ TextStops
<1>1. UNCHANGED <<provider, item, events, inbox, task, told, sync, hands, jammed>>
  BY DEF Tick, intakeVars
<1>2. TaskStep
  BY <1>1, NoTaskStep
<1>3. OutsideOK' /\ InboxOK' /\ ToldOK'
  BY <1>1, SameOutside, SameDeliveries
<1>4. HandsOK'
  BY <1>1, <1>2, SameRowsStay, HandsStay
<1> QED BY <1>1, <1>2, <1>3, <1>4 DEF IntakeInv, TaskStep

(* A delivery arrives.                                                      *)
LEMMA IngestInv ==
  ASSUME IntakeInv, NEW e \in 1..MaxEvents, Ingest(e)
  PROVE  IntakeInv' /\ TextStops
<1> DEFINE row == [event |-> e, status |-> "RECEIVED", attempts |-> 0]
<1>1. row \in Delivery
  BY DEF Delivery
<1>2. /\ inbox \in Seq(Delivery) /\ Len(inbox) \in Nat
      /\ inbox' = Append(inbox, row) /\ e \in 1..Len(events)
      /\ \A r \in 1..Len(inbox) : inbox[r].event # e
      /\ UNCHANGED <<provider, item, events, task, told, sync, hands, jammed>>
  BY DEF IntakeInv, InboxOK, Ingest
<1>3. row.event = e /\ row.status = "RECEIVED"
  OBVIOUS
<1> HIDE DEF row
<1>4. /\ inbox' \in Seq(Delivery) /\ Len(inbox') = Len(inbox) + 1
      /\ \A r \in 1..Len(inbox) : inbox'[r] = inbox[r]
      /\ inbox'[Len(inbox) + 1] = row
  BY <1>1, <1>2, AppendProperties
<1>5. InboxOK'
  <2>1. \A r \in 1..Len(inbox') : r \in 1..Len(inbox) \/ r = Len(inbox) + 1
    BY <1>2, <1>4
  <2> QED BY <1>1, <1>2, <1>3, <1>4, <2>1 DEF IntakeInv, InboxOK
<1>6. ToldOK'
  BY <1>2, <1>4, ToldStays
<1>7. TaskStep
  BY <1>2, NoTaskStep
<1>8. OthersStay(Controllers)
  <2>1. ViewsKeep
    BY <1>7, AdvancesKeepsViews DEF IntakeInv, TaskStep
  <2> QED BY <1>2, <1>4, <2>1 DEF OthersStay, IntakeInv, HandsOK
<1>9. OutsideOK' /\ HandsOK'
  BY <1>2, <1>8, SameOutside, HandsStay
<1> QED BY <1>2, <1>5, <1>6, <1>7, <1>9 DEF IntakeInv, TaskStep

-----------------------------------------------------------------------------
(* Steps of one replica.                                                    *)
LEMMA SeenOK ==
  ASSUME IntakeInv
  PROVE  \E v \in View : v = Seen /\ ViewOK(v)
<1>1. task \in TaskRow /\ Terminated(task) \in BOOLEAN
  BY DEF IntakeInv, TaskOK, Terminated
<1>2. Seen \in View
  BY <1>1 DEF Seen, View, TaskRow, Text, Shots
<1>3. ViewOK(Seen)
  BY <1>1 DEF ViewOK, Seen, TaskRow
<1> QED BY <1>2, <1>3

(* It takes something up.                                                   *)
LEMMA TakesInv ==
  ASSUME IntakeInv, NEW c \in Controllers, NEW h \in Hand, Holds(c, h),
         hands' = [hands EXCEPT ![c] = h],
         UNCHANGED <<provider, item, events, inbox, task, told, sync, jammed>>
  PROVE  IntakeInv' /\ TextStops
<1>1. TaskStep
  BY NoTaskStep
<1>2. OutsideOK' /\ InboxOK' /\ ToldOK'
  BY SameOutside, SameDeliveries
<1>3. OthersStay(Controllers \ {c})
  BY <1>1, SameRowsStay DEF OthersStay
<1>4. HandsOK'
  BY <1>3, HandTakes
<1> QED BY <1>1, <1>2, <1>4 DEF IntakeInv, TaskStep

(* It lets go of what it held, or of most of it.                            *)
LEMMA LeavesInv ==
  ASSUME IntakeInv, NEW c \in Controllers, NEW h \in Hand, Holds(c, h),
         hands' = [hands EXCEPT ![c] = h], TaskStep,
         UNCHANGED <<provider, item, events, inbox, told, jammed>>
  PROVE  IntakeInv' /\ TextStops
<1>1. OutsideOK' /\ InboxOK' /\ ToldOK'
  BY SameOutside, SameDeliveries
<1>2. OthersStay(Controllers \ {c})
  BY SameRowsStay DEF OthersStay
<1>3. HandsOK'
  BY <1>2, HandTakes
<1> QED BY <1>1, <1>3 DEF IntakeInv, TaskStep

LEMMA RestsInv ==
  ASSUME IntakeInv, NEW c \in Controllers, Frees(c), TaskStep,
         UNCHANGED <<provider, item, events, inbox, told, jammed>>
  PROVE  IntakeInv' /\ TextStops
BY AtRestHolds, LeavesInv DEF Frees

LEMMA BeginInv ==
  ASSUME IntakeInv, NEW c \in Controllers, NEW r, Begin(c, r)
  PROVE  IntakeInv' /\ TextStops
<1>1. PICK v \in View : v = Seen /\ ViewOK(v)
  BY SeenOK
<1> DEFINE h == [pc |-> "handling", row |-> r, seen |-> v]
<1>2. /\ r \in 1..Len(inbox) /\ r \notin Held /\ inbox[r].status = "RECEIVED"
      /\ hands' = [hands EXCEPT ![c] = h]
      /\ UNCHANGED <<provider, item, events, inbox, task, told, sync, jammed>>
  BY <1>1 DEF Begin
<1>3. h \in Hand
  <2>1. Len(inbox) \in Nat
    BY DEF IntakeInv, InboxOK
  <2> QED BY <1>2, <2>1 DEF Hand
<1>4. Holds(c, h)
  <2>1. ViewOK(v)'
    BY <1>1, <1>2 DEF ViewOK, Terminated
  <2>2. \A d \in Controllers : Handling(d) => hands[d].row # r
    BY <1>2 DEF Held, Handling
  <2> QED BY <1>2, <2>1, <2>2 DEF Holds, ViewOK
<1> QED BY <1>2, <1>3, <1>4, TakesInv

LEMMA PollItemsInv ==
  ASSUME IntakeInv, NEW c \in Controllers, PollItems(c)
  PROVE  IntakeInv' /\ TextStops
<1> DEFINE h == [pc |-> "listed", found |-> Listed, got |-> item]
<1>1. h \in Hand /\ h.pc = "listed"
  BY DEF Hand, IntakeInv, OutsideOK, Listed
<1>2. /\ hands' = [hands EXCEPT ![c] = h]
      /\ UNCHANGED <<provider, item, events, inbox, task, told, sync, jammed>>
  BY DEF PollItems
<1> HIDE DEF h
<1>3. PICK g \in Hand : g = h
  BY <1>1
<1>4. Holds(c, g)
  BY <1>1, <1>3 DEF Holds
<1> QED BY <1>2, <1>3, <1>4, TakesInv

LEMMA LoadRowsInv ==
  ASSUME IntakeInv, NEW c \in Controllers, LoadRows(c)
  PROVE  IntakeInv' /\ TextStops
<1>1. PICK v \in View : v = Seen /\ ViewOK(v)
  BY SeenOK
<1>2. PICK found \in BOOLEAN, got \in Item : found = hands[c].found /\ got = hands[c].got
  BY HandTypes DEF LoadRows
<1> DEFINE h == [pc |-> "loaded", found |-> found, got |-> got, seen |-> v]
<1>3. /\ hands' = [hands EXCEPT ![c] = h]
      /\ UNCHANGED <<provider, item, events, inbox, task, told, sync, jammed>>
  BY <1>1, <1>2 DEF LoadRows, IntakeInv, HandsOK
<1>4. h \in Hand
  BY DEF Hand
<1>5. Holds(c, h)
  <2>1. ViewOK(v)'
    BY <1>1, <1>3 DEF ViewOK, Terminated
  <2> QED BY <2>1 DEF Holds, ViewOK
<1> QED BY <1>3, <1>4, <1>5, TakesInv

LEMMA ReconcileInv ==
  ASSUME IntakeInv, NEW c \in Controllers, Reconcile(c)
  PROVE  IntakeInv' /\ TextStops
<1>1. TaskStep
  <2>1. CASE UNCHANGED <<task, sync>>
    BY <2>1, NoTaskStep
  <2>2. ASSUME ~ UNCHANGED <<task, sync>>
        PROVE  TaskStep
    <3>1. PICK seen \in View, got \in Item : seen = hands[c].seen /\ got = hands[c].got
      BY HandTypes DEF Reconcile
    <3>2. ViewOK(seen) /\ Upserts(seen, got)
      BY <2>2, <3>1 DEF Reconcile, IntakeInv, HandsOK
    <3>3. got.text \in Text /\ got.list \in Lists /\ got.list \in Shots
      BY LiteralType DEF Item, Shots
    <3>4. CASE seen.rows = 0
      <4>1. task.rows \in Nat /\ ~ task.rows > 0
        BY <2>2, <3>2, <3>4 DEF Upserts, IntakeInv, TaskOK, TaskRow
      <4>2. task' \in Created(got.text, got.list) /\ sync' = Enqueue(sync, task'.state)
        BY <2>2, <3>2, <3>4 DEF Upserts
      <4> QED BY <3>3, <4>1, <4>2, MakesTask
    <3>5. CASE seen.rows # 0
      <4>1. seen.rows > 0
        BY <3>5 DEF View
      <4>2. /\ ~ (Material(seen, got.text) /\ Conflicts(seen))
            /\ Updates(seen, got.text, got.list)
        BY <2>2, <3>2, <3>5 DEF Upserts
      <4> QED BY <3>2, <3>3, <4>1, <4>2, UpdatesTask
    <3> QED BY <3>4, <3>5
  <2> QED BY <2>1, <2>2
<1> QED BY <1>1, RestsInv DEF Reconcile

LEMMA GivesUpInv ==
  ASSUME IntakeInv, NEW c \in Controllers, PollFails(c) \/ CrashIntake(c)
  PROVE  IntakeInv' /\ TextStops
<1>1. /\ Frees(c)
      /\ UNCHANGED <<provider, item, events, inbox, task, told, sync, jammed>>
  BY DEF PollFails, CrashIntake
<1> QED BY <1>1, NoTaskStep, RestsInv

-----------------------------------------------------------------------------
(* The tracker's list.                                                      *)
LEMMA MovesOK ==
  ASSUME SyncOK, sync.status = "PENDING", NEW ok \in BOOLEAN
  PROVE  /\ Moves(sync, ok) \in SyncRow
         /\ Moves(sync, ok).status = "PENDING" => Moves(sync, ok).attempts < MaxSyncAttempts
<1>1. sync.attempts + 1 \in 0..MaxSyncAttempts
  BY IntakeAssumption DEF SyncOK, SyncRow
<1>2. sync \in SyncRow /\ sync.attempts \in Nat
  BY IntakeAssumption DEF SyncOK, SyncRow
<1>3. CASE ok
  BY <1>1, <1>2, <1>3 DEF Moves, SyncRow
<1>4. CASE ~ ok /\ sync.attempts + 1 >= MaxSyncAttempts
  BY <1>1, <1>2, <1>4 DEF Moves, SyncRow
<1>5. CASE ~ ok /\ ~ sync.attempts + 1 >= MaxSyncAttempts
  <2>1. sync.attempts + 1 < MaxSyncAttempts
    BY <1>2, <1>5, IntakeAssumption
  <2> QED BY <1>1, <1>2, <1>5, <2>1 DEF Moves, SyncRow
<1> QED BY <1>3, <1>4, <1>5

(* The status of a task that exists is settled, nothing else of it changes.  *)
SyncStep ==
  /\ TaskOK' /\ SyncOK' /\ TextStops /\ Advances

LEMMA SyncStepKeeps ==
  ASSUME IntakeInv, sync.status = "PENDING",
         sync' \in SyncRow, sync'.status = "PENDING" => sync'.attempts < MaxSyncAttempts,
         NEW list \in Shots, task' = task \/ task' = [task EXCEPT !.shot = list]
  PROVE  SyncStep
<1>1. task \in TaskRow /\ Consistent(task.state) /\ task.rows <= 1 /\ task.rows # 0
  BY DEF IntakeInv, TaskOK, NoSync
<1>2. /\ task' \in TaskRow /\ task'.state = task.state /\ task'.rows = task.rows
      /\ task'.version = task.version /\ task'.text = task.text
  BY <1>1 DEF TaskRow, Shots
<1> QED
  BY <1>1, <1>2 DEF SyncStep, TaskOK, SyncOK, TextStops, Advances

LEMMA ClaimStatusInv ==
  ASSUME IntakeInv, NEW c \in Controllers, ClaimStatus(c)
  PROVE  IntakeInv' /\ TextStops
<1>1. /\ sync.status = "PENDING" /\ ~ TaskLocked /\ task' = task
      /\ UNCHANGED <<provider, item, events, inbox, told, jammed>>
  BY DEF ClaimStatus
<1>2. \A d \in Controllers : ~ Moving(d)
  BY <1>1 DEF TaskLocked, Moving
<1>3. CASE UNCHANGED hands
  <2>1. \/ sync' = [sync EXCEPT !.status = "NO_TRACKER"]
        \/ sync' = [sync EXCEPT !.status = "CONFIGURATION_REQUIRED"]
        \/ sync' = Moves(sync, TRUE)
        \/ UNCHANGED sync
    BY DEF ClaimStatus
  <2>2. sync' \in SyncRow /\ (sync'.status = "PENDING" => sync'.attempts < MaxSyncAttempts)
    <3>1. sync \in SyncRow /\ SyncOK
      BY DEF IntakeInv, SyncOK
    <3>2. CASE sync' = Moves(sync, TRUE)
      BY <1>1, <3>1, <3>2, MovesOK
    <3>3. CASE UNCHANGED sync
      BY <3>1, <3>3 DEF SyncOK
    <3>4. CASE \/ sync' = [sync EXCEPT !.status = "NO_TRACKER"]
               \/ sync' = [sync EXCEPT !.status = "CONFIGURATION_REQUIRED"]
      BY <3>1, <3>4 DEF SyncRow
    <3> QED BY <2>1, <3>2, <3>3, <3>4
  <2>3. SyncStep
    BY <1>1, <2>2, SyncStepKeeps DEF Shots
  <2>4. OthersStay(Controllers)
    BY <1>1, <1>2, <2>3, AdvancesKeepsViews DEF OthersStay, SyncStep, IntakeInv, HandsOK
  <2>5. OutsideOK' /\ InboxOK' /\ ToldOK'
    BY <1>1, SameOutside, SameDeliveries
  <2>6. HandsOK'
    BY <1>3, <2>4, HandsStay
  <2> QED BY <1>1, <2>3, <2>5, <2>6 DEF IntakeInv, SyncStep
<1>4. CASE ~ UNCHANGED hands
  <2>1. PICK to : to = Target[sync.wanted]
    OBVIOUS
  <2>2. /\ to # NoList /\ UNCHANGED sync
        /\ hands' = [hands EXCEPT ![c] = [pc |-> "moving", to |-> to]]
    BY <1>4, <2>1 DEF ClaimStatus
  <2>3. to \in Lists
    BY <2>1, <2>2, IntakeAssumption DEF IntakeInv, SyncOK, SyncRow
  <2>4. PICK h \in Hand : h = [pc |-> "moving", to |-> to]
    BY <2>3 DEF Hand
  <2>5. Holds(c, h)
    BY <1>1, <1>2, <2>2, <2>4 DEF Holds
  <2> QED BY <1>1, <2>2, <2>4, <2>5, TakesInv
<1> QED BY <1>3, <1>4

LEMMA MoveCardInv ==
  ASSUME IntakeInv, NEW c \in Controllers, MoveCard(c)
  PROVE  IntakeInv' /\ TextStops
<1>1. hands[c].pc = "moving" /\ Moving(c)
  BY DEF MoveCard, Moving
<1>2. PICK to \in Lists : to = hands[c].to
  BY <1>1, HandTypes
<1>3. PICK h \in Hand : h = [pc |-> "moved", to |-> to]
  BY DEF Hand
<1>4. /\ hands' = [hands EXCEPT ![c] = h]
      /\ UNCHANGED <<provider, inbox, task, told, sync, jammed>>
  <2>1. hands[c] \in Hand /\ hands \in [Controllers -> Hand]
    BY DEF IntakeInv, HandsOK
  <2>2. hands[c] \in [pc : {"moving", "moved"}, to : Lists]
    BY <1>1, <2>1 DEF Hand, AtRest
  <2>3. [hands[c] EXCEPT !.pc = "moved"] = h
    BY <1>2, <1>3, <2>2
  <2> QED BY <2>1, <2>3 DEF MoveCard
<1>5. item' \in Item
  <2>1. item \in Item
    BY DEF IntakeInv, OutsideOK
  <2> QED BY <1>2, <2>1 DEF MoveCard, Item
<1>6. /\ events' \in Seq(Event) /\ Len(events') <= MaxEvents
      /\ Len(events') >= Len(events) /\ Len(events) \in Nat /\ Len(events') \in Nat
  <2>1. events \in Seq(Event) /\ Len(events) <= MaxEvents /\ Len(events) \in Nat
    BY DEF IntakeInv, OutsideOK
  <2>2. CASE Len(events) < MaxEvents
    <3>1. PICK e \in Event : e = Reported("sync", item')
      BY <1>5 DEF Reported, Event, Item
    <3>2. events' = Append(events, e)
      BY <2>2, <3>1 DEF MoveCard
    <3>3. events' \in Seq(Event) /\ Len(events') = Len(events) + 1
      BY <2>1, <3>2, AppendProperties
    <3> QED BY <2>1, <2>2, <3>3, IntakeAssumption
  <2>3. CASE ~ Len(events) < MaxEvents
    BY <2>1, <2>3 DEF MoveCard
  <2> QED BY <2>2, <2>3
<1>7. OutsideOK'
  BY <1>4, <1>5, <1>6 DEF IntakeInv, OutsideOK
<1>8. InboxOK' /\ ToldOK'
  BY <1>4, <1>6, SameDeliveries
<1>9. TaskStep
  BY <1>4, NoTaskStep
<1>10. Holds(c, h)
  BY <1>1, <1>3, <1>4 DEF Holds, IntakeInv, HandsOK
<1>11. HandsOK'
  <2>1. OthersStay(Controllers \ {c})
    BY <1>4, <1>9, SameRowsStay DEF OthersStay
  <2> QED BY <1>4, <1>10, <2>1, HandTakes
<1> QED BY <1>4, <1>7, <1>8, <1>9, <1>11 DEF IntakeInv, TaskStep

LEMMA MoveEndsInv ==
  ASSUME IntakeInv, NEW c \in Controllers, Confirm(c) \/ MoveFails(c)
  PROVE  IntakeInv' /\ TextStops
<1>1. /\ Moving(c) /\ Frees(c)
      /\ UNCHANGED <<provider, item, events, inbox, told, jammed>>
  BY DEF Confirm, MoveFails, Moving
<1>2. PICK to \in Lists : to = hands[c].to
  BY <1>1, HandTypes
<1>3. /\ sync.status = "PENDING"
      /\ \A d \in Controllers \ {c} : ~ Moving(d)
  BY <1>1 DEF IntakeInv, HandsOK
<1>4. PICK ok \in BOOLEAN : sync' = Moves(sync, ok)
  BY DEF Confirm, MoveFails
<1>5. task' = task \/ task' = [task EXCEPT !.shot = to]
  BY <1>2 DEF Confirm, MoveFails
<1>6. SyncStep
  <2>1. SyncOK /\ to \in Shots
    BY DEF IntakeInv, Shots
  <2> QED BY <1>3, <1>4, <1>5, <2>1, MovesOK, SyncStepKeeps
<1>7. OthersStay(Controllers \ {c})
  BY <1>1, <1>3, <1>6, AdvancesKeepsViews DEF OthersStay, SyncStep, IntakeInv, HandsOK
<1>8. hands' = [hands EXCEPT ![c] = AtRest]
  BY <1>1 DEF Frees
<1>9. HandsOK'
  BY <1>7, <1>8, AtRestHolds, HandTakes
<1>10. OutsideOK' /\ InboxOK' /\ ToldOK'
  BY <1>1, SameOutside, SameDeliveries
<1> QED BY <1>1, <1>6, <1>9, <1>10 DEF IntakeInv, SyncStep

-----------------------------------------------------------------------------
(* A delivery is done with, or is left for another attempt.                  *)
LEMMA DeliveryEnds ==
  ASSUME IntakeInv, NEW c \in Controllers,
         \/ Handling(c)
         \/ Failing(c) /\ hands[c].row \notin Held,
         Frees(c), TaskStep, ToldOK',
         NEW row \in Delivery, Settles(hands[c].row, row),
         UNCHANGED <<provider, item, events, jammed>>
  PROVE  IntakeInv' /\ TextStops
<1>1. PICK r \in 1..Len(inbox) : r = hands[c].row
  BY DEF IntakeInv, HandsOK
<1>2. /\ InboxOK' /\ Len(inbox') = Len(inbox)
      /\ \A q \in 1..Len(inbox) : q # r => inbox'[q] = inbox[q]
  BY <1>1, SettlesKeepsInbox
<1>3. OthersStay(Controllers \ {c})
  <2>1. ViewsKeep
    BY AdvancesKeepsViews DEF IntakeInv, TaskStep
  <2>2. ASSUME NEW d \in Controllers \ {c}
        PROVE  /\ Handling(d) => /\ hands[d].row \in 1..Len(inbox')
                                 /\ inbox'[hands[d].row].status = "RECEIVED"
               /\ Failing(d) => hands[d].row \in 1..Len(inbox')
               /\ Moving(d) => sync'.status = "PENDING"
    <3>1. Handling(d) => hands[d].row \in 1..Len(inbox)
                         /\ inbox[hands[d].row].status = "RECEIVED"
      BY DEF IntakeInv, HandsOK
    <3>2. Handling(d) => hands[d].row # r
      <4>1. CASE Handling(c)
        BY <1>1, <4>1 DEF IntakeInv, HandsOK
      <4>2. CASE r \notin Held
        BY <4>2 DEF Held, Handling
      <4> QED BY <1>1, <4>1, <4>2
    <3>3. Failing(d) => hands[d].row \in 1..Len(inbox)
      BY HandTypes
    <3>4. Moving(d) => sync.status = "PENDING"
      BY DEF IntakeInv, HandsOK
    <3> QED BY <1>2, <3>1, <3>2, <3>3, <3>4 DEF TaskStep
  <2> QED BY <2>1, <2>2 DEF OthersStay
<1>4. HandsOK'
  BY <1>3, AtRestHolds, HandTakes DEF Frees
<1>5. OutsideOK'
  BY SameOutside
<1> QED BY <1>2, <1>4, <1>5 DEF IntakeInv, TaskStep

(* Nothing is told of it.                                                   *)
LEMMA QuietlyEnds ==
  ASSUME IntakeInv, NEW c \in Controllers,
         \/ Handling(c)
         \/ Failing(c) /\ hands[c].row \notin Held,
         Frees(c), TaskStep, NEW row \in Delivery, Settles(hands[c].row, row),
         row.status = "RECEIVED" => inbox[hands[c].row].status = "RECEIVED",
         UNCHANGED <<provider, item, events, told, jammed>>
  PROVE  IntakeInv' /\ TextStops
<1>1. PICK r \in 1..Len(inbox) : r = hands[c].row
  BY DEF IntakeInv, HandsOK
<1>2. /\ Len(inbox') = Len(inbox) /\ Len(inbox) \in Nat /\ inbox'[r] = row
      /\ \A q \in 1..Len(inbox) : q # r => inbox'[q] = inbox[q]
  BY <1>1, SettlesKeepsInbox DEF IntakeInv, InboxOK
<1>3. row.event = inbox[r].event /\ (row.status = "RECEIVED" => inbox[r].status = "RECEIVED")
  BY <1>1 DEF Settles
<1>4. ToldOK'
  BY <1>2, <1>3, ToldStays
<1> QED BY <1>4, DeliveryEnds

LEMMA RetryInv ==
  ASSUME IntakeInv, NEW c \in Controllers, Handling(c), Retry(c), TaskStep,
         UNCHANGED <<provider, item, events, told, jammed>>
  PROVE  IntakeInv' /\ TextStops
<1>1. CASE Frees(c)
  BY <1>1, RestsInv DEF Retry
<1>2. CASE hands' = [hands EXCEPT ![c] = [pc |-> "failing", row |-> hands[c].row]]
  <2>1. PICK r \in 1..Len(inbox) : r = hands[c].row
    BY HandTypes
  <2>2. PICK h : h = [pc |-> "failing", row |-> r]
    OBVIOUS
  <2>3. h \in Hand
    BY <2>2 DEF Hand, IntakeInv, InboxOK
  <2>4. Holds(c, h)
    BY <2>2 DEF Holds, Retry
  <2> QED BY <1>2, <2>1, <2>2, <2>3, <2>4, LeavesInv DEF Retry
<1> QED BY <1>1, <1>2 DEF Retry

LEMMA SettleInv ==
  ASSUME IntakeInv, NEW c \in Controllers, Handling(c), TaskStep,
         NEW status \in {"PROCESSED", "IGNORED", "FAILED"}, Settle(c, status),
         UNCHANGED <<provider, item, events, told, jammed>>
  PROVE  IntakeInv' /\ TextStops
<1>1. PICK row \in Delivery : Settles(hands[c].row, row) /\ row.status = status
  BY HandTypes, SettleOK DEF IntakeInv
<1> QED BY <1>1, QuietlyEnds DEF Settle

LEMMA FaultyDeliveryInv ==
  ASSUME IntakeInv, NEW c \in Controllers, FaultyDelivery(c)
  PROVE  IntakeInv' /\ TextStops
<1>1. /\ Handling(c) /\ (Retry(c) \/ Settle(c, "FAILED"))
      /\ UNCHANGED <<provider, item, events, task, told, sync, jammed>>
  BY DEF FaultyDelivery, Handling
<1>2. TaskStep
  BY <1>1, NoTaskStep
<1> QED BY <1>1, <1>2, RetryInv, SettleInv

(* An attempt is counted, of a row that may have been settled meanwhile.     *)
LEMMA CountAttemptInv ==
  ASSUME IntakeInv, NEW c \in Controllers, CountAttempt(c)
  PROVE  IntakeInv' /\ TextStops
<1> DEFINE r == hands[c].row
           row == [inbox[r] EXCEPT !.attempts = @ + 1,
                                   !.status = IF inbox[r].attempts + 1 >= MaxAttempts
                                              THEN "FAILED" ELSE @]
<1>1. /\ Failing(c) /\ r \notin Held /\ Frees(c)
      /\ inbox' = [inbox EXCEPT ![r] = row]
      /\ UNCHANGED <<provider, item, events, task, told, sync, jammed>>
  BY DEF CountAttempt, Failing
<1>2. r \in 1..Len(inbox) /\ inbox[r] \in Delivery
  BY <1>1, HandTypes DEF IntakeInv, InboxOK
<1>3. /\ row \in Delivery /\ row.event = inbox[r].event
      /\ row.status = "RECEIVED" => inbox[r].status = "RECEIVED"
  <2>1. inbox[r].attempts + 1 \in Nat
    BY <1>2 DEF Delivery
  <2>2. PICK s : s = IF inbox[r].attempts + 1 >= MaxAttempts THEN "FAILED" ELSE inbox[r].status
    OBVIOUS
  <2>3. s \in {"FAILED", inbox[r].status}
    BY <2>2
  <2>4. row = [inbox[r] EXCEPT !.attempts = inbox[r].attempts + 1, !.status = s]
    BY <1>2, <2>2 DEF Delivery
  <2> HIDE DEF row
  <2> QED BY <1>2, <2>1, <2>3, <2>4 DEF Delivery
<1> HIDE DEF row
<1>4. Settles(r, row)
  BY <1>1, <1>3 DEF Settles
<1>5. TaskStep
  BY <1>1, NoTaskStep
<1> QED BY <1>1, <1>3, <1>4, <1>5, QuietlyEnds

(* A comment is told to a task that exists, and its delivery processed.      *)
LEMMA TellsOK ==
  ASSUME IntakeInv, NEW r \in 1..Len(inbox), inbox[r].status = "RECEIVED",
         NEW row \in Delivery, Settles(r, row), row.status = "PROCESSED",
         NEW e \in 1..MaxEvents, e = inbox[r].event,
         told' = [told EXCEPT ![e] = @ + 1], UNCHANGED events
  PROVE  ToldOK'
<1>1. /\ Len(inbox') = Len(inbox) /\ inbox'[r] = row /\ row.event = e
      /\ \A q \in 1..Len(inbox) : q # r => inbox'[q] = inbox[q]
  BY SettlesKeepsInbox DEF Settles
<1>2. told \in [1..MaxEvents -> Nat] /\ told[e] = 0
  <2>1. ASSUME told[e] = 1 PROVE FALSE
    <3>1. PICK q \in 1..Len(inbox) : inbox[q].event = e /\ inbox[q].status # "RECEIVED"
      BY <2>1 DEF IntakeInv, ToldOK
    <3>2. q = r
      BY <3>1 DEF IntakeInv, InboxOK
    <3> QED BY <3>1, <3>2
  <2>2. told \in [1..MaxEvents -> Nat] /\ told[e] <= 1
    BY DEF IntakeInv, ToldOK
  <2> QED BY <2>1, <2>2
<1>3. /\ told' \in [1..MaxEvents -> Nat] /\ told'[e] = 1
      /\ \A f \in 1..MaxEvents : f # e => told'[f] = told[f]
  BY <1>2
<1>4. ASSUME NEW f \in 1..MaxEvents
      PROVE  /\ told'[f] <= 1
             /\ told'[f] = 1 =>
                  \E q \in 1..Len(inbox') : inbox'[q].event = f /\ inbox'[q].status # "RECEIVED"
  <2>1. CASE f = e
    BY <1>1, <1>3, <2>1
  <2>2. CASE f # e
    <3>1. SUFFICES ASSUME told[f] = 1
                   PROVE  \E q \in 1..Len(inbox') : /\ inbox'[q].event = f
                                                    /\ inbox'[q].status # "RECEIVED"
      BY <1>3, <2>2 DEF IntakeInv, ToldOK
    <3>2. PICK q \in 1..Len(inbox) : inbox[q].event = f /\ inbox[q].status # "RECEIVED"
      BY <3>1 DEF IntakeInv, ToldOK
    <3>3. q # r
      BY <3>2
    <3> QED BY <1>1, <3>2, <3>3
  <2> QED BY <2>1, <2>2
<1> QED BY <1>3, <1>4 DEF ToldOK

(* What a delivery that is no comment does: its row is settled or tried       *)
(* again, and the task made, cancelled, given another text or left alone.     *)
FinishEvent(c, e, seen) ==
  IF e.gone THEN IF seen.rows = 0
                 THEN Settle(c, "PROCESSED") /\ UNCHANGED <<task, sync>>
                 ELSE Cancels(c, seen)
  ELSE IF seen.rows > 0
  THEN IF provider \in {"slack", "api"}
       THEN Settle(c, "PROCESSED") /\ UNCHANGED <<task, sync>>
       ELSE Refreshes(c, seen, e)
  ELSE IF Qualifies(e) THEN Creates(c, e)
  ELSE Settle(c, "IGNORED") /\ UNCHANGED <<task, sync>>

LetsGo(c) == Settle(c, "PROCESSED") \/ Settle(c, "IGNORED") \/ Retry(c)

LEMMA FinishEventOK ==
  ASSUME IntakeInv, NEW c \in Controllers, NEW e \in Event, NEW seen \in View, ViewOK(seen),
         FinishEvent(c, e, seen)
  PROVE  TaskStep /\ LetsGo(c)
<1>1. CASE UNCHANGED <<task, sync>>
  <2>1. TaskStep
    BY <1>1, NoTaskStep
  <2>2. LetsGo(c) \/ Cancels(c, seen) \/ Refreshes(c, seen, e) \/ Creates(c, e)
    BY DEF FinishEvent, LetsGo
  <2>3. Cancels(c, seen) => LetsGo(c)
    BY DEF Cancels, LetsGo
  <2>4. Refreshes(c, seen, e) => LetsGo(c)
    BY DEF Refreshes, LetsGo
  <2>5. Creates(c, e) => LetsGo(c)
    BY DEF Creates, LetsGo
  <2> QED BY <2>1, <2>2, <2>3, <2>4, <2>5
<1>2. CASE ~ UNCHANGED <<task, sync>>
  <2>1. /\ seen.rows \in Nat /\ task.rows \in Nat
        /\ \/ seen.rows # 0 /\ Cancels(c, seen)
           \/ seen.rows > 0 /\ Refreshes(c, seen, e)
           \/ Creates(c, e)
    BY <1>2 DEF FinishEvent, View, IntakeInv, TaskOK, TaskRow
  <2>2. CASE seen.rows # 0 /\ Cancels(c, seen)
    <3>1. /\ ~ seen.over /\ ~ Conflicts(seen) /\ Settle(c, "PROCESSED")
          /\ task' = Stepped(task, "CANCEL") /\ sync' = Enqueue(sync, task'.state)
      BY <1>2, <2>2 DEF Cancels
    <3>2. ~ Terminated(task) /\ task.rows > 0
      BY <2>1, <2>2, <3>1 DEF ViewOK, Conflicts
    <3>3. "CANCEL" \in Action /\ Permits(task.state, "CANCEL", "MISSING_CONFIGURATION")
      BY <3>2 DEF Action, Permits, Terminated
    <3> QED BY <3>1, <3>2, <3>3, MovesTask DEF LetsGo
  <2>3. CASE seen.rows > 0 /\ Refreshes(c, seen, e)
    <3>1. PICK text : text = UpdateText(e, seen)
      OBVIOUS
    <3>2. text \in Text /\ e.list \in Lists
      BY <3>1, LiteralType DEF UpdateText, Event, View
    <3>3. /\ ~ (Material(seen, text) /\ Conflicts(seen))
          /\ Updates(seen, text, e.list) /\ Settle(c, "PROCESSED")
      BY <1>2, <2>3, <3>1 DEF Refreshes
    <3> QED BY <2>3, <3>2, <3>3, UpdatesTask DEF LetsGo
  <2>4. CASE Creates(c, e)
    <3>1. PICK text, list : text = NewText(e)
                            /\ list = IF provider \in Polled THEN e.list ELSE NoList
      OBVIOUS
    <3>2. text \in Text /\ list \in Shots
      BY <3>1, LiteralType DEF NewText, Event, Shots, Text
    <3>3. /\ task.rows = 0 /\ task' \in Created(text, list)
          /\ sync' = Enqueue(sync, task'.state) /\ Settle(c, "PROCESSED")
      BY <1>2, <2>1, <2>4, <3>1 DEF Creates
    <3> QED BY <3>2, <3>3, MakesTask DEF LetsGo
  <2> QED BY <2>1, <2>2, <2>3, <2>4
<1> QED BY <1>1, <1>2

LEMMA FinishInv ==
  ASSUME IntakeInv, NEW c \in Controllers, Finish(c)
  PROVE  IntakeInv' /\ TextStops
<1>1. /\ Handling(c)
      /\ UNCHANGED <<provider, item, events, jammed>>
  BY DEF Finish, Handling
<1>2. PICK r \in 1..Len(inbox) : r = hands[c].row /\ inbox[r].status = "RECEIVED"
  BY <1>1 DEF IntakeInv, HandsOK
<1>3. PICK seen \in View : seen = hands[c].seen /\ ViewOK(seen)
  BY <1>1, HandTypes DEF IntakeInv, HandsOK, Handling
<1>4. PICK n \in 1..MaxEvents : n = inbox[r].event /\ n \in 1..Len(events)
  <2>1. inbox[r] \in Delivery
    BY <1>2 DEF IntakeInv, InboxOK
  <2>2. inbox[r].event \in 1..MaxEvents
    BY <2>1 DEF Delivery
  <2> QED BY <1>2, <2>2 DEF IntakeInv, InboxOK
<1>5. PICK e \in Event : e = events[n]
  BY <1>4 DEF IntakeInv, OutsideOK
<1>6. \/ /\ Settle(c, IF seen.rows = 0 THEN "IGNORED" ELSE "PROCESSED")
         /\ told' = [told EXCEPT ![n] = IF seen.rows = 0 THEN @ ELSE @ + 1]
         /\ UNCHANGED <<task, sync>>
      \/ Settle(c, "PROCESSED") /\ UNCHANGED <<task, sync, told>>
      \/ UNCHANGED told /\ FinishEvent(c, e, seen)
  BY <1>2, <1>3, <1>4, <1>5 DEF Finish, FinishEvent
<1>7. InboxOK
  BY DEF IntakeInv
<1>8. CASE TaskStep /\ LetsGo(c) /\ UNCHANGED told
  BY <1>1, <1>8, RetryInv, SettleInv DEF LetsGo
<1>9. CASE /\ Settle(c, IF seen.rows = 0 THEN "IGNORED" ELSE "PROCESSED")
           /\ told' = [told EXCEPT ![n] = IF seen.rows = 0 THEN @ ELSE @ + 1]
           /\ UNCHANGED <<task, sync>>
  <2>1. TaskStep
    BY <1>9, NoTaskStep
  <2>2. CASE seen.rows = 0
    <3>1. UNCHANGED told
      BY <1>9, <2>2 DEF IntakeInv, ToldOK
    <3> QED BY <1>8, <1>9, <2>1, <2>2, <3>1 DEF LetsGo
  <2>3. CASE seen.rows # 0
    <3>1. PICK row \in Delivery : Settles(r, row) /\ row.status = "PROCESSED"
      BY <1>2, <1>7, <1>9, <2>3, SettleOK
    <3>2. ToldOK'
      BY <1>1, <1>2, <1>4, <1>9, <2>3, <3>1, TellsOK
    <3> QED BY <1>1, <1>2, <1>9, <2>1, <2>3, <3>1, <3>2, DeliveryEnds DEF Settle
  <2> QED BY <2>2, <2>3
<1>10. CASE Settle(c, "PROCESSED") /\ UNCHANGED <<task, sync, told>>
  BY <1>8, <1>10, NoTaskStep DEF LetsGo
<1>11. CASE UNCHANGED told /\ FinishEvent(c, e, seen)
  BY <1>3, <1>8, <1>11, FinishEventOK
<1> QED BY <1>6, <1>9, <1>10, <1>11

-----------------------------------------------------------------------------
LEMMA IntakeInitOK == IntakeInit => IntakeInv
<1> SUFFICES ASSUME IntakeInit PROVE IntakeInv
  OBVIOUS
<1> USE IntakeAssumption
<1>1. item \in Item
  BY DEF IntakeInit, Item, Lists
<1>2. OutsideOK
  <2>1. PICK e \in Event : e = Reported("text", item)
    BY <1>1 DEF Reported, Event, Item
  <2> QED BY <1>1, <2>1 DEF OutsideOK, IntakeInit
<1>3. TaskOK
  <2>1. NoTask \in TaskRow /\ Consistent(NoTask.state) /\ NoTask.rows = 0
    BY NewStateConsistent, LiteralType DEF NoTask, TaskRow, Shots
  <2> QED BY <2>1 DEF TaskOK, IntakeInit
<1>4. SyncOK
  BY DEF SyncOK, IntakeInit, NoSync, SyncRow, Semantic
<1>5. InboxOK /\ ToldOK
  BY DEF IntakeInit, InboxOK, ToldOK
<1>6. HandsOK
  BY DEF IntakeInit, HandsOK, Hand, AtRest, Handling, Failing, Moving
<1>7. jammed \in BOOLEAN
  BY DEF IntakeInit
<1> QED BY <1>2, <1>3, <1>4, <1>5, <1>6, <1>7 DEF IntakeInv

LEMMA RerouteInv ==
  ASSUME IntakeInv, Reroute
  PROVE  IntakeInv' /\ TextStops
<1>1. UNCHANGED <<provider, item, events, inbox, task, told, sync, hands>> /\ jammed' \in BOOLEAN
  BY DEF Reroute
<1>2. TaskStep
  BY <1>1, NoTaskStep
<1>3. OutsideOK' /\ InboxOK' /\ ToldOK'
  BY <1>1, SameOutside, SameDeliveries
<1>4. HandsOK'
  BY <1>1, <1>2, SameRowsStay, HandsStay
<1> QED BY <1>1, <1>2, <1>3, <1>4 DEF IntakeInv, TaskStep

LEMMA IntakeStep == IntakeInv /\ [IntakeNext]_intakeVars => IntakeInv' /\ TextStops
<1> SUFFICES ASSUME IntakeInv, [IntakeNext]_intakeVars PROVE IntakeInv' /\ TextStops
  OBVIOUS
<1>1. CASE Tick \/ UNCHANGED intakeVars
  BY <1>1, TickInv
<1>2. CASE EditItem \/ MoveItem \/ DropItem \/ Comment
  BY <1>2, ProviderInv
<1>3. CASE \E a \in {"START", "PAUSE", "RESUME", "TAKEOVER"} : Work(a)
  BY <1>3, WorkInv
<1>4. CASE \E e \in 1..MaxEvents : Ingest(e)
  BY <1>4, IngestInv
<1>5. ASSUME NEW c \in Controllers,
             \/ \E r \in 1..MaxEvents : Begin(c, r)
             \/ Finish(c) \/ FaultyDelivery(c) \/ CountAttempt(c)
             \/ PollItems(c) \/ LoadRows(c) \/ Reconcile(c) \/ PollFails(c)
             \/ ClaimStatus(c) \/ MoveCard(c) \/ Confirm(c) \/ MoveFails(c)
             \/ CrashIntake(c)
      PROVE  IntakeInv' /\ TextStops
  <2>1. CASE \E r \in 1..MaxEvents : Begin(c, r)
    BY <2>1, BeginInv
  <2>2. CASE Finish(c) \/ FaultyDelivery(c) \/ CountAttempt(c)
    BY <2>2, FinishInv, FaultyDeliveryInv, CountAttemptInv
  <2>3. CASE PollItems(c) \/ LoadRows(c) \/ Reconcile(c)
    BY <2>3, PollItemsInv, LoadRowsInv, ReconcileInv
  <2>4. CASE PollFails(c) \/ CrashIntake(c)
    BY <2>4, GivesUpInv
  <2>5. CASE ClaimStatus(c) \/ MoveCard(c) \/ Confirm(c) \/ MoveFails(c)
    BY <2>5, ClaimStatusInv, MoveCardInv, MoveEndsInv
  <2> QED BY <1>5, <2>1, <2>2, <2>3, <2>4, <2>5
<1>6. CASE Reroute
  BY <1>6, RerouteInv
<1> QED BY <1>1, <1>2, <1>3, <1>4, <1>5, <1>6 DEF IntakeNext

LEMMA IntakeInvariant == IntakeSpec => []IntakeInv
<1>1. IntakeInv /\ [IntakeNext]_intakeVars => IntakeInv'
  BY IntakeStep
<1> QED BY IntakeInitOK, <1>1, PTL DEF IntakeSpec

(* The rows of the inbox, the task and its status are always ones that their *)
(* tables allow: no attempt to move a card is counted beyond its limit.      *)
THEOREM IntakeTypes == IntakeSpec => []IntakeTypeOK
<1>1. IntakeInv => IntakeTypeOK
  BY DEF IntakeInv, OutsideOK, TaskOK, SyncOK, InboxOK, ToldOK, IntakeTypeOK, Item
<1> QED BY IntakeInvariant, <1>1, PTL

(* However often an event is delivered, retried or interrupted, and whatever *)
(* replicas and polls work on it at once, the item becomes one task and a     *)
(* comment one message (source_deliveries.py, linear_events.py,              *)
(* github_events.py, the pollers).                                          *)
THEOREM ItemsAreTakenOnce == IntakeSpec => []TakenOnce
<1>1. IntakeInv => TakenOnce
  BY DEF IntakeInv, TaskOK, ToldOK, TakenOnce
<1> QED BY IntakeInvariant, <1>1, PTL

(* A task under way never has its text replaced beneath it: the step that    *)
(* writes another text leaves it paused, at a newer requirement, with the     *)
(* tracker told (engineering_events.py requirements_changed, status_sync.py). *)
THEOREM TextNeverChangesUnderWork == IntakeSpec => ChangedTextStopsWork
<1>1. IntakeInv /\ [IntakeNext]_intakeVars =>
        [task.rows > 0 /\ task'.text # task.text /\ ~ Terminated(task') =>
           /\ task'.state.status = "PAUSED"
           /\ task'.state.req > task.state.req
           /\ sync'.wanted = "paused" /\ sync'.status \in {"PENDING", "SYNCED"}]_intakeVars
  BY IntakeStep DEF TextStops
<1> QED BY IntakeInvariant, <1>1, PTL DEF IntakeSpec, ChangedTextStopsWork

-----------------------------------------------------------------------------
(***************************************************************************)
(* Teams. When the shutdown of a Team has ended no phase runs in it before *)
(* the next wake, for any number of tasks, Teams, requests and             *)
(* controllers.                                                            *)
(*                                                                         *)
(* Three things see to it. The batches of a shutdown wait for the rows     *)
(* they pause, and so for each heartbeat that has found the Team open; the *)
(* last of them finds no task that could run. A request that would move a  *)
(* task to another Team has found, under the Task row, that no worker is   *)
(* on it, and no heartbeat begins before it commits. And a claim that      *)
(* commits late starts nothing: the heartbeat asks for the Team the task   *)
(* then has.                                                               *)
(***************************************************************************)
Holding == {"assigning", "resuming"}

(* The Task row has one holder, and one that moves it holds a task no worker *)
(* is on.                                                                   *)
RowsHaveOneHolder ==
  /\ \A x \in Requests : request[x].pc \in {"assign"} \cup Holding => request[x].on \in Tickets
  /\ \A x \in Requests : request[x].pc \in {"assign", "assigning"} => request[x].for \in Groups
  /\ \A x \in Requests : request[x].pc \in Holding => ~ ticket[request[x].on].asked
  /\ \A x \in Requests : request[x].pc = "assigning" => ticket[request[x].on].job \notin Leased
  /\ \A x, y \in Requests :
       request[x].pc \in Holding /\ request[y].pc \in Holding /\ request[x].on = request[y].on
         => x = y

(* A task that runs, or is about to, is one that a shutdown would pause, and *)
(* is in no Team whose shutdown has ended.                                  *)
Sound(row) ==
  /\ row.asked =>
       row.status \in {"NEW", "ACTIVE"} /\ row.of \in Groups /\ ~ team[row.of].stopped
  /\ row.job = "RUNNING" =>
       row.status \in Unpaused /\ (row.of # NoGroup => ~ team[row.of].stopped)

RunsWhereOpen == \A k \in Tickets : Sound(ticket[k])

StoppedArePaused == \A g \in Groups : team[g].stopped => team[g].paused

TeamsInv == TeamsTypeOK /\ RowsHaveOneHolder /\ RunsWhereOpen /\ StoppedArePaused

-----------------------------------------------------------------------------
(* A request moves on, and a row is rewritten, within their types.           *)
LEMMA RequestsTyped ==
  ASSUME request \in [Requests -> Served], NEW x \in Requests, NEW r \in Served, Becomes(x, r)
  PROVE  request' \in [Requests -> Served]
BY DEF Becomes

LEMMA Ended ==
  ASSUME request \in [Requests -> Served], NEW x \in Requests, Ends(x)
  PROVE  request' \in [Requests -> Served]
<1>1. NoRequest \in Served
  BY TeamsAssumption DEF NoRequest, Served
<1> QED
  BY <1>1, RequestsTyped DEF Ends

LEMMA RowsTyped ==
  ASSUME ticket \in [Tickets -> TicketRow], NEW k \in Tickets, NEW row \in TicketRow, Set(k, row)
  PROVE  ticket' \in [Tickets -> TicketRow]
BY DEF Set

(* What request_execution() makes of a row.                                 *)
LEMMA RequestedRow ==
  ASSUME NEW row \in TicketRow, NEW open \in BOOLEAN, NEW r \in Requested(row, open)
  PROVE  /\ r \in TicketRow
         /\ r.of = row.of
         /\ r.asked = row.asked
         /\ \/ r.job = "QUEUED"
            \/ r.job = row.job /\ r.status = "WAITING_HUMAN"
<1>1. r = Refuse(row) \/ r = Enroll(row)
  BY DEF Requested
<1>2. CASE r = Refuse(row)
  BY <1>2 DEF Refuse, TicketRow
<1>3. CASE r = Enroll(row)
  BY <1>3 DEF Enroll, TicketRow
<1> QED
  BY <1>1, <1>2, <1>3

LEMMA StartedRows ==
  ASSUME NEW row \in TicketRow
  PROVE  Enroll(row) \in TicketRow /\ Resumed(row) \in TicketRow
<1>1. Enroll(row) \in TicketRow
  BY DEF Enroll, TicketRow
<1>2. \A j \in {"NONE", "QUEUED", "CLAIMED", "RUNNING"} : [row EXCEPT !.job = j] \in TicketRow
  BY DEF TicketRow
<1>3. [row EXCEPT !.status = "ACTIVE", !.job = "QUEUED"] \in TicketRow
  BY DEF TicketRow
<1>4. Resumed(row) = [row EXCEPT !.job = IF row.job = "NONE" THEN "QUEUED" ELSE row.job]
        \/ Resumed(row) = [row EXCEPT !.status = "ACTIVE", !.job = "QUEUED"]
  BY Zenon DEF Resumed
<1>5. (IF row.job = "NONE" THEN "QUEUED" ELSE row.job) \in {"NONE", "QUEUED", "CLAIMED", "RUNNING"}
  BY DEF TicketRow
<1> QED
  BY <1>1, <1>2, <1>3, <1>4, <1>5

LEMMA PausedRow ==
  ASSUME NEW row \in TicketRow
  PROVE  /\ Paused(row) \in TicketRow
         /\ Paused(row).of = row.of
         /\ Paused(row).asked = row.asked
         /\ Paused(row).job = "NONE"
BY DEF Paused, TicketRow

(* A batch rewrites the row of a task nobody holds, or none.                *)
LEMMA WakeRow ==
  ASSUME TeamsTypeOK, NEW x \in Requests, WakeBatch(x)
  PROVE  \/ UNCHANGED ticket
         \/ \E k \in Tickets, r \in TicketRow :
              /\ RowFree(k)
              /\ Set(k, r)
              /\ r.of = ticket[k].of
              /\ r.asked = ticket[k].asked
              /\ \/ r.job = "QUEUED"
                 \/ r.job = ticket[k].job /\ r.status = "WAITING_HUMAN"
<1>1. CASE UNCHANGED ticket
  BY <1>1
<1>2. CASE \E k \in Startable(x) : RowFree(k) /\ \E r \in Requested(ticket[k], TRUE) : Set(k, r)
  <2>1. PICK k \in Startable(x) : RowFree(k) /\ \E r \in Requested(ticket[k], TRUE) : Set(k, r)
    BY <1>2
  <2>2. PICK r \in Requested(ticket[k], TRUE) : Set(k, r)
    BY <2>1
  <2>3. k \in Tickets /\ ticket[k] \in TicketRow
    BY DEF Startable, Of, TeamsTypeOK
  <2> QED
    BY <2>1, <2>2, <2>3, RequestedRow
<1> QED
  BY <1>1, <1>2 DEF WakeBatch

LEMMA ShutdownRow ==
  ASSUME TeamsTypeOK, NEW x \in Requests, ShutdownBatch(x)
  PROVE  \/ UNCHANGED ticket
         \/ \E k \in Tickets : RowFree(k) /\ Set(k, Paused(ticket[k]))
BY DEF ShutdownBatch, Of

LEMMA TypesStart == TeamsInit => TeamsTypeOK
<1> SUFFICES ASSUME TeamsInit PROVE TeamsTypeOK
  OBVIOUS
<1>1. team \in [Groups -> TeamRow]
  BY DEF TeamsInit, TeamRow
<1>2. ticket \in [Tickets -> TicketRow]
  <2>1. \A g \in Groups \cup {NoGroup} :
          [of |-> g, enrolled |-> FALSE, status |-> "NEW", job |-> "NONE", asked |-> FALSE]
            \in TicketRow
    BY DEF TicketRow
  <2> QED
    BY <2>1 DEF TeamsInit
<1>3. request \in [Requests -> Served]
  BY DEF TeamsInit, Served, NoRequest
<1>4. picked \in [Claimers -> Tickets \cup {NoTicket}]
  BY DEF TeamsInit
<1> QED
  BY <1>1, <1>2, <1>3, <1>4 DEF TeamsTypeOK

LEMMA TypesStay ==
  ASSUME TeamsTypeOK, RowsHaveOneHolder, [TeamsNext]_teamsVars
  PROVE  TeamsTypeOK'
<1> USE TeamsAssumption DEF TeamsTypeOK
<1>1. ASSUME NEW x \in Requests, NEW k \in Tickets, Resume(x, k) PROVE TeamsTypeOK'
  <2>1. [NoRequest EXCEPT !.pc = "resuming", !.on = k] \in Served
    BY <1>1 DEF Resume, NoRequest, Served
  <2>2. request' \in [Requests -> Served]
    BY <1>1, <2>1, RequestsTyped DEF Resume
  <2> QED
    BY <1>1, <2>1, <2>2 DEF Resume
<1>2. ASSUME NEW x \in Requests, NEW k \in Tickets, NEW g \in Groups, Assign(x, k, g)
      PROVE  TeamsTypeOK'
  <2>1. [NoRequest EXCEPT !.pc = "assign", !.on = k, !.for = g, !.open = OpenFor(g)] \in Served
    BY <1>2 DEF Assign, OpenFor, Present, TeamRow, NoRequest, Served
  <2>2. request' \in [Requests -> Served]
    BY <1>2, <2>1, RequestsTyped DEF Assign, OpenFor, Present, TeamRow
  <2> QED
    BY <1>2, <2>1, <2>2 DEF Assign
<1>3. ASSUME NEW x \in Requests, LockTask(x) PROVE TeamsTypeOK'
  <2>1. [request[x] EXCEPT !.pc = "assigning"] \in Served
    BY DEF Served
  <2>2. request' \in [Requests -> Served]
    BY <1>3, <2>1, RequestsTyped, Ended DEF LockTask
  <2> QED
    BY <1>3, <2>1, <2>2 DEF LockTask
<1>4. ASSUME NEW x \in Requests, CommitAssign(x) PROVE TeamsTypeOK'
  <2>1. request' \in [Requests -> Served]
    BY <1>4, Ended DEF CommitAssign
  <2>2. request[x].on \in Tickets /\ request[x].for \in Groups /\ request[x].open \in BOOLEAN
    BY <1>4 DEF CommitAssign, Is, Served, RowsHaveOneHolder, Holding
  <2>3. [ticket[request[x].on] EXCEPT !.of = request[x].for] \in TicketRow
    BY <2>2 DEF TicketRow
  <2>4. ticket' \in [Tickets -> TicketRow]
    BY <1>4, <2>2, <2>3, RequestedRow, RowsTyped DEF CommitAssign
  <2> QED
    BY <1>4, <2>1, <2>2, <2>3, <2>4 DEF CommitAssign
<1>5. ASSUME NEW x \in Requests, CommitResume(x) PROVE TeamsTypeOK'
  <2>1. request' \in [Requests -> Served]
    BY <1>5, Ended DEF CommitResume
  <2>2. request[x].on \in Tickets
    BY <1>5 DEF CommitResume, Is, RowsHaveOneHolder, Holding
  <2>3. /\ Resumed(ticket[request[x].on]) \in TicketRow
        /\ Enroll(ticket[request[x].on]) \in TicketRow
    BY <2>2, StartedRows
  <2>4. ticket' \in [Tickets -> TicketRow]
    BY <1>5, <2>2, <2>3, RowsTyped DEF CommitResume
  <2> QED
    BY <1>5, <2>1, <2>4 DEF CommitResume
<1>6. ASSUME NEW x \in Requests, NEW g \in Groups, Archive(x, g) PROVE TeamsTypeOK'
  <2>1. [NoRequest EXCEPT !.pc = "archive", !.for = g] \in Served
    BY <1>6 DEF Archive, NoRequest, Served
  <2>2. request' \in [Requests -> Served]
    BY <1>6, <2>1, RequestsTyped DEF Archive
  <2> QED
    BY <1>6, <2>1, <2>2 DEF Archive
<1>7. ASSUME NEW x \in Requests, NEW g \in Groups, Wake(x, g) PROVE TeamsTypeOK'
  <2>1. [NoRequest EXCEPT !.pc = "wake", !.for = g] \in Served
    BY <1>7 DEF Wake, NoRequest, Served
  <2>2. request' \in [Requests -> Served]
    BY <1>7, <2>1, RequestsTyped DEF Wake
  <2>3. [team[g] EXCEPT !.paused = FALSE, !.stopped = FALSE] \in TeamRow
    BY DEF TeamRow
  <2>4. team' \in [Groups -> TeamRow]
    BY <1>7, <2>3 DEF Wake
  <2> QED
    BY <1>7, <2>1, <2>2, <2>4 DEF Wake
<1>8. ASSUME NEW x \in Requests, NEW g \in Groups, Shutdown(x, g) PROVE TeamsTypeOK'
  <2>1. [NoRequest EXCEPT !.pc = "shutdown", !.for = g] \in Served
    BY <1>8 DEF Shutdown, NoRequest, Served
  <2>2. request' \in [Requests -> Served]
    BY <1>8, <2>1, RequestsTyped DEF Shutdown
  <2>3. team' \in [Groups -> TeamRow]
    BY <1>8 DEF Shutdown, TeamRow
  <2> QED
    BY <1>8, <2>1, <2>2, <2>3 DEF Shutdown
<1>9. ASSUME NEW x \in Requests, CommitArchive(x) PROVE TeamsTypeOK'
  <2>1. request' \in [Requests -> Served]
    BY <1>9, Ended DEF CommitArchive
  <2>2. \A g \in Groups : [team[g] EXCEPT !.enabled = FALSE, !.archived = TRUE] \in TeamRow
    BY DEF TeamRow
  <2>3. team' \in [Groups -> TeamRow]
    BY <1>9, <2>2 DEF CommitArchive
  <2> QED
    BY <1>9, <2>1, <2>2, <2>3 DEF CommitArchive
<1>10. ASSUME NEW x \in Requests, WakeBatch(x) PROVE TeamsTypeOK'
  <2>1. \A k \in Tickets : [request[x] EXCEPT !.done = @ \cup {k}] \in Served
    BY DEF Served
  <2>2. request' \in [Requests -> Served]
    BY <1>10, <2>1, RequestsTyped, Ended DEF WakeBatch, Startable, Of
  <2>3. ticket' \in [Tickets -> TicketRow]
    BY <1>10, WakeRow, RowsTyped
  <2> QED
    BY <1>10, <2>1, <2>2, <2>3 DEF WakeBatch
<1>11. ASSUME NEW x \in Requests, ShutdownBatch(x) PROVE TeamsTypeOK'
  <2>1. request' \in [Requests -> Served]
    BY <1>11, Ended DEF ShutdownBatch
  <2>2. ticket' \in [Tickets -> TicketRow]
    BY <1>11, ShutdownRow, PausedRow, RowsTyped
  <2>3. \A g \in Groups : [team[g] EXCEPT !.stopped = TRUE] \in TeamRow
    BY DEF TeamRow
  <2>4. team' \in [Groups -> TeamRow]
    BY <1>11, <2>3 DEF ShutdownBatch
  <2> QED
    BY <1>11, <2>1, <2>2, <2>4 DEF ShutdownBatch
<1>12. ASSUME NEW x \in Requests, Fail(x) PROVE TeamsTypeOK'
  <2>1. request' \in [Requests -> Served]
    BY <1>12, Ended DEF Fail
  <2> QED
    BY <1>12, <2>1 DEF Fail
<1>13. ASSUME NEW g \in Groups, SaveTeam(g) PROVE TeamsTypeOK'
  <2>1. [team[g] EXCEPT !.enabled = ~ team[g].enabled] \in TeamRow
    BY DEF TeamRow
  <2>2. team' \in [Groups -> TeamRow]
    BY <1>13, <2>1 DEF SaveTeam, TeamRow
  <2> QED
    BY <1>13, <2>1, <2>2 DEF SaveTeam
<1>14. ASSUME NEW c \in Claimers, NEW k \in Tickets, Pick(c, k) PROVE TeamsTypeOK'
  BY <1>14 DEF Pick
<1>15. ASSUME NEW c \in Claimers, CommitPick(c) PROVE TeamsTypeOK'
  <2>1. picked[c] \in Tickets
    BY <1>15 DEF CommitPick
  <2>2. [ticket[picked[c]] EXCEPT !.job = "CLAIMED"] \in TicketRow
    BY <2>1 DEF TicketRow
  <2>3. ticket' \in [Tickets -> TicketRow]
    BY <1>15, <2>1, <2>2, RowsTyped DEF CommitPick
  <2> QED
    BY <1>15, <2>1, <2>2, <2>3 DEF CommitPick
<1>16. ASSUME NEW k \in Tickets, Unassign(k) PROVE TeamsTypeOK'
  <2>1. [ticket[k] EXCEPT !.of = NoGroup, !.job = "NONE"] \in TicketRow
    BY DEF TicketRow
  <2>2. ticket' \in [Tickets -> TicketRow]
    BY <1>16, <2>1, RowsTyped DEF Unassign
  <2> QED
    BY <1>16, <2>1, <2>2 DEF Unassign
<1>17. ASSUME NEW k \in Tickets, Pause(k) PROVE TeamsTypeOK'
  <2>1. ticket' \in [Tickets -> TicketRow]
    BY <1>17, PausedRow, RowsTyped DEF Pause
  <2> QED
    BY <1>17, <2>1 DEF Pause
<1>18. ASSUME NEW k \in Tickets, NEW s \in {"ACTIVE", "MERGED"}, CompletePhase(k, s)
       PROVE  TeamsTypeOK'
  <2>1. [ticket[k] EXCEPT !.status = s, !.job = IF s = "ACTIVE" THEN "QUEUED" ELSE "NONE"] \in TicketRow
    BY DEF TicketRow
  <2>2. ticket' \in [Tickets -> TicketRow]
    BY <1>18, <2>1, RowsTyped DEF CompletePhase
  <2> QED
    BY <1>18, <2>1, <2>2 DEF CompletePhase
<1>20. ASSUME NEW k \in Tickets, BlockPhase(k) PROVE TeamsTypeOK'
  <2>1. [ticket[k] EXCEPT !.status = IF @ \in {"NEW", "ACTIVE"} THEN "WAITING_HUMAN" ELSE @,
                          !.job = "NONE"] \in TicketRow
    BY DEF TicketRow
  <2>2. ticket' \in [Tickets -> TicketRow]
    BY <1>20, <2>1, RowsTyped DEF BlockPhase
  <2> QED
    BY <1>20, <2>1, <2>2 DEF BlockPhase
<1>21. ASSUME NEW c \in Claimers, DropPick(c) PROVE TeamsTypeOK'
  BY <1>21 DEF DropPick
<1>22. ASSUME NEW k \in Tickets, Heartbeat(k) PROVE TeamsTypeOK'
  <2>1. [ticket[k] EXCEPT !.asked = TRUE] \in TicketRow
    BY DEF TicketRow
  <2>2. ticket' \in [Tickets -> TicketRow]
    BY <1>22, <2>1, RowsTyped DEF Heartbeat
  <2> QED
    BY <1>22, <2>1, <2>2 DEF Heartbeat
<1>23. ASSUME NEW k \in Tickets, CommitHeartbeat(k) PROVE TeamsTypeOK'
  <2>1. \A j \in {"RUNNING", ticket[k].job} :
          [ticket[k] EXCEPT !.job = j, !.asked = FALSE] \in TicketRow
    BY DEF TicketRow
  <2>2. ticket' \in [Tickets -> TicketRow]
    BY <1>23, <2>1, RowsTyped DEF CommitHeartbeat
  <2> QED
    BY <1>23, <2>1, <2>2 DEF CommitHeartbeat
<1>19. CASE UNCHANGED teamsVars
  BY <1>19 DEF teamsVars
<1> QED
  BY <1>1, <1>2, <1>3, <1>4, <1>5, <1>6, <1>7, <1>8, <1>9,
     <1>10, <1>11, <1>12, <1>13, <1>14, <1>15, <1>16, <1>17, <1>18, <1>19, <1>20, <1>21,
     <1>22, <1>23
     DEF TeamsNext

LEMMA RowsKeepOneHolder ==
  ASSUME TeamsInv, [TeamsNext]_teamsVars
  PROVE  RowsHaveOneHolder'
<1> USE TeamsAssumption DEF TeamsInv, TeamsTypeOK, TicketRow, Served, RowsHaveOneHolder, Holding
<1>1. ASSUME NEW x \in Requests, NEW k \in Tickets, Resume(x, k) PROVE RowsHaveOneHolder'
  <2>1. /\ request'[x].pc = "resuming" /\ request'[x].on = k
        /\ \A y \in Requests \ {x} : request'[y] = request[y]
    BY <1>1 DEF Resume, Becomes, NoRequest
  <2>2. RowFree(k) /\ UNCHANGED ticket
    BY <1>1 DEF Resume
  <2> QED
    BY <2>1, <2>2 DEF RowFree
<1>2. ASSUME NEW x \in Requests, NEW k \in Tickets, NEW g \in Groups, Assign(x, k, g)
      PROVE  RowsHaveOneHolder'
  BY <1>2 DEF Assign, Is, Becomes, NoRequest, OpenFor, Present
<1>3. ASSUME NEW x \in Requests, LockTask(x) PROVE RowsHaveOneHolder'
  <2>1. CASE MayReassign(request[x].on)
    <3>1. \A y \in Requests :
            request'[y] = IF y = x THEN [request[x] EXCEPT !.pc = "assigning"] ELSE request[y]
      BY <1>3, <2>1 DEF LockTask, Becomes
    <3>2. RowFree(request[x].on) /\ request[x].pc = "assign" /\ UNCHANGED ticket
      BY <1>3 DEF LockTask, Is
    <3>3. request'[x].pc = "assigning" /\ request'[x].on = request[x].on /\ request'[x].for = request[x].for
      BY <3>1
    <3>4. /\ ticket[request[x].on].job \notin Leased /\ ~ ticket[request[x].on].asked
          /\ request[x].on \in Tickets /\ request[x].for \in Groups
      BY <2>1, <3>2 DEF MayReassign, RowFree
    <3>5. \A y \in Requests : y # x => request'[y] = request[y]
      BY <3>1
    <3>6. \A y \in Requests : request[y].pc \in Holding => request[y].on # request[x].on
      BY <3>2 DEF RowFree
    <3>7. \A y \in Requests :
            /\ request'[y].pc \in {"assign"} \cup Holding => request'[y].on \in Tickets
            /\ request'[y].pc \in {"assign", "assigning"} => request'[y].for \in Groups
            /\ request'[y].pc \in Holding => ~ ticket[request'[y].on].asked
            /\ request'[y].pc = "assigning" => ticket[request'[y].on].job \notin Leased
      BY <3>3, <3>4, <3>5
    <3>8. ASSUME NEW y \in Requests, NEW z \in Requests, request'[y].pc \in Holding,
                 request'[z].pc \in Holding, request'[y].on = request'[z].on
          PROVE  y = z
      BY <3>3, <3>5, <3>6, <3>8
    <3> QED
      BY <3>2, <3>7, <3>8
  <2>2. CASE ~ MayReassign(request[x].on)
    <3>1. request'[x].pc = "idle" /\ (\A y \in Requests \ {x} : request'[y] = request[y])
      BY <1>3, <2>2 DEF LockTask, Ends, Becomes, NoRequest
    <3> QED
      BY <1>3, <3>1 DEF LockTask
  <2> QED
    BY <2>1, <2>2
<1>4. ASSUME NEW x \in Requests, CommitAssign(x) PROVE RowsHaveOneHolder'
  BY <1>4 DEF CommitAssign, Is, Becomes, Ends, NoRequest, Set, Requested, Refuse, Enroll
<1>5. ASSUME NEW x \in Requests, CommitResume(x) PROVE RowsHaveOneHolder'
  BY <1>5 DEF CommitResume, Is, Becomes, Ends, NoRequest, Set, Enroll, Resumed
<1>6. ASSUME NEW x \in Requests, NEW g \in Groups, Archive(x, g) PROVE RowsHaveOneHolder'
  BY <1>6 DEF Archive, Is, Becomes, NoRequest
<1>7. ASSUME NEW x \in Requests, NEW g \in Groups, Wake(x, g) PROVE RowsHaveOneHolder'
  BY <1>7 DEF Wake, Is, Becomes, NoRequest
<1>8. ASSUME NEW x \in Requests, NEW g \in Groups, Shutdown(x, g) PROVE RowsHaveOneHolder'
  BY <1>8 DEF Shutdown, Is, Becomes, NoRequest, AdmissionFree
<1>9. ASSUME NEW x \in Requests, CommitArchive(x) PROVE RowsHaveOneHolder'
  BY <1>9 DEF CommitArchive, Is, Becomes, Ends, NoRequest
<1>10. ASSUME NEW x \in Requests, WakeBatch(x) PROVE RowsHaveOneHolder'
  <2>1. \A y \in Requests :
          request'[y].pc \in {"assign"} \cup Holding => request'[y] = request[y]
    <3>1. CASE Ends(x)
      BY <3>1 DEF Ends, Becomes, NoRequest
    <3>2. CASE \E k \in Tickets : Becomes(x, [request[x] EXCEPT !.done = @ \cup {k}])
      BY <1>10, <3>2 DEF WakeBatch, Is, Becomes
    <3> QED
      BY <1>10, <3>1, <3>2 DEF WakeBatch, Startable, Of
  <2>2. \A k \in Tickets : RowFree(k) \/ ticket'[k] = ticket[k]
    BY <1>10, WakeRow DEF Set
  <2> QED
    BY <2>1, <2>2 DEF RowFree
<1>11. ASSUME NEW x \in Requests, ShutdownBatch(x) PROVE RowsHaveOneHolder'
  <2>1. \A y \in Requests :
          request'[y].pc \in {"assign"} \cup Holding => request'[y] = request[y]
    BY <1>11 DEF ShutdownBatch, Is, Becomes, Ends, NoRequest
  <2>2. \A k \in Tickets : RowFree(k) \/ ticket'[k] = ticket[k]
    BY <1>11, ShutdownRow, PausedRow DEF Set
  <2> QED
    BY <2>1, <2>2 DEF RowFree
<1>12. ASSUME NEW x \in Requests, Fail(x) PROVE RowsHaveOneHolder'
  BY <1>12 DEF Fail, Becomes, Ends, NoRequest
<1>13. ASSUME NEW g \in Groups, SaveTeam(g) PROVE RowsHaveOneHolder'
  BY <1>13 DEF SaveTeam
<1>14. ASSUME NEW c \in Claimers, NEW k \in Tickets, Pick(c, k) PROVE RowsHaveOneHolder'
  BY <1>14 DEF Pick, OpenFor, Present
<1>15. ASSUME NEW c \in Claimers, CommitPick(c) PROVE RowsHaveOneHolder'
  <2>1. \A q \in Tickets : RowFree(q) \/ ticket'[q] = ticket[q]
    BY <1>15 DEF CommitPick, Set
  <2> QED
    BY <1>15, <2>1 DEF CommitPick, RowFree
<1>16. ASSUME NEW k \in Tickets, Unassign(k) PROVE RowsHaveOneHolder'
  BY <1>16 DEF Unassign, Set, MayReassign, RowFree, JobFree
<1>17. ASSUME NEW k \in Tickets, Pause(k) PROVE RowsHaveOneHolder'
  <2>1. \A q \in Tickets : RowFree(q) \/ ticket'[q] = ticket[q]
    BY <1>17 DEF Pause, Set
  <2> QED
    BY <1>17, <2>1 DEF Pause, RowFree
<1>18. ASSUME NEW k \in Tickets, NEW s \in {"ACTIVE", "MERGED"}, CompletePhase(k, s)
       PROVE  RowsHaveOneHolder'
  <2>1. \A q \in Tickets : RowFree(q) \/ ticket'[q] = ticket[q]
    BY <1>18 DEF CompletePhase, Set
  <2> QED
    BY <1>18, <2>1 DEF CompletePhase, RowFree
<1>20. ASSUME NEW k \in Tickets, BlockPhase(k) PROVE RowsHaveOneHolder'
  BY <1>20 DEF BlockPhase, Set
<1>21. ASSUME NEW c \in Claimers, DropPick(c) PROVE RowsHaveOneHolder'
  BY <1>21 DEF DropPick
<1>22. ASSUME NEW k \in Tickets, Heartbeat(k) PROVE RowsHaveOneHolder'
  BY <1>22 DEF Heartbeat, Set, RowFree
<1>23. ASSUME NEW k \in Tickets, CommitHeartbeat(k) PROVE RowsHaveOneHolder'
  BY <1>23 DEF CommitHeartbeat, Set
<1>19. CASE UNCHANGED teamsVars
  BY <1>19 DEF teamsVars
<1> QED
  BY <1>1, <1>2, <1>3, <1>4, <1>5, <1>6, <1>7, <1>8, <1>9,
     <1>10, <1>11, <1>12, <1>13, <1>14, <1>15, <1>16, <1>17, <1>18, <1>19, <1>20, <1>21,
     <1>22, <1>23
     DEF TeamsNext

(* Rows are judged alike while no shutdown ends.                            *)
LEMMA SoundAlike ==
  ASSUME TeamsTypeOK, NEW row \in TicketRow, Sound(row),
         \A g \in Groups : team'[g].stopped => team[g].stopped
  PROVE  Sound(row)'
BY DEF Sound, TicketRow

(* It is enough to look at the row that was written.                        *)
LEMMA OneRowSound ==
  ASSUME TeamsTypeOK, RunsWhereOpen, NEW k \in Tickets, NEW r \in TicketRow, Set(k, r),
         \A g \in Groups : team'[g].stopped => team[g].stopped, Sound(r)
  PROVE  RunsWhereOpen'
<1>1. \A q \in Tickets : ticket'[q] = (IF q = k THEN r ELSE ticket[q]) /\ ticket[q] \in TicketRow
  BY DEF Set, TeamsTypeOK
<1>2. \A q \in Tickets : ticket'[q] \in TicketRow /\ Sound(ticket'[q])
  BY <1>1 DEF RunsWhereOpen
<1> QED
  BY <1>2, SoundAlike DEF RunsWhereOpen, Sound, TicketRow

LEMMA NoRowSound ==
  ASSUME TeamsTypeOK, RunsWhereOpen, UNCHANGED ticket,
         \A g \in Groups : team'[g].stopped => team[g].stopped
  PROVE  RunsWhereOpen'
BY DEF RunsWhereOpen, Sound, TeamsTypeOK, TicketRow

LEMMA RunsStayOpen ==
  ASSUME TeamsInv, [TeamsNext]_teamsVars
  PROVE  RunsWhereOpen'
<1> USE TeamsAssumption DEF TeamsInv
<1>1. ASSUME NEW x \in Requests, NEW k \in Tickets, Resume(x, k) PROVE RunsWhereOpen'
  BY <1>1, NoRowSound DEF Resume
<1>2. ASSUME NEW x \in Requests, NEW k \in Tickets, NEW g \in Groups, Assign(x, k, g)
      PROVE  RunsWhereOpen'
  BY <1>2, NoRowSound DEF Assign
<1>3. ASSUME NEW x \in Requests, LockTask(x) PROVE RunsWhereOpen'
  BY <1>3, NoRowSound DEF LockTask
<1>4. ASSUME NEW x \in Requests, CommitAssign(x) PROVE RunsWhereOpen'
  <2> DEFINE k == request[x].on
             row == [ticket[k] EXCEPT !.of = request[x].for]
  <2>1. k \in Tickets /\ request[x].for \in Groups /\ request[x].open \in BOOLEAN
    BY <1>4 DEF CommitAssign, Is, RowsHaveOneHolder, Holding, TeamsTypeOK, Served
  <2>2. ~ ticket[k].asked /\ ticket[k].job \notin Leased
    BY <1>4 DEF CommitAssign, Is, RowsHaveOneHolder, Holding
  <2>3. row \in TicketRow /\ ~ row.asked /\ row.job \notin Leased
    BY <2>1, <2>2 DEF TeamsTypeOK, TicketRow
  <2>4. PICK r \in {row} \cup Requested(row, request[x].open) : Set(k, r)
    BY <1>4 DEF CommitAssign
  <2>5. r \in TicketRow /\ ~ r.asked /\ r.job # "RUNNING"
    <3>1. CASE r = row
      BY <2>3, <3>1 DEF Leased
    <3>2. CASE r \in Requested(row, request[x].open)
      <4> HIDE DEF row
      <4> QED
        BY <2>1, <2>3, <3>2, RequestedRow DEF Leased
    <3> QED
      BY <3>1, <3>2
  <2>6. Sound(r)
    BY <2>5 DEF Sound
  <2> QED
    BY <1>4, <2>1, <2>4, <2>5, <2>6, OneRowSound DEF CommitAssign
<1>5. ASSUME NEW x \in Requests, CommitResume(x) PROVE RunsWhereOpen'
  <2> DEFINE k == request[x].on
  <2>1. k \in Tickets /\ ~ ticket[k].asked
    BY <1>5 DEF CommitResume, Is, RowsHaveOneHolder, Holding
  <2>2. Sound(ticket[k]) /\ ticket[k] \in TicketRow
    BY <2>1 DEF RunsWhereOpen, TeamsTypeOK
  <2>3. Resumed(ticket[k]) \in TicketRow /\ Sound(Resumed(ticket[k]))
    BY <2>1, <2>2 DEF Resumed, TicketRow, Sound
  <2>4. Enroll(ticket[k]) \in TicketRow /\ Sound(Enroll(ticket[k]))
    BY <2>1, <2>2 DEF Enroll, TicketRow, Sound
  <2>5. Set(k, Resumed(ticket[k])) \/ Set(k, Enroll(ticket[k]))
    BY <1>5 DEF CommitResume
  <2> QED
    BY <1>5, <2>1, <2>3, <2>4, <2>5, OneRowSound DEF CommitResume
<1>6. ASSUME NEW x \in Requests, NEW g \in Groups, Archive(x, g) PROVE RunsWhereOpen'
  BY <1>6, NoRowSound DEF Archive
<1>7. ASSUME NEW x \in Requests, NEW g \in Groups, Wake(x, g) PROVE RunsWhereOpen'
  <2>1. \A h \in Groups : team'[h].stopped => team[h].stopped
    BY <1>7 DEF Wake, TeamsTypeOK, TeamRow
  <2> QED
    BY <1>7, <2>1, NoRowSound DEF Wake
<1>8. ASSUME NEW x \in Requests, NEW g \in Groups, Shutdown(x, g) PROVE RunsWhereOpen'
  <2>1. \A h \in Groups : team'[h].stopped => team[h].stopped
    BY <1>8 DEF Shutdown, TeamsTypeOK, TeamRow
  <2> QED
    BY <1>8, <2>1, NoRowSound DEF Shutdown
<1>9. ASSUME NEW x \in Requests, CommitArchive(x) PROVE RunsWhereOpen'
  <2>1. \A h \in Groups : team'[h].stopped => team[h].stopped
    BY <1>9 DEF CommitArchive, TeamsTypeOK, TeamRow
  <2> QED
    BY <1>9, <2>1, NoRowSound DEF CommitArchive
<1>10. ASSUME NEW x \in Requests, WakeBatch(x) PROVE RunsWhereOpen'
  <2>1. UNCHANGED team
    BY <1>10 DEF WakeBatch
  <2>2. CASE UNCHANGED ticket
    BY <2>1, <2>2, NoRowSound
  <2>3. ASSUME NEW k \in Tickets, NEW r \in TicketRow, RowFree(k), Set(k, r),
               r.of = ticket[k].of, r.asked = ticket[k].asked,
               \/ r.job = "QUEUED"
               \/ r.job = ticket[k].job /\ r.status = "WAITING_HUMAN"
        PROVE  RunsWhereOpen'
    <3>1. Sound(ticket[k]) /\ ~ r.asked
      BY <2>3 DEF RunsWhereOpen, RowFree
    <3>2. Sound(r)
      BY <2>3, <3>1 DEF Sound, Unpaused
    <3> QED
      BY <2>1, <2>3, <3>2, OneRowSound
  <2> QED
    BY <1>10, <2>2, <2>3, WakeRow
<1>11. ASSUME NEW x \in Requests, ShutdownBatch(x) PROVE RunsWhereOpen'
  <2> DEFINE g == request[x].for
  <2>1. CASE UNCHANGED team
    <3>1. CASE UNCHANGED ticket
      BY <2>1, <3>1, NoRowSound
    <3>2. ASSUME NEW k \in Tickets, RowFree(k), Set(k, Paused(ticket[k])) PROVE RunsWhereOpen'
      <4>1. /\ Paused(ticket[k]) \in TicketRow
            /\ ~ Paused(ticket[k]).asked
            /\ Paused(ticket[k]).job = "NONE"
        BY <3>2, PausedRow DEF TeamsTypeOK, RowFree
      <4>2. Sound(Paused(ticket[k]))
        BY <4>1 DEF Sound
      <4> QED
        BY <2>1, <3>2, <4>1, <4>2, OneRowSound
    <3> QED
      BY <1>11, <3>1, <3>2, ShutdownRow
  <2>2. CASE /\ \A k \in Tickets : ticket[k].of = g => ticket[k].status \notin Unpaused
             /\ team' = [team EXCEPT ![g].stopped = TRUE]
             /\ UNCHANGED ticket
    <3>1. \A h \in Groups : h # g => team'[h] = team[h]
      BY <2>2 DEF TeamsTypeOK
    <3>2. ASSUME NEW k \in Tickets PROVE Sound(ticket[k])'
      <4>1. Sound(ticket[k]) /\ ticket[k] \in TicketRow /\ ticket'[k] = ticket[k]
        BY <2>2 DEF RunsWhereOpen, TeamsTypeOK
      <4>2. ticket[k].of = g => ~ ticket[k].asked /\ ticket[k].job # "RUNNING"
        BY <2>2, <4>1 DEF Sound, Unpaused
      <4>3. ticket[k].of \in Groups \cup {NoGroup}
        BY <4>1 DEF TicketRow
      <4> QED
        BY <3>1, <4>1, <4>2, <4>3 DEF Sound
    <3> QED
      BY <3>2 DEF RunsWhereOpen
  <2> QED
    BY <1>11, <2>1, <2>2 DEF ShutdownBatch, Of
<1>12. ASSUME NEW x \in Requests, Fail(x) PROVE RunsWhereOpen'
  BY <1>12, NoRowSound DEF Fail
<1>13. ASSUME NEW g \in Groups, SaveTeam(g) PROVE RunsWhereOpen'
  <2>1. \A h \in Groups : team'[h].stopped => team[h].stopped
    BY <1>13 DEF SaveTeam, TeamsTypeOK, TeamRow
  <2> QED
    BY <1>13, <2>1, NoRowSound DEF SaveTeam
<1>14. ASSUME NEW c \in Claimers, NEW k \in Tickets, Pick(c, k) PROVE RunsWhereOpen'
  BY <1>14, NoRowSound DEF Pick
<1>15. ASSUME NEW c \in Claimers, CommitPick(c) PROVE RunsWhereOpen'
  <2> DEFINE k == picked[c]
             r == [ticket[k] EXCEPT !.job = "CLAIMED"]
  <2>1. k \in Tickets /\ ~ ticket[k].asked
    BY <1>15 DEF CommitPick, RowFree, TeamsTypeOK
  <2>2. r \in TicketRow /\ Sound(r)
    BY <2>1 DEF TeamsTypeOK, TicketRow, Sound
  <2>3. Set(k, r) /\ UNCHANGED team
    BY <1>15 DEF CommitPick
  <2> QED
    BY <2>1, <2>2, <2>3, OneRowSound
<1>16. ASSUME NEW k \in Tickets, Unassign(k) PROVE RunsWhereOpen'
  <2> DEFINE r == [ticket[k] EXCEPT !.of = NoGroup, !.job = "NONE"]
  <2>1. r \in TicketRow /\ Sound(r)
    BY <1>16 DEF Unassign, RowFree, TeamsTypeOK, TicketRow, Sound
  <2>2. Set(k, r) /\ UNCHANGED team
    BY <1>16 DEF Unassign
  <2> QED
    BY <2>1, <2>2, OneRowSound
<1>17. ASSUME NEW k \in Tickets, Pause(k) PROVE RunsWhereOpen'
  <2>1. Paused(ticket[k]) \in TicketRow /\ Sound(Paused(ticket[k]))
    BY <1>17, PausedRow DEF Pause, RowFree, TeamsTypeOK, Sound
  <2> QED
    BY <1>17, <2>1, OneRowSound DEF Pause
<1>18. ASSUME NEW k \in Tickets, NEW s \in {"ACTIVE", "MERGED"}, CompletePhase(k, s)
       PROVE  RunsWhereOpen'
  <2> DEFINE r == [ticket[k] EXCEPT !.status = s, !.job = IF s = "ACTIVE" THEN "QUEUED" ELSE "NONE"]
  <2>1. r \in TicketRow /\ Sound(r)
    BY <1>18 DEF CompletePhase, RowFree, TeamsTypeOK, TicketRow, Sound
  <2>2. Set(k, r) /\ UNCHANGED team
    BY <1>18 DEF CompletePhase
  <2> QED
    BY <2>1, <2>2, OneRowSound
<1>20. ASSUME NEW k \in Tickets, BlockPhase(k) PROVE RunsWhereOpen'
  <2> DEFINE r == [ticket[k] EXCEPT
                     !.status = IF @ \in {"NEW", "ACTIVE"} THEN "WAITING_HUMAN" ELSE @, !.job = "NONE"]
  <2>1. r \in TicketRow /\ Sound(r)
    BY <1>20 DEF BlockPhase, RowFree, TeamsTypeOK, TicketRow, Sound
  <2>2. Set(k, r) /\ UNCHANGED team
    BY <1>20 DEF BlockPhase
  <2> QED
    BY <2>1, <2>2, OneRowSound
<1>21. ASSUME NEW c \in Claimers, DropPick(c) PROVE RunsWhereOpen'
  BY <1>21, NoRowSound DEF DropPick
<1>22. ASSUME NEW k \in Tickets, Heartbeat(k) PROVE RunsWhereOpen'
  <2> DEFINE r == [ticket[k] EXCEPT !.asked = TRUE]
  <2>1. ticket[k].of \in Groups /\ ~ team[ticket[k].of].paused /\ ticket[k].status \in {"NEW", "ACTIVE"}
    BY <1>22 DEF Heartbeat, OpenFor, TeamsTypeOK, TicketRow
  <2>2. ~ team[ticket[k].of].stopped
    BY <2>1 DEF StoppedArePaused
  <2>3. r \in TicketRow /\ Sound(r)
    BY <2>1, <2>2 DEF TeamsTypeOK, TicketRow, Sound, RunsWhereOpen
  <2>4. Set(k, r) /\ UNCHANGED team
    BY <1>22 DEF Heartbeat
  <2> QED
    BY <2>3, <2>4, OneRowSound
<1>23. ASSUME NEW k \in Tickets, CommitHeartbeat(k) PROVE RunsWhereOpen'
  <2>1. Sound(ticket[k]) /\ ticket[k].asked /\ ticket[k] \in TicketRow
    BY <1>23 DEF CommitHeartbeat, RunsWhereOpen, TeamsTypeOK
  <2>2. \A j \in {"RUNNING", ticket[k].job} :
          LET r == [ticket[k] EXCEPT !.job = j, !.asked = FALSE] IN r \in TicketRow /\ Sound(r)
    BY <2>1 DEF TicketRow, Sound, Unpaused
  <2>3. PICK j \in {"RUNNING", ticket[k].job} :
          Set(k, [ticket[k] EXCEPT !.job = j, !.asked = FALSE])
    BY <1>23 DEF CommitHeartbeat
  <2> QED
    BY <1>23, <2>2, <2>3, OneRowSound DEF CommitHeartbeat
<1>19. CASE UNCHANGED teamsVars
  BY <1>19, NoRowSound DEF teamsVars
<1> QED
  BY <1>1, <1>2, <1>3, <1>4, <1>5, <1>6, <1>7, <1>8, <1>9,
     <1>10, <1>11, <1>12, <1>13, <1>14, <1>15, <1>16, <1>17, <1>18, <1>19, <1>20, <1>21,
     <1>22, <1>23
     DEF TeamsNext

LEMMA StoppedStayPaused ==
  ASSUME TeamsInv, [TeamsNext]_teamsVars
  PROVE  StoppedArePaused'
<1> USE DEF TeamsInv, TeamsTypeOK, TeamRow, StoppedArePaused
<1>1. CASE UNCHANGED team
  BY <1>1
<1>2. ASSUME NEW x \in Requests, NEW g \in Groups, Wake(x, g) \/ Shutdown(x, g)
      PROVE  StoppedArePaused'
  BY <1>2 DEF Wake, Shutdown
<1>3. ASSUME NEW x \in Requests, CommitArchive(x) PROVE StoppedArePaused'
  BY <1>3 DEF CommitArchive
<1>4. ASSUME NEW x \in Requests, ShutdownBatch(x) PROVE StoppedArePaused'
  BY <1>4 DEF ShutdownBatch
<1>5. ASSUME NEW g \in Groups, SaveTeam(g) PROVE StoppedArePaused'
  BY <1>5 DEF SaveTeam
<1> QED
  BY <1>1, <1>2, <1>3, <1>4, <1>5
     DEF TeamsNext, teamsVars, Resume, Assign, LockTask, CommitAssign, CommitResume, Archive,
         WakeBatch, Fail, Pick, CommitPick, DropPick, Unassign, Pause, Heartbeat,
         CommitHeartbeat, BlockPhase, CompletePhase

-----------------------------------------------------------------------------
LEMMA TeamsInvHolds == TeamsSpec => []TeamsInv
<1>1. TeamsInit => TeamsInv
  <2> SUFFICES ASSUME TeamsInit PROVE TeamsInv
    OBVIOUS
  <2>1. TeamsTypeOK
    BY TypesStart
  <2>2. \A k \in Tickets : ~ ticket[k].asked /\ ticket[k].job = "NONE"
    BY DEF TeamsInit
  <2>3. RowsHaveOneHolder /\ RunsWhereOpen /\ StoppedArePaused
    BY <2>2 DEF TeamsInit, RowsHaveOneHolder, RunsWhereOpen, Sound, StoppedArePaused, Holding,
                NoRequest
  <2> QED
    BY <2>1, <2>3 DEF TeamsInv
<1>2. TeamsInv /\ [TeamsNext]_teamsVars => TeamsInv'
  BY TypesStay, RowsKeepOneHolder, RunsStayOpen, StoppedStayPaused DEF TeamsInv
<1> QED
  BY <1>1, <1>2, PTL DEF TeamsSpec

(* When a shutdown has ended, and until the next wake, no phase runs in its  *)
(* Team, for any number of tasks, Teams, requests and controllers           *)
(* (shutdown(), assign_in_transaction(), heartbeat()).                      *)
THEOREM ShutdownEndsWork == TeamsSpec => []NothingRunsAfterShutdown
<1>1. TeamsInv => NothingRunsAfterShutdown
  BY DEF TeamsInv, RunsWhereOpen, Sound, NothingRunsAfterShutdown
<1> QED
  BY <1>1, TeamsInvHolds, PTL

-----------------------------------------------------------------------------
(***************************************************************************)
(* Sessions. A receipt takes away only what its turn was told.             *)
(*                                                                         *)
(* What a turn is told is put together from rows that change while it      *)
(* waits: the invariant says that an execution sees the session as it is   *)
(* until its turn begins (AsLoaded), what a session without a thread still *)
(* owes its next thread (Untold, RolloverOK, PreparedOK), and so what the  *)
(* turn in flight was sent (SentOK, InFlightOK), also when its lease is    *)
(* gone.                                                                   *)
(***************************************************************************)
(* Rows keep their fields; of most of them no more matters here.             *)
TaskFields(t) ==
  t \in [stage : {t.stage}, status : {t.status}, version : Nat, asked : {t.asked},
         planned : {t.planned}, repaired : {t.repaired}]
SessionFields(s) ==
  s \in [number : {s.number}, id : Nat, state : {s.state}, version : Nat, feedback : {s.feedback},
         packet : {s.packet}, rollover : {s.rollover}, acked : BOOLEAN, pending : {s.pending},
         handoff : BOOLEAN, guidance : {s.guidance}, full : {s.full},
         compacted : {s.compacted}, bounded : {s.bounded}]
RunFields(r) ==
  r \in [status : {r.status}, code : {r.code}, version : Nat, checks : {r.checks},
         settled : BOOLEAN]
LeaseFields(l) ==
  l \in [pc : {l.pc}, live : BOOLEAN, todo : {l.todo}, dirs : {l.dirs}, prepared : BOOLEAN,
         bounded : {l.bounded}, view : {l.view}, version : {l.version}, asked : {l.asked},
         known : {l.known}, sent : {l.sent}]

SessionsType ==
  /\ TaskFields(devTask) /\ SessionFields(session) /\ RunFields(lastRun) /\ LeaseFields(lease)
  /\ session.rollover.made \in BOOLEAN
  /\ newest \in Nat /\ threads \in Nat

(* No row is of a later version than the task.                              *)
VersionsOK == session.version <= devTask.version /\ lastRun.version <= devTask.version

Before == {"recover", "continue", "begin"}
InFlight == {"start", "send", "turn"}
Flying == IF lease.pc \in InFlight THEN lease ELSE adrift

(* A lease that is held has a task to develop, and one execution at a time   *)
(* has a run: a turn adrift is of an execution before the present one.       *)
OneExecution ==
  /\ lease.live => Develops /\ devTask.status = "ACTIVE" /\ lease.pc # "idle"
  /\ lastRun.status = "RUNNING" => Develops /\ ~ lastRun.settled
  /\ lease.pc \in {"limit", "finish"} => lastRun.status # "RUNNING"
  /\ adrift # NoLease => lease.pc \notin InFlight \union {"limit", "finish"}
  /\ lease.pc \in InFlight /\ lastRun.status # "RUNNING" => ~ lease.live
  /\ lastRun.code = "TURN_INPUT_LIMIT" => lastRun.status = "INTERRUPTED"

(* A turn is sent on a thread.                                              *)
HasThread ==
  /\ lease.live /\ lease.pc \in {"send", "turn", "limit", "finish"} => session.id # NoThread
  /\ lastRun.status = "RUNNING" /\ (lease.pc \in {"send", "turn"} \/ adrift # NoLease)
       => session.id # NoThread

(* Until its turn begins, an execution sees the session as it is, but for    *)
(* what the receipt of a turn adrift takes from it.                          *)
AsLoaded ==
  lease.live /\ lease.pc \in Before =>
    /\ lease.view.id = session.id /\ lease.view.packet = session.packet
    /\ lease.view.rollover = session.rollover /\ lease.view.acked = session.acked
    /\ lease.view.handoff = session.handoff
    /\ session.feedback \subseteq lease.view.feedback
    /\ lease.asked = devTask.asked

(* What a new thread will be told.                                          *)
Untold ==
  session.id = NoThread /\ ~ session.rollover.made =>
    /\ devTask.stage = "FIXING" =>
         session.feedback \subseteq devTask.asked \union session.packet
                                    \union (IF session.handoff THEN session.feedback ELSE {})
    /\ ~ session.handoff =>
         /\ Develops
         /\ lastRun.code = "TURN_INPUT_LIMIT" /\ lastRun.version = devTask.version =>
              /\ lastRun.checks # "passed"
              /\ devTask.stage = "FIXING"
RolloverOK == session.id = NoThread /\ session.rollover.made => ~ session.acked

(* A repair that was prepared for.                                          *)
PreparedOK ==
  /\ lease.live /\ lease.prepared /\ lease.pc # "idle" /\ session.rollover.made =>
       session.feedback \subseteq session.rollover.deltas
  /\ lease.live /\ lease.pc = "continue" => session.id = NoThread \/ lease.prepared

SentOK ==
  lease.live /\ lease.pc = "begin" /\ devTask.stage = "FIXING" /\ Working(Mode) =>
     session.feedback \subseteq lease.sent

InFlightOK ==
  lastRun.status = "RUNNING" /\ devTask.version = session.version /\ Flying # NoLease =>
    /\ session.feedback \subseteq Flying.known
    /\ devTask.stage = "FIXING" /\ Working(Head(Flying.todo)) => session.feedback \subseteq Flying.sent

TurnsInv ==
  /\ SessionsType /\ VersionsOK /\ OneExecution /\ HasThread /\ AsLoaded /\ Untold /\ RolloverOK
  /\ PreparedOK /\ SentOK /\ InFlightOK

LEMMA BlockedKeeps ==
  ASSUME TurnsInv, Blocks, UNCHANGED <<session, lastRun, adrift, newest, threads>>
  PROVE  TurnsInv'
<1> USE DEF TurnsInv, Blocks
<1>1. /\ LeaseFields(lease') /\ lease'.pc = "idle" /\ ~ lease'.live /\ lease' = NoLease
      /\ lease'.todo = <<>>
  BY DEF LeaseFields, NoLease
<1>2. /\ TaskFields(devTask') /\ devTask'.stage = devTask.stage /\ devTask'.version = devTask.version
      /\ devTask'.asked = devTask.asked
  BY DEF SessionsType, TaskFields
<1>3. SessionsType'
  BY <1>1, <1>2 DEF SessionsType
<1>4. VersionsOK'
  BY <1>2 DEF VersionsOK
<1>5. OneExecution'
  BY <1>1, <1>2 DEF OneExecution, Develops, InFlight
<1>6. HasThread' /\ AsLoaded' /\ PreparedOK' /\ SentOK'
  BY <1>1 DEF HasThread, AsLoaded, PreparedOK, SentOK, OneExecution, InFlight
<1>7. Untold' /\ RolloverOK'
  BY <1>2 DEF Untold, RolloverOK, Develops
<1>8. InFlightOK'
  BY <1>1, <1>2 DEF InFlightOK, Flying, InFlight, OneExecution
<1> QED BY <1>3, <1>4, <1>5, <1>6, <1>7, <1>8

LEMMA LoadedLease ==
  ASSUME LeaseFields(lease), NEW modes, NEW row
  PROVE  LET l == LoadContext(lease, modes, row)
         IN  /\ LeaseFields(l) /\ l.pc = "recover" /\ l.view = row /\ l.live = lease.live
             /\ l.prepared = lease.prepared /\ l.asked = devTask.asked
             /\ l # NoLease
  BY DEF LeaseFields, LoadContext, NoLease

LEMMA LoadedKeeps ==
  ASSUME TurnsInv, NEW modes, Then(modes, session), lease.pc # "idle", lease.pc \notin InFlight,
         UNCHANGED <<devTask, session, lastRun, adrift, newest, threads>>
  PROVE  TurnsInv'
<1> USE DEF TurnsInv
<1>1. /\ LeaseFields(lease') /\ lease'.pc = "recover" /\ lease'.view = session
      /\ lease'.live = lease.live /\ lease'.prepared = lease.prepared /\ lease'.asked = devTask.asked
      /\ lease' # NoLease
  BY LoadedLease DEF SessionsType, Then
<1>2. SessionsType' /\ VersionsOK'
  BY <1>1 DEF SessionsType, VersionsOK
<1>3. OneExecution'
  BY <1>1 DEF OneExecution, Develops, InFlight
<1>4. HasThread' /\ AsLoaded' /\ SentOK'
  BY <1>1 DEF HasThread, AsLoaded, SentOK, Before
<1>5. PreparedOK'
  BY <1>1 DEF PreparedOK
<1>6. Untold' /\ RolloverOK'
  BY DEF Untold, RolloverOK, Develops
<1>7. InFlightOK'
  BY <1>1 DEF InFlightOK, Flying, InFlight
<1> QED BY <1>2, <1>3, <1>4, <1>5, <1>6, <1>7

LEMMA RolledOverRow ==
  ASSUME SessionFields(session)
  PROVE  /\ SessionFields(RolledOver) /\ RolledOver.id = NoThread /\ RolledOver.acked = FALSE
         /\ RolledOver.version = session.version /\ RolledOver.feedback = session.feedback
         /\ RolledOver.packet = session.packet /\ RolledOver.handoff = session.handoff
         /\ RolledOver.rollover.made = TRUE /\ RolledOver.rollover.deltas = session.feedback
  BY DEF SessionFields, RolledOver, NoThread

LEMMA RolledKeeps ==
  ASSUME TurnsInv, MayRoll, RollsOver,
         \/ lease' = lease /\ ~ lease.live
         \/ \E modes : Then(modes, session') /\ lease.pc # "idle" /\ lease.pc \notin InFlight,
         UNCHANGED <<devTask, lastRun, adrift, newest, threads>>
  PROVE  TurnsInv'
<1> USE DEF TurnsInv
<1>1. /\ SessionFields(session') /\ session'.id = NoThread /\ session'.acked = FALSE
      /\ session'.version = session.version /\ session'.feedback = session.feedback
      /\ session'.packet = session.packet /\ session'.handoff = session.handoff
      /\ session'.rollover.made = TRUE /\ session'.rollover.deltas = session.feedback
  BY RolledOverRow DEF SessionsType, RollsOver
<1>2. lastRun.status # "RUNNING"
  BY DEF MayRoll, Settled
<1>3. CASE lease' = lease /\ ~ lease.live
  <2>1. SessionsType' /\ VersionsOK'
    BY <1>1, <1>3 DEF SessionsType, VersionsOK
  <2>2. OneExecution' /\ HasThread' /\ AsLoaded' /\ PreparedOK' /\ SentOK' /\ InFlightOK'
    BY <1>1, <1>2, <1>3 DEF OneExecution, Develops, HasThread, AsLoaded, PreparedOK, SentOK, InFlightOK
  <2>3. Untold' /\ RolloverOK'
    BY <1>1 DEF Untold, RolloverOK
  <2> QED BY <2>1, <2>2, <2>3
<1>4. ASSUME NEW modes, Then(modes, session'), lease.pc # "idle", lease.pc \notin InFlight
      PROVE  TurnsInv'
  <2>1. /\ LeaseFields(lease') /\ lease'.pc = "recover" /\ lease'.view = session'
        /\ lease'.live = lease.live /\ lease'.prepared = lease.prepared
        /\ lease'.asked = devTask.asked /\ lease' # NoLease
    BY <1>4, LoadedLease DEF SessionsType, Then
  <2>2. SessionsType' /\ VersionsOK'
    BY <1>1, <2>1 DEF SessionsType, VersionsOK
  <2>3. OneExecution' /\ HasThread' /\ AsLoaded' /\ PreparedOK' /\ SentOK'
    BY <1>1, <1>2, <1>4, <2>1
    DEF OneExecution, Develops, HasThread, AsLoaded, PreparedOK, SentOK, InFlight, Before
  <2>4. Untold' /\ RolloverOK' /\ InFlightOK'
    BY <1>1, <1>2 DEF Untold, RolloverOK, InFlightOK
  <2> QED BY <2>2, <2>3, <2>4
<1> QED BY <1>3, <1>4

LEMMA AcknowledgeKeepsTurns == TurnsInv /\ Acknowledge => TurnsInv'
<1> SUFFICES ASSUME TurnsInv, Acknowledge PROVE TurnsInv'
  OBVIOUS
<1>1. lease.pc # "idle" /\ lease.pc \notin InFlight
  BY DEF Acknowledge, Continues, InFlight
<1>2. CASE Blocks
  BY <1>2, BlockedKeeps DEF Acknowledge
<1>3. CASE Then(<<"ack", "plain">>, session) /\ UNCHANGED devTask
  BY <1>1, <1>3, LoadedKeeps DEF Acknowledge
<1> QED BY <1>2, <1>3 DEF Acknowledge

LEMMA RollsKeeps ==
  ASSUME TurnsInv, NEW modes, AutoRolls(modes), lease.pc # "idle", lease.pc \notin InFlight,
         UNCHANGED <<lastRun, adrift, newest, threads>>
  PROVE  TurnsInv'
<1>1. CASE Blocks /\ UNCHANGED <<session, contexts>>
  BY <1>1, BlockedKeeps
<1>2. CASE MayRoll /\ RollsOver /\ Then(modes, session') /\ UNCHANGED devTask
  BY <1>2, RolledKeeps
<1> QED BY <1>1, <1>2 DEF AutoRolls

LEMMA RollAtSoftLimitKeepsTurns == TurnsInv /\ RollAtSoftLimit => TurnsInv'
<1> SUFFICES ASSUME TurnsInv, RollAtSoftLimit PROVE TurnsInv'
  OBVIOUS
<1>1. lease.pc # "idle" /\ lease.pc \notin InFlight
  BY DEF RollAtSoftLimit, Continues, InFlight
<1> QED BY <1>1, RollsKeeps DEF RollAtSoftLimit

LEMMA FinishMilestoneKeepsTurns == TurnsInv /\ FinishMilestone => TurnsInv'
<1> SUFFICES ASSUME TurnsInv, FinishMilestone PROVE TurnsInv'
  OBVIOUS
<1>1. lease.pc # "idle" /\ lease.pc \notin InFlight
  BY DEF FinishMilestone, InFlight
<1> QED BY <1>1, RollsKeeps DEF FinishMilestone

LEMMA OperatorRolloverKeepsTurns == TurnsInv /\ OperatorRollover => TurnsInv'
  BY RolledKeeps DEF OperatorRollover, MayChange

LEMMA CompactKeepsTurns == TurnsInv /\ Compact => TurnsInv'
<1> SUFFICES ASSUME TurnsInv, Compact PROVE TurnsInv'
  OBVIOUS
<1>1. lease.pc # "idle" /\ lease.pc \notin InFlight
  BY DEF Compact, Continues, InFlight
<1> QED BY <1>1, LoadedKeeps DEF Compact

LEMMA FinishCompactionKeepsTurns == TurnsInv /\ FinishCompaction => TurnsInv'
<1> SUFFICES ASSUME TurnsInv, FinishCompaction PROVE TurnsInv'
  OBVIOUS
<1>1. lease.pc # "idle" /\ lease.pc \notin InFlight
  BY DEF FinishCompaction, InFlight
<1> QED BY <1>1, LoadedKeeps DEF FinishCompaction

LEMMA PreparedRow ==
  ASSUME SessionFields(session)
  PROVE  /\ SessionFields(Prepared) /\ Prepared.id = NoThread /\ Prepared.acked = FALSE
         /\ Prepared.version = session.version /\ Prepared.feedback = session.feedback
         /\ Prepared.packet = session.feedback /\ Prepared.handoff = FALSE
         /\ Prepared.rollover.made = FALSE
  BY DEF SessionFields, Prepared, NoThread, NoRollover

LEMMA PrepareRepairKeepsTurns == TurnsInv /\ PrepareRepair => TurnsInv'
<1> SUFFICES ASSUME TurnsInv, PrepareRepair PROVE TurnsInv'
  OBVIOUS
<1> USE DEF TurnsInv
<1>0. lease.pc = "recover" /\ ~ CandidateReady /\ MustPrepare
      /\ UNCHANGED <<lastRun, adrift, newest, threads>>
  BY DEF PrepareRepair
<1>1. CASE Blocks /\ UNCHANGED <<session, contexts>>
  BY <1>0, <1>1, BlockedKeeps
<1>2. CASE /\ AssertRunnable /\ (lease.prepared \/ session.id = NoThread)
           /\ lease' = [lease EXCEPT !.pc = "continue", !.view = session]
           /\ UNCHANGED <<devTask, session, contexts>>
  <2>1. /\ LeaseFields(lease') /\ lease'.pc = "continue" /\ lease'.view = session
        /\ lease'.live = lease.live /\ lease'.prepared = lease.prepared
        /\ lease'.asked = lease.asked /\ lease' # NoLease /\ lease.live
    BY <1>2 DEF SessionsType, LeaseFields, NoLease, AssertRunnable
  <2>2. SessionsType' /\ VersionsOK'
    BY <1>0, <1>2, <2>1 DEF SessionsType, VersionsOK
  <2>3. OneExecution' /\ HasThread' /\ SentOK'
    BY <1>0, <1>2, <2>1 DEF OneExecution, Develops, HasThread, SentOK, InFlight
  <2>4. AsLoaded' /\ PreparedOK'
    BY <1>0, <1>2, <2>1 DEF AsLoaded, Before, PreparedOK
  <2>5. Untold' /\ RolloverOK' /\ InFlightOK'
    BY <1>0, <1>2, <2>1 DEF Untold, Develops, RolloverOK, InFlightOK, Flying, InFlight
  <2> QED BY <2>2, <2>3, <2>4, <2>5
<1>3. CASE /\ AssertRunnable /\ session.id # NoThread /\ Resting /\ Settled
           /\ session' = Prepared
           /\ lease' = [lease EXCEPT !.pc = "continue", !.view = session', !.prepared = TRUE,
                                     !.bounded = session.bounded]
           /\ UNCHANGED devTask
  <2>1. /\ LeaseFields(lease') /\ lease'.pc = "continue" /\ lease'.view = session'
        /\ lease'.live = lease.live /\ lease'.prepared = TRUE
        /\ lease'.asked = lease.asked /\ lease' # NoLease /\ lease.live
    BY <1>3 DEF SessionsType, LeaseFields, NoLease, AssertRunnable
  <2>2. /\ SessionFields(session') /\ session'.id = NoThread /\ session'.acked = FALSE
        /\ session'.version = session.version /\ session'.feedback = session.feedback
        /\ session'.packet = session.feedback /\ session'.handoff = FALSE
        /\ session'.rollover.made = FALSE
    BY <1>3, PreparedRow DEF SessionsType
  <2>3. devTask.stage = "FIXING" /\ lastRun.status # "RUNNING" /\ lastRun.settled
    BY <1>0, <1>3 DEF MustPrepare, Settled
  <2>4. SessionsType' /\ VersionsOK'
    BY <1>0, <1>3, <2>1, <2>2 DEF SessionsType, VersionsOK
  <2>5. OneExecution' /\ HasThread' /\ SentOK'
    BY <1>0, <1>3, <2>1, <2>3 DEF OneExecution, Develops, HasThread, SentOK, InFlight
  <2>6. AsLoaded' /\ PreparedOK'
    BY <1>0, <1>3, <2>1, <2>2 DEF AsLoaded, Before, PreparedOK
  <2>7. ~ (lastRun.code = "TURN_INPUT_LIMIT" /\ lastRun.version = devTask.version
           /\ lastRun.checks = "passed")
    BY <1>0, <1>3, <2>3 DEF CandidateReady, Cut, OneExecution, Settled
  <2>8. Untold'
    BY <1>0, <1>3, <2>2, <2>3, <2>7 DEF Untold, Develops
  <2>9. RolloverOK' /\ InFlightOK'
    BY <1>0, <2>2, <2>3 DEF RolloverOK, InFlightOK
  <2> QED BY <2>4, <2>5, <2>6, <2>8, <2>9
<1> QED BY <1>1, <1>2, <1>3 DEF PrepareRepair, Retired

(* The prompt of a repair turn carries the pending deltas.                   *)
LEMMA RepairPrompt ==
  ASSUME TurnsInv, Continues, ~ Unacknowledged, lease.live, devTask.stage = "FIXING",
         Working(Mode), session.feedback # {}
  PROVE  session.feedback \subseteq Prompt
<1> USE DEF TurnsInv
<1>1. lease.pc \in {"recover", "continue"} /\ Mode \notin {"compact", "ack"}
  BY DEF Continues, Working
<1>2. /\ lease.view.id = session.id /\ lease.view.packet = session.packet
      /\ lease.view.rollover = session.rollover /\ lease.view.acked = session.acked
      /\ lease.view.handoff = session.handoff
      /\ session.feedback \subseteq lease.view.feedback
      /\ lease.asked = devTask.asked
  BY <1>1 DEF AsLoaded, Before
<1>3. lease.pc = "continue"
  BY <1>1, <1>2 DEF Continues, MustPrepare
<1>4. CASE session.id = NoThread
  <2>1. ~ session.rollover.made
    BY <1>1, <1>2, <1>4 DEF RolloverOK, Unacknowledged, SessionsType
  <2>2. session.feedback \subseteq devTask.asked \union session.packet
           \union (IF session.handoff THEN session.feedback ELSE {})
    BY <1>4, <2>1 DEF Untold
  <2>3. Starting
    BY <1>2, <1>4 DEF Starting
  <2>4. session.feedback \subseteq FullRequest
    BY <1>2, <2>2, <2>3 DEF FullRequest
  <2> QED BY <1>1, <2>3, <2>4 DEF Prompt
<1>5. CASE session.id # NoThread /\ Continuing
  <2>1. session.feedback \subseteq session.rollover.deltas
    BY <1>2, <1>3, <1>5 DEF PreparedOK, Continuing
  <2>2. session.feedback \subseteq FullRequest
    BY <1>2, <1>5, <2>1 DEF FullRequest
  <2> QED BY <1>1, <1>5, <2>2 DEF Prompt
<1>6. CASE session.id # NoThread /\ ~ Continuing
  BY <1>1, <1>2, <1>6 DEF Prompt, Starting
<1> QED BY <1>4, <1>5, <1>6

LEMMA AdmitKeepsTurns == TurnsInv /\ Admit => TurnsInv'
<1> SUFFICES ASSUME TurnsInv, Admit PROVE TurnsInv'
  OBVIOUS
<1> USE DEF TurnsInv
<1>0. /\ lease.pc \in {"recover", "continue"} /\ Continues /\ ~ Unacknowledged
      /\ UNCHANGED <<session, lastRun, adrift, newest, threads>>
  BY DEF Admit, Continues
<1>1. CASE Blocks
  BY <1>0, <1>1, BlockedKeeps
<1>2. CASE /\ lease' = [lease EXCEPT !.pc = "begin", !.sent = Prompt, !.dirs = @ \union {Suffix}]
           /\ UNCHANGED devTask
  <2>1. /\ LeaseFields(lease') /\ lease'.pc = "begin" /\ lease'.view = lease.view
        /\ lease'.live = lease.live /\ lease'.prepared = lease.prepared
        /\ lease'.asked = lease.asked /\ lease' # NoLease /\ lease'.sent = Prompt
        /\ lease'.todo = lease.todo
    BY <1>2 DEF SessionsType, LeaseFields, NoLease
  <2>2. SessionsType' /\ VersionsOK'
    BY <1>0, <1>2, <2>1 DEF SessionsType, VersionsOK
  <2>3. OneExecution' /\ HasThread' /\ AsLoaded' /\ PreparedOK'
    BY <1>0, <1>2, <2>1
    DEF OneExecution, Develops, HasThread, AsLoaded, Before, PreparedOK, InFlight
  <2>4. Untold' /\ RolloverOK' /\ InFlightOK'
    BY <1>0, <1>2, <2>1 DEF Untold, Develops, RolloverOK, InFlightOK, Flying, InFlight
  <2>5. SentOK'
    <3>1. Mode' = Mode
      BY <2>1 DEF Mode
    <3> QED BY <1>0, <1>2, <2>1, <3>1, RepairPrompt DEF SentOK
  <2> QED BY <2>2, <2>3, <2>4, <2>5
<1> QED BY <1>1, <1>2 DEF Admit

LEMMA BeginRunKeepsTurns == TurnsInv /\ BeginRun => TurnsInv'
<1> SUFFICES ASSUME TurnsInv, BeginRun PROVE TurnsInv'
  OBVIOUS
<1> USE DEF TurnsInv
<1>0. lease.pc = "begin" /\ UNCHANGED <<newest, threads>>
  BY DEF BeginRun
<1>1. CASE Blocks /\ UNCHANGED <<session, contexts, lastRun, adrift>>
  BY <1>0, <1>1, BlockedKeeps
<1>2. CASE /\ AssertRunnable /\ lease.version = devTask.version
           /\ session' = [session EXCEPT !.state = "RUNNING", !.version = lease.version]
           /\ lastRun' = [status |-> "RUNNING", code |-> "", version |-> lease.version,
                          checks |-> "none", settled |-> FALSE]
           /\ lease' = [lease EXCEPT !.pc = IF Starting THEN "start" ELSE "send",
                                     !.known = lease.view.feedback, !.view = <<>>, !.asked = {}]
           /\ adrift' = NoLease /\ UNCHANGED devTask
  <2>1. /\ LeaseFields(lease') /\ lease'.pc \in {"start", "send"}
        /\ (lease'.pc = "send" => ~ Starting)
        /\ lease'.live = lease.live /\ lease.live /\ lease'.prepared = lease.prepared
        /\ lease' # NoLease /\ lease'.sent = lease.sent /\ lease'.known = lease.view.feedback
        /\ lease'.todo = lease.todo
    BY <1>2 DEF SessionsType, LeaseFields, NoLease, AssertRunnable
  <2>2. /\ SessionFields(session') /\ session'.id = session.id /\ session'.version = devTask.version
        /\ session'.feedback = session.feedback /\ session'.packet = session.packet
        /\ session'.handoff = session.handoff /\ session'.rollover = session.rollover
        /\ session'.acked = session.acked
    BY <1>2 DEF SessionsType, SessionFields, TaskFields
  <2>3. /\ RunFields(lastRun') /\ lastRun'.status = "RUNNING" /\ lastRun'.code = ""
        /\ lastRun'.version = devTask.version /\ lastRun'.settled = FALSE
    BY <1>2 DEF SessionsType, TaskFields, RunFields
  <2>4. lease.view.id = session.id /\ session.feedback \subseteq lease.view.feedback
    BY <1>0, <2>1 DEF AsLoaded, Before
  <2>5. SessionsType' /\ VersionsOK'
    <3>0. devTask.version \in Nat
      BY DEF SessionsType, TaskFields
    <3>3. devTask' = devTask
      BY <1>2
    <3>4. session'.version = devTask'.version /\ lastRun'.version = devTask'.version
      BY <3>3, <2>2, <2>3
    <3>5. devTask'.version \in Nat
      BY <3>0, <3>3
    <3>1. VersionsOK'
      BY <3>4, <3>5 DEF VersionsOK
    <3>2. TaskFields(devTask') /\ session'.rollover.made \in BOOLEAN
      BY <1>2, <2>2 DEF SessionsType
    <3> QED BY <1>0, <2>1, <2>2, <2>3, <3>1, <3>2 DEF SessionsType
  <2>6. OneExecution'
    BY <1>0, <1>2, <2>1, <2>3 DEF OneExecution, Develops, InFlight, AssertRunnable
  <2>7. HasThread' /\ AsLoaded' /\ PreparedOK' /\ SentOK'
    BY <1>0, <1>2, <2>1, <2>2, <2>3, <2>4
    DEF HasThread, AsLoaded, Before, PreparedOK, SentOK, Starting
  <2>8. Untold' /\ RolloverOK'
    BY <1>2, <2>2, <2>3 DEF Untold, Develops, AssertRunnable, RolloverOK
  <2>9. InFlightOK'
    <3>1. Flying' = lease'
      BY <2>1 DEF Flying, InFlight
    <3>2. Head(lease.todo) = Mode
      BY DEF Mode
    <3> QED BY <1>0, <1>2, <2>1, <2>2, <2>4, <3>1, <3>2 DEF InFlightOK, SentOK
  <2> QED BY <2>5, <2>6, <2>7, <2>8, <2>9
<1> QED BY <1>1, <1>2 DEF BeginRun

LEMMA SessionStartedKeepsTurns == TurnsInv /\ SessionStarted => TurnsInv'
<1> SUFFICES ASSUME TurnsInv, SessionStarted PROVE TurnsInv'
  OBVIOUS
<1> USE DEF TurnsInv, SessionStarted
<1>1. /\ SessionFields(session') /\ session'.id = threads' /\ session'.id # NoThread
      /\ session'.feedback = session.feedback /\ session'.version = session.version
      /\ session'.rollover = session.rollover
  BY DEF SessionsType, SessionFields, NoThread
<1>2. /\ LeaseFields(lease') /\ lease'.pc = "send" /\ lease'.live = lease.live
      /\ lease'.prepared = lease.prepared /\ lease'.todo = lease.todo
      /\ lease'.known = lease.known /\ lease'.sent = lease.sent /\ lease' # NoLease
  BY DEF SessionsType, LeaseFields, NoLease
<1>3. lease.pc = "start" /\ lease # NoLease /\ UNCHANGED <<devTask, lastRun, adrift, newest>>
  BY DEF NoLease
<1>4. SessionsType' /\ VersionsOK'
  BY <1>1, <1>2, <1>3 DEF SessionsType, VersionsOK
<1>5. OneExecution' /\ HasThread' /\ AsLoaded' /\ PreparedOK' /\ SentOK'
  BY <1>1, <1>2, <1>3
  DEF OneExecution, Develops, InFlight, HasThread, AsLoaded, Before, PreparedOK, SentOK
<1>6. Untold' /\ RolloverOK'
  BY <1>1 DEF Untold, RolloverOK
<1>7. InFlightOK'
  BY <1>1, <1>2, <1>3 DEF InFlightOK, Flying, InFlight
<1> QED BY <1>4, <1>5, <1>6, <1>7

(* A receipt changes the state of the session and no more that is told.      *)
SameTalk ==
  /\ SessionFields(session') /\ session'.id = session.id /\ session'.feedback = session.feedback
  /\ session'.version = session.version /\ session'.packet = session.packet
  /\ session'.handoff = session.handoff /\ session'.rollover = session.rollover
  /\ session'.acked = session.acked

(* The run of a turn is over, if there was one.                              *)
RunOver ==
  /\ RunFields(lastRun') /\ lastRun'.status # "RUNNING" /\ lastRun'.version = lastRun.version
  /\ \/ lastRun'.code = lastRun.code /\ lastRun'.checks = lastRun.checks
     \/ lastRun'.code # "TURN_INPUT_LIMIT"
  /\ lastRun'.code = "TURN_INPUT_LIMIT" => lastRun'.status = "INTERRUPTED"

(* The lease is given back, and the run ends beside it.                      *)
LEMMA EndedRunKeeps ==
  ASSUME TurnsInv, SameTalk, RunOver, Blocks, UNCHANGED <<newest, threads>>
  PROVE  TurnsInv'
<1> USE DEF TurnsInv, Blocks, RunOver, SameTalk
<1>1. /\ LeaseFields(lease') /\ lease'.pc = "idle" /\ ~ lease'.live /\ lease' = NoLease
  BY DEF LeaseFields, NoLease
<1>2. /\ TaskFields(devTask') /\ devTask'.stage = devTask.stage /\ devTask'.version = devTask.version
      /\ devTask'.asked = devTask.asked
  BY DEF SessionsType, TaskFields
<1>3. SessionsType' /\ VersionsOK'
  BY <1>1, <1>2 DEF SessionsType, VersionsOK
<1>4. OneExecution' /\ HasThread' /\ AsLoaded' /\ PreparedOK' /\ SentOK' /\ InFlightOK'
  BY <1>1, <1>2 DEF OneExecution, InFlight, HasThread, AsLoaded, PreparedOK, SentOK, InFlightOK
<1>5. Untold' /\ RolloverOK'
  BY <1>2 DEF Untold, Develops, RolloverOK
<1> QED BY <1>3, <1>4, <1>5

LEMMA BlockedRow ==
  ASSUME TurnsInv, session' = [session EXCEPT !.state = "BLOCKED"]
  PROVE  SameTalk
  BY DEF TurnsInv, SessionsType, SessionFields, SameTalk

LEMMA FailedRun ==
  ASSUME TurnsInv, lastRun.status = "RUNNING", NEW settled \in BOOLEAN,
         \/ lastRun' = [lastRun EXCEPT !.status = "FAILED", !.settled = settled]
         \/ lastRun' = [lastRun EXCEPT !.status = "FAILED"]
  PROVE  RunOver
  BY DEF TurnsInv, SessionsType, RunFields, RunOver, OneExecution

LEMMA FailBeforeTurnKeepsTurns == TurnsInv /\ FailBeforeTurn => TurnsInv'
<1> SUFFICES ASSUME TurnsInv, FailBeforeTurn PROVE TurnsInv'
  OBVIOUS
<1>1. CASE lastRun.status = "RUNNING"
  BY <1>1, BlockedRow, FailedRun, EndedRunKeeps DEF FailBeforeTurn
<1>2. CASE lastRun.status # "RUNNING"
  BY <1>2, BlockedKeeps DEF FailBeforeTurn
<1> QED BY <1>1, <1>2

LEMMA FailTurnKeepsTurns == TurnsInv /\ FailTurn => TurnsInv'
<1> SUFFICES ASSUME TurnsInv, FailTurn PROVE TurnsInv'
  OBVIOUS
<1>1. CASE lastRun.status = "RUNNING"
  <2>1. RunOver
    BY <1>1, FailedRun DEF FailTurn
  <2> QED BY <1>1, <2>1, BlockedRow, EndedRunKeeps DEF FailTurn
<1>2. CASE lastRun.status # "RUNNING"
  BY <1>2, BlockedKeeps DEF FailTurn
<1> QED BY <1>1, <1>2

LEMMA ReceiptStoppedKeepsTurns == TurnsInv /\ ReceiptStopped => TurnsInv'
<1> SUFFICES ASSUME TurnsInv, ReceiptStopped PROVE TurnsInv'
  OBVIOUS
<1>0. lease.pc = "turn" /\ lastRun.status = "RUNNING" /\ UNCHANGED <<adrift, newest, threads>>
  BY DEF ReceiptStopped
<1>1. SameTalk
  <2>1. PICK level \in Levels :
           session' = [session EXCEPT !.state = "BLOCKED", !.full = level,
                         !.compacted = @ \/ Mode = "compact"]
    BY DEF ReceiptStopped
  <2> QED BY <2>1 DEF TurnsInv, SessionsType, SessionFields, SameTalk
<1>2. CASE lastRun' = [lastRun EXCEPT !.status = "FAILED", !.settled = TRUE] /\ Blocks
  BY <1>0, <1>1, <1>2, FailedRun, EndedRunKeeps
<1>3. ASSUME NEW checks \in {"none", "passed", "lint"}, UNCHANGED devTask, GoesTo("limit"),
             lastRun' = [lastRun EXCEPT !.status = "INTERRUPTED", !.settled = TRUE,
                           !.code = "TURN_INPUT_LIMIT", !.checks = checks]
      PROVE  TurnsInv'
  <2> USE DEF TurnsInv
  <2>1. /\ LeaseFields(lease') /\ lease'.pc = "limit" /\ lease'.live = lease.live
        /\ lease'.prepared = lease.prepared /\ lease' # NoLease
    BY <1>3 DEF SessionsType, LeaseFields, GoesTo, NoLease
  <2>2. /\ RunFields(lastRun') /\ lastRun'.status = "INTERRUPTED" /\ lastRun'.version = lastRun.version
    BY <1>3 DEF SessionsType, RunFields
  <2>3. SessionsType' /\ VersionsOK'
    BY <1>0, <1>1, <1>3, <2>1, <2>2 DEF SameTalk, SessionsType, VersionsOK
  <2>4. OneExecution'
    BY <1>0, <1>3, <2>1, <2>2 DEF OneExecution, Develops, InFlight
  <2>5. session.id # NoThread
    BY <1>0 DEF HasThread
  <2>6. HasThread' /\ AsLoaded' /\ PreparedOK' /\ SentOK' /\ InFlightOK'
    BY <1>0, <1>1, <2>1, <2>2, <2>5
    DEF SameTalk, HasThread, AsLoaded, Before, PreparedOK, SentOK, InFlightOK
  <2>7. Untold' /\ RolloverOK'
    BY <1>1, <2>5 DEF SameTalk, Untold, RolloverOK
  <2> QED BY <2>3, <2>4, <2>6, <2>7
<1> QED BY <1>0, <1>2, <1>3 DEF ReceiptStopped

LEMMA ReceiptAckKeepsTurns == TurnsInv /\ ReceiptAck => TurnsInv'
<1> SUFFICES ASSUME TurnsInv, ReceiptAck PROVE TurnsInv'
  OBVIOUS
<1>0. lease.pc = "turn" /\ lastRun.status = "RUNNING" /\ UNCHANGED <<adrift, newest, threads>>
  BY DEF ReceiptAck
<1>1. ASSUME NEW level \in Levels, Blocks,
             session' = [session EXCEPT !.state = "BLOCKED", !.full = level],
             lastRun' = [lastRun EXCEPT !.status = "FAILED", !.settled = TRUE]
      PROVE  TurnsInv'
  <2>1. SameTalk
    BY <1>1 DEF TurnsInv, SessionsType, SessionFields, SameTalk
  <2> QED BY <1>0, <1>1, <2>1, FailedRun, EndedRunKeeps
<1>2. ASSUME NEW ack \in BOOLEAN, NEW level \in Levels, Then(<<>>, session'), UNCHANGED devTask,
             session' = [session EXCEPT !.state = IF ack THEN "READY" ELSE "BLOCKED",
                           !.acked = ack, !.pending = @ \/ ack, !.full = level],
             lastRun' = [lastRun EXCEPT !.status = "COMPLETED", !.settled = TRUE]
      PROVE  TurnsInv'
  <2> USE DEF TurnsInv
  <2>1. /\ SessionFields(session') /\ session'.id = session.id /\ session'.version = session.version
        /\ session'.feedback = session.feedback /\ session'.packet = session.packet
        /\ session'.handoff = session.handoff /\ session'.rollover = session.rollover
    BY <1>2 DEF SessionsType, SessionFields
  <2>2. /\ LeaseFields(lease') /\ lease'.pc = "recover" /\ lease'.view = session'
        /\ lease'.live = lease.live /\ lease'.prepared = lease.prepared
        /\ lease'.asked = devTask.asked /\ lease' # NoLease
    BY <1>2, LoadedLease DEF SessionsType, Then
  <2>3. /\ RunFields(lastRun') /\ lastRun'.status = "COMPLETED" /\ lastRun'.version = lastRun.version
        /\ lastRun'.code = lastRun.code
    BY <1>2 DEF SessionsType, RunFields
  <2>4. SessionsType' /\ VersionsOK'
    BY <1>0, <1>2, <2>1, <2>2, <2>3 DEF SessionsType, VersionsOK
  <2>5. session.id # NoThread
    BY <1>0 DEF HasThread
  <2>6. OneExecution' /\ HasThread'
    BY <1>0, <1>2, <2>2, <2>3 DEF OneExecution, Develops, InFlight, HasThread
  <2>7. AsLoaded' /\ PreparedOK' /\ SentOK' /\ InFlightOK'
    BY <1>0, <1>2, <2>1, <2>2, <2>3
    DEF AsLoaded, Before, PreparedOK, SentOK, InFlightOK
  <2>8. Untold' /\ RolloverOK'
    BY <2>1, <2>5 DEF Untold, RolloverOK
  <2> QED BY <2>4, <2>6, <2>7, <2>8
<1> QED BY <1>0, <1>1, <1>2 DEF ReceiptAck

LEMMA AdriftFailsKeepsTurns == TurnsInv /\ AdriftFails => TurnsInv'
<1> SUFFICES ASSUME TurnsInv, AdriftFails PROVE TurnsInv'
  OBVIOUS
<1> USE DEF TurnsInv
<1>0. UNCHANGED <<devTask, lease, newest, threads>> /\ adrift' = NoLease /\ adrift # NoLease
  BY DEF AdriftFails
<1>1. CASE lastRun.status = "RUNNING"
  <2>1. SameTalk
    BY <1>1, BlockedRow DEF AdriftFails
  <2>2. RunOver
    BY <1>1, FailedRun DEF AdriftFails
  <2>3. SessionsType' /\ VersionsOK'
    BY <1>0, <2>1, <2>2 DEF SameTalk, RunOver, SessionsType, VersionsOK
  <2>4. OneExecution' /\ HasThread'
    BY <1>0, <2>1, <2>2 DEF SameTalk, RunOver, OneExecution, Develops, InFlight, HasThread
  <2>5. Mode' = Mode
    BY <1>0 DEF Mode
  <2>6. AsLoaded' /\ PreparedOK' /\ SentOK' /\ InFlightOK'
    BY <1>0, <2>1, <2>2, <2>5 DEF SameTalk, RunOver, AsLoaded, PreparedOK, SentOK, InFlightOK
  <2>7. Untold' /\ RolloverOK'
    BY <1>0, <2>1, <2>2 DEF SameTalk, RunOver, Untold, Develops, RolloverOK
  <2> QED BY <2>3, <2>4, <2>6, <2>7
<1>2. CASE lastRun.status # "RUNNING"
  <2>0. UNCHANGED <<session, lastRun>> /\ Mode' = Mode
    BY <1>0, <1>2 DEF AdriftFails, Mode
  <2>1. SessionsType' /\ VersionsOK' /\ OneExecution' /\ HasThread'
    BY <1>0, <1>2, <2>0 DEF SessionsType, VersionsOK, OneExecution, Develops, InFlight, HasThread
  <2>2. AsLoaded' /\ PreparedOK' /\ SentOK' /\ InFlightOK'
    BY <1>0, <1>2, <2>0 DEF AsLoaded, PreparedOK, SentOK, InFlightOK
  <2>3. Untold' /\ RolloverOK'
    BY <1>0, <1>2, <2>0 DEF Untold, Develops, RolloverOK
  <2> QED BY <2>1, <2>2, <2>3
<1> QED BY <1>1, <1>2

LEMMA AdriftLateKeepsTurns == TurnsInv /\ AdriftLate => TurnsInv'
<1> SUFFICES ASSUME TurnsInv, AdriftLate PROVE TurnsInv'
  OBVIOUS
<1> USE DEF TurnsInv
<1>0. /\ UNCHANGED <<devTask, lease, newest, threads>> /\ adrift' = NoLease /\ adrift # NoLease
      /\ lastRun.status # "RUNNING" /\ lastRun.code # "TURN_INPUT_LIMIT"
  BY DEF AdriftLate, Late
<1>1. SameTalk
  BY BlockedRow DEF AdriftLate
<1>2. RunOver
  BY <1>0 DEF AdriftLate, SessionsType, RunFields, RunOver
<1>3. SessionsType' /\ VersionsOK'
  BY <1>0, <1>1, <1>2 DEF SameTalk, RunOver, SessionsType, VersionsOK
<1>4. OneExecution' /\ HasThread'
  BY <1>0, <1>1, <1>2 DEF SameTalk, RunOver, OneExecution, Develops, InFlight, HasThread
<1>5. Mode' = Mode
  BY <1>0 DEF Mode
<1>6. AsLoaded' /\ PreparedOK' /\ SentOK' /\ InFlightOK'
  BY <1>0, <1>1, <1>2, <1>5 DEF SameTalk, RunOver, AsLoaded, PreparedOK, SentOK, InFlightOK
<1>7. Untold' /\ RolloverOK'
  BY <1>0, <1>1, <1>2 DEF SameTalk, RunOver, Untold, Develops, RolloverOK
<1> QED BY <1>3, <1>4, <1>6, <1>7

(* What a receipt leaves of the session.                                     *)
LEMMA AcceptedRows ==
  ASSUME TurnsInv, NEW t, Accepts(t), lastRun.status = "RUNNING"
  PROVE  /\ SessionFields(session') /\ session'.id = session.id /\ session'.version = session.version
         /\ session'.feedback = IF Consumes(Head(t.todo)) THEN {} ELSE session.feedback
         /\ session'.packet = session.packet /\ session'.handoff = session.handoff
         /\ session'.rollover = session.rollover /\ session'.acked = session.acked
         /\ RunFields(lastRun') /\ lastRun'.status = "COMPLETED" /\ lastRun'.version = lastRun.version
         /\ lastRun'.code = lastRun.code /\ lastRun'.checks = lastRun.checks
         /\ lastRun'.code # "TURN_INPUT_LIMIT" /\ lastRun'.settled = TRUE
<1>1. PICK level \in Levels : session' = [session EXCEPT
           !.state = "READY", !.full = level,
           !.pending = @ /\ ~ Working(Head(t.todo)),
           !.compacted = @ \/ Head(t.todo) = "compact",
           !.feedback = IF Consumes(Head(t.todo)) THEN {} ELSE @,
           !.guidance = IF Consumes(Head(t.todo)) THEN [version |-> 0, deltas |-> {}] ELSE @]
  BY DEF Accepts
<1>2. /\ SessionFields(session') /\ session'.id = session.id /\ session'.version = session.version
      /\ session'.feedback = IF Consumes(Head(t.todo)) THEN {} ELSE session.feedback
      /\ session'.packet = session.packet /\ session'.handoff = session.handoff
      /\ session'.rollover = session.rollover /\ session'.acked = session.acked
  BY <1>1 DEF TurnsInv, SessionsType, SessionFields
<1> QED BY <1>2 DEF TurnsInv, SessionsType, RunFields, Accepts, OneExecution

LEMMA ReceiptCompletedKeepsTurns == TurnsInv /\ ReceiptCompleted => TurnsInv'
<1> SUFFICES ASSUME TurnsInv, ReceiptCompleted PROVE TurnsInv'
  OBVIOUS
<1> USE DEF TurnsInv
<1>0. /\ UNCHANGED <<devTask, adrift, newest, threads>> /\ lease.pc = "turn"
      /\ lastRun.status = "RUNNING"
  BY DEF ReceiptCompleted
<1>1. /\ SessionFields(session') /\ session'.id = session.id /\ session'.version = session.version
      /\ session'.feedback \subseteq session.feedback
      /\ session'.packet = session.packet /\ session'.handoff = session.handoff
      /\ session'.rollover = session.rollover /\ session'.acked = session.acked
      /\ RunFields(lastRun') /\ lastRun'.status = "COMPLETED" /\ lastRun'.version = lastRun.version
      /\ lastRun'.code # "TURN_INPUT_LIMIT" /\ session.id # NoThread
  BY <1>0, AcceptedRows DEF ReceiptCompleted, HasThread
<1>2. /\ LeaseFields(lease') /\ lease'.pc = "finish" /\ lease'.live = lease.live
      /\ lease'.prepared = lease.prepared /\ lease' # NoLease
  BY DEF ReceiptCompleted, SessionsType, LeaseFields, GoesTo, NoLease
<1>3. SessionsType' /\ VersionsOK'
  BY <1>0, <1>1, <1>2 DEF SessionsType, VersionsOK
<1>4. OneExecution' /\ HasThread'
  BY <1>0, <1>1, <1>2 DEF OneExecution, Develops, InFlight, HasThread
<1>5. AsLoaded' /\ PreparedOK' /\ SentOK' /\ InFlightOK'
  BY <1>0, <1>1, <1>2 DEF AsLoaded, Before, PreparedOK, SentOK, InFlightOK
<1>6. Untold' /\ RolloverOK'
  BY <1>1 DEF Untold, RolloverOK
<1> QED BY <1>3, <1>4, <1>5, <1>6

LEMMA AdriftCompletedKeepsTurns == TurnsInv /\ AdriftCompleted => TurnsInv'
<1> SUFFICES ASSUME TurnsInv, AdriftCompleted PROVE TurnsInv'
  OBVIOUS
<1> USE DEF TurnsInv
<1>0. /\ UNCHANGED <<devTask, lease, newest, threads>> /\ adrift # NoLease /\ adrift' = NoLease
      /\ lastRun.status = "RUNNING"
  BY DEF AdriftCompleted
<1>1. /\ SessionFields(session') /\ session'.id = session.id /\ session'.version = session.version
      /\ session'.feedback \subseteq session.feedback
      /\ session'.packet = session.packet /\ session'.handoff = session.handoff
      /\ session'.rollover = session.rollover /\ session'.acked = session.acked
      /\ RunFields(lastRun') /\ lastRun'.status = "COMPLETED" /\ lastRun'.version = lastRun.version
      /\ lastRun'.code # "TURN_INPUT_LIMIT" /\ session.id # NoThread
  BY <1>0, AcceptedRows DEF AdriftCompleted, HasThread
<1>3. SessionsType' /\ VersionsOK'
  BY <1>0, <1>1 DEF SessionsType, VersionsOK
<1>4. OneExecution' /\ HasThread'
  BY <1>0, <1>1 DEF OneExecution, Develops, InFlight, HasThread
<1>5. Mode' = Mode
  BY <1>0 DEF Mode
<1>6. AsLoaded' /\ PreparedOK' /\ SentOK' /\ InFlightOK'
  BY <1>0, <1>1, <1>5 DEF AsLoaded, Before, PreparedOK, SentOK, InFlightOK
<1>7. Untold' /\ RolloverOK'
  BY <1>1 DEF Untold, RolloverOK
<1> QED BY <1>3, <1>4, <1>6, <1>7

LEMMA DriftKeepsTurns == TurnsInv /\ Drift => TurnsInv'
<1> SUFFICES ASSUME TurnsInv, Drift PROVE TurnsInv'
  OBVIOUS
<1> USE DEF TurnsInv
<1>0. /\ lease.pc = "turn" /\ ~ lease.live /\ adrift' = lease
      /\ UNCHANGED <<devTask, session, lastRun, newest, threads>>
      /\ LeaseFields(lease') /\ lease'.pc = "idle" /\ ~ lease'.live
  BY DEF Drift, LeaseFields, NoLease
<1>1. SessionsType' /\ VersionsOK' /\ OneExecution' /\ HasThread'
  BY <1>0 DEF SessionsType, VersionsOK, OneExecution, Develops, InFlight, HasThread
<1>2. AsLoaded' /\ PreparedOK' /\ SentOK'
  BY <1>0 DEF AsLoaded, PreparedOK, SentOK
<1>3. InFlightOK'
  BY <1>0 DEF InFlightOK, Flying, InFlight, NoLease
<1>4. Untold' /\ RolloverOK'
  BY <1>0 DEF Untold, Develops, RolloverOK
<1> QED BY <1>1, <1>2, <1>3, <1>4

LEMMA SendTurnKeepsTurns == TurnsInv /\ SendTurn => TurnsInv'
<1> SUFFICES ASSUME TurnsInv, SendTurn PROVE TurnsInv'
  OBVIOUS
<1> USE DEF TurnsInv
<1>0. /\ lease.pc = "send" /\ lease # NoLease
      /\ UNCHANGED <<devTask, session, lastRun, adrift, newest, threads>>
      /\ LeaseFields(lease') /\ lease'.pc = "turn" /\ lease' # NoLease /\ lease'.live = lease.live
      /\ lease'.prepared = lease.prepared /\ lease'.todo = lease.todo
      /\ lease'.known = lease.known /\ lease'.sent = lease.sent
  BY DEF SendTurn, GoesTo, SessionsType, LeaseFields, NoLease
<1>1. SessionsType' /\ VersionsOK' /\ OneExecution' /\ HasThread'
  BY <1>0 DEF SessionsType, VersionsOK, OneExecution, Develops, InFlight, HasThread
<1>2. AsLoaded' /\ PreparedOK' /\ SentOK'
  BY <1>0 DEF AsLoaded, Before, PreparedOK, SentOK
<1>3. InFlightOK'
  BY <1>0 DEF InFlightOK, Flying, InFlight
<1>4. Untold' /\ RolloverOK'
  BY <1>0 DEF Untold, Develops, RolloverOK
<1> QED BY <1>1, <1>2, <1>3, <1>4

LEMMA ClaimKeepsTurns == TurnsInv /\ Claim => TurnsInv'
<1> SUFFICES ASSUME TurnsInv, Claim PROVE TurnsInv'
  OBVIOUS
<1> USE DEF TurnsInv
<1>0. /\ UNCHANGED <<devTask, session, lastRun, adrift, newest, threads>>
      /\ lease.pc = "idle" /\ Develops /\ devTask.status = "ACTIVE"
      /\ LeaseFields(lease') /\ lease'.pc = "recover" /\ lease'.view = session
      /\ ~ lease'.prepared /\ lease'.asked = devTask.asked /\ lease' # NoLease
  BY DEF Claim, Idle, LoadContext, LeaseFields, NoLease
<1>1. SessionsType' /\ VersionsOK' /\ OneExecution' /\ HasThread'
  BY <1>0 DEF SessionsType, VersionsOK, OneExecution, Develops, InFlight, HasThread
<1>2. AsLoaded' /\ PreparedOK' /\ SentOK'
  BY <1>0 DEF AsLoaded, PreparedOK, SentOK
<1>3. InFlightOK'
  BY <1>0 DEF InFlightOK, Flying, InFlight
<1>4. Untold' /\ RolloverOK'
  BY <1>0 DEF Untold, Develops, RolloverOK
<1> QED BY <1>1, <1>2, <1>3, <1>4

(* A phase that ends gives its lease back; work goes on in another phase.    *)
LEMMA EndedPhaseKeeps ==
  ASSUME TurnsInv, NEW stage, PhaseEnds(stage), lastRun.status # "RUNNING",
         session.id # NoThread \/ session.handoff \/ session.rollover.made \/ ~ lease.live,
         UNCHANGED <<session, lastRun, adrift, newest, threads>>
  PROVE  TurnsInv'
<1> USE DEF TurnsInv
<1>1. /\ LeaseFields(lease') /\ lease'.pc = "idle" /\ ~ lease'.live
      /\ TaskFields(devTask') /\ devTask'.version = devTask.version /\ devTask'.asked = devTask.asked
  BY DEF PhaseEnds, SessionsType, TaskFields, LeaseFields, NoLease
<1>2. SessionsType' /\ VersionsOK' /\ OneExecution' /\ HasThread'
  BY <1>1 DEF SessionsType, VersionsOK, OneExecution, InFlight, HasThread
<1>3. AsLoaded' /\ PreparedOK' /\ SentOK' /\ InFlightOK'
  BY <1>1 DEF AsLoaded, PreparedOK, SentOK, InFlightOK
<1>4. Untold'
  <2>1. CASE lease.live
    BY <1>1, <2>1 DEF Untold
  <2>2. CASE ~ lease.live
    BY <1>1, <2>2 DEF Untold, PhaseEnds, Develops
  <2> QED BY <2>1, <2>2
<1>5. RolloverOK'
  BY DEF RolloverOK
<1> QED BY <1>2, <1>3, <1>4, <1>5

LEMMA ValidateCandidateKeepsTurns == TurnsInv /\ ValidateCandidate => TurnsInv'
<1> SUFFICES ASSUME TurnsInv, ValidateCandidate PROVE TurnsInv'
  OBVIOUS
<1>1. lastRun.status # "RUNNING"
  BY DEF ValidateCandidate, CandidateReady, Cut
<1>2. session.id # NoThread \/ session.handoff \/ session.rollover.made
  BY DEF ValidateCandidate, CandidateReady, Cut, TurnsInv, Untold
<1> QED BY <1>1, <1>2, EndedPhaseKeeps DEF ValidateCandidate

LEMMA FinishDevelopmentKeepsTurns == TurnsInv /\ FinishDevelopment => TurnsInv'
<1> SUFFICES ASSUME TurnsInv, FinishDevelopment PROVE TurnsInv'
  OBVIOUS
<1>1. CASE Blocks
  BY <1>1, BlockedKeeps DEF FinishDevelopment
<1>2. lastRun.status # "RUNNING" /\ (lease.live => session.id # NoThread)
  BY DEF FinishDevelopment, TurnsInv, OneExecution, HasThread
<1>3. CASE PhaseEnds("VALIDATING") \/ PhaseEnds("PLANNING")
  BY <1>2, <1>3, EndedPhaseKeeps DEF FinishDevelopment
<1> QED BY <1>1, <1>3 DEF FinishDevelopment

LEMMA BlockFailedTurnKeepsTurns == TurnsInv /\ BlockFailedTurn => TurnsInv'
  BY BlockedKeeps DEF BlockFailedTurn

(* A new delta replaces what the session is told.                            *)
LEMMA NewFeedback ==
  ASSUME TurnsInv, NewDelta, NEW s,
         \/ s = [session EXCEPT !.feedback = {newest'}]
         \/ s = [session EXCEPT !.feedback = @ \union {newest'}]
         \/ s = [session EXCEPT !.feedback = {newest'}, !.bounded = TRUE]
  PROVE  /\ SessionFields(s) /\ s.id = session.id /\ s.version = session.version
         /\ s.packet = session.packet /\ s.handoff = session.handoff
         /\ s.rollover = session.rollover /\ s.acked = session.acked
         /\ newest' \in Nat
<1>1. newest' \in Nat
  BY DEF TurnsInv, SessionsType, NewDelta
<1>2. SessionFields(session)
  BY DEF TurnsInv, SessionsType
<1>3. CASE s = [session EXCEPT !.feedback = {newest'}]
  BY <1>1, <1>2, <1>3 DEF SessionFields
<1>4. CASE s = [session EXCEPT !.feedback = @ \union {newest'}]
  BY <1>1, <1>2, <1>4 DEF SessionFields
<1>5. CASE s = [session EXCEPT !.feedback = {newest'}, !.bounded = TRUE]
  BY <1>1, <1>2, <1>5 DEF SessionFields
<1> QED BY <1>3, <1>4, <1>5

LEMMA BoundedRepairKeepsTurns == TurnsInv /\ BoundedRepair => TurnsInv'
<1> SUFFICES ASSUME TurnsInv, BoundedRepair PROVE TurnsInv'
  OBVIOUS
<1> USE DEF TurnsInv
<1>0. /\ UNCHANGED <<lastRun, adrift, threads>> /\ lastRun.status # "RUNNING"
      /\ session.id # NoThread \/ session.handoff \/ session.rollover.made
  BY DEF BoundedRepair, RepairReady, Cut, Untold
<1>1. /\ SessionFields(session') /\ session'.id = session.id /\ session'.version = session.version
      /\ session'.packet = session.packet /\ session'.handoff = session.handoff
      /\ session'.rollover = session.rollover /\ session'.acked = session.acked
      /\ newest' \in Nat
  BY NewFeedback DEF BoundedRepair
<1>2. /\ TaskFields(devTask') /\ devTask'.stage = "FIXING" /\ devTask'.version = devTask.version
      /\ devTask'.asked = devTask.asked
  BY DEF BoundedRepair, SessionsType, TaskFields
<1>3. LeaseFields(lease') /\ lease'.pc = "idle" /\ ~ lease'.live
  BY DEF BoundedRepair, LeaseFields, NoLease
<1>4. SessionsType' /\ VersionsOK' /\ OneExecution' /\ HasThread'
  BY <1>0, <1>1, <1>2, <1>3 DEF SessionsType, VersionsOK, OneExecution, InFlight, HasThread
<1>5. AsLoaded' /\ PreparedOK' /\ SentOK' /\ InFlightOK'
  BY <1>0, <1>3 DEF AsLoaded, PreparedOK, SentOK, InFlightOK
<1>6. Untold' /\ RolloverOK'
  BY <1>0, <1>1, <1>2 DEF Untold, RolloverOK, Develops
<1> QED BY <1>4, <1>5, <1>6

(* What another phase asks of the Developer: it has no execution meanwhile.  *)
LEMMA AskedKeeps ==
  ASSUME TurnsInv, NewDelta, ~ Develops, session' = [session EXCEPT !.feedback = {newest'}],
         NEW stage \in {"FIXING", "DEVELOPING"}, NEW planned,
         devTask' = [devTask EXCEPT !.stage = stage, !.planned = planned],
         UNCHANGED <<lastRun, lease, adrift, threads>>
  PROVE  TurnsInv'
<1> USE DEF TurnsInv
<1>0. ~ lease.live /\ lastRun.status # "RUNNING"
  BY DEF OneExecution
<1>1. /\ SessionFields(session') /\ session'.id = session.id /\ session'.version = session.version
      /\ session'.packet = session.packet /\ session'.handoff = session.handoff
      /\ session'.rollover = session.rollover /\ session'.acked = session.acked
      /\ newest' \in Nat
  BY NewFeedback
<1>2. /\ TaskFields(devTask') /\ devTask'.stage = stage /\ devTask'.version = devTask.version
      /\ devTask'.asked = devTask.asked
  BY DEF SessionsType, TaskFields
<1>4. SessionsType' /\ VersionsOK' /\ OneExecution' /\ HasThread'
  BY <1>0, <1>1, <1>2 DEF SessionsType, VersionsOK, OneExecution, InFlight, HasThread
<1>5. AsLoaded' /\ PreparedOK' /\ SentOK' /\ InFlightOK'
  BY <1>0 DEF AsLoaded, PreparedOK, SentOK, InFlightOK
<1>6. Untold' /\ RolloverOK'
  BY <1>0, <1>1, <1>2 DEF Untold, RolloverOK, Develops
<1> QED BY <1>4, <1>5, <1>6

LEMMA ValidationFailedKeepsTurns == TurnsInv /\ ValidationFailed => TurnsInv'
<1> SUFFICES ASSUME TurnsInv, ValidationFailed PROVE TurnsInv'
  OBVIOUS
<1>1. devTask' = [devTask EXCEPT !.stage = "FIXING", !.planned = devTask.planned]
  BY DEF ValidationFailed, TurnsInv, SessionsType, TaskFields
<1> QED BY <1>1, AskedKeeps DEF ValidationFailed, Develops

LEMMA PlanReadyKeepsTurns == TurnsInv /\ PlanReady => TurnsInv'
  BY AskedKeeps DEF PlanReady, Develops

LEMMA ReviewFixKeepsTurns == TurnsInv /\ ReviewFix => TurnsInv'
<1> SUFFICES ASSUME TurnsInv, ReviewFix PROVE TurnsInv'
  OBVIOUS
<1>1. devTask' = [devTask EXCEPT !.stage = "FIXING", !.planned = devTask.planned]
  BY DEF ReviewFix, TurnsInv, SessionsType, TaskFields
<1> QED BY <1>1, AskedKeeps DEF ReviewFix, Develops

(* A revision takes the lease with it: no turn of the requirement before is  *)
(* of this version.                                                          *)
LEMMA RevokedLease ==
  ASSUME TurnsInv, Revokes
  PROVE  /\ LeaseFields(lease') /\ ~ lease'.live /\ lease'.pc = lease.pc
         /\ lease'.known = lease.known /\ lease'.sent = lease.sent /\ lease'.todo = lease.todo
  BY DEF TurnsInv, SessionsType, LeaseFields, Revokes

LEMMA RevisionKeeps ==
  ASSUME TurnsInv, Revokes, NewDelta, UNCHANGED <<lastRun, adrift, threads>>,
         SessionFields(session'), session'.id = session.id, session'.version = session.version,
         session'.feedback = {newest'}, session'.packet = session.packet,
         session'.handoff = session.handoff, session'.rollover = session.rollover,
         session'.acked = session.acked,
         TaskFields(devTask'), devTask'.stage = "FIXING", devTask'.version = devTask.version + 1,
         session.id = NoThread => newest' \in devTask'.asked
  PROVE  TurnsInv'
<1> USE DEF TurnsInv
<1>1. /\ LeaseFields(lease') /\ ~ lease'.live /\ lease'.pc = lease.pc
      /\ newest' \in Nat
  BY RevokedLease, NewFeedback
<1>2. devTask.version \in Nat /\ session.version \in Nat /\ lastRun.version \in Nat
  BY DEF SessionsType, TaskFields, SessionFields, RunFields
<1>3. VersionsOK' /\ session'.version < devTask'.version /\ lastRun'.version < devTask'.version
  BY <1>2 DEF VersionsOK
<1>4. SessionsType' /\ HasThread'
  BY <1>1 DEF SessionsType, HasThread
<1>5. OneExecution'
  BY <1>1 DEF OneExecution, InFlight, Develops
<1>6. AsLoaded' /\ PreparedOK' /\ SentOK'
  BY <1>1 DEF AsLoaded, PreparedOK, SentOK
<1>7. InFlightOK'
  BY <1>2, <1>3 DEF InFlightOK
<1>8. Untold' /\ RolloverOK'
  BY <1>2, <1>3 DEF Untold, RolloverOK, Develops
<1> QED BY <1>3, <1>4, <1>5, <1>6, <1>7, <1>8

LEMMA RevisedRow ==
  ASSUME TurnsInv, NEW status, NEW asked
  PROVE  /\ RevisedTask(status).asked = devTask.asked
         /\ LET t == [RevisedTask(status) EXCEPT !.asked = asked]
            IN  /\ TaskFields(t) /\ t.stage = "FIXING" /\ t.version = devTask.version + 1
                /\ t.asked = asked
<1>1. TaskFields(devTask)
  BY DEF TurnsInv, SessionsType
<1> DEFINE r == RevisedTask(status)
<1>2. /\ r.asked = devTask.asked /\ r.stage = "FIXING" /\ r.version = devTask.version + 1
  BY <1>1 DEF RevisedTask, TaskFields
<1>4. TaskFields(r)
  <2>0. devTask.version + 1 \in Nat
    BY <1>1 DEF TaskFields
  <2>1. ASSUME NEW v \in Nat, NEW x,
               x = [devTask EXCEPT !.version = v, !.stage = "FIXING", !.status = status]
        PROVE  TaskFields(x)
    BY <1>1, <2>1 DEF TaskFields
  <2>2. r = [devTask EXCEPT !.version = devTask.version + 1, !.stage = "FIXING", !.status = status]
    BY DEF RevisedTask
  <2>3. TaskFields(r)
    <3> HIDE DEF r
    <3> QED BY <2>0, <2>1, <2>2
  <2> QED BY <2>3
<1> HIDE DEF r
<1> DEFINE t == [r EXCEPT !.asked = asked]
<1>3. TaskFields(t) /\ t.stage = "FIXING" /\ t.version = devTask.version + 1 /\ t.asked = asked
  BY <1>2, <1>4 DEF TaskFields
<1> QED BY <1>2, <1>3 DEF r

LEMMA FeedbackRow ==
  ASSUME TurnsInv, session' = [session EXCEPT !.feedback = {newest'}]
  PROVE  session'.feedback = {newest'}
  BY DEF TurnsInv, SessionsType, SessionFields

LEMMA OperatorFeedbackKeepsTurns == TurnsInv /\ OperatorFeedback => TurnsInv'
<1> SUFFICES ASSUME TurnsInv, OperatorFeedback PROVE TurnsInv'
  OBVIOUS
<1>1. devTask' = [RevisedTask("HELD") EXCEPT !.asked =
                    IF session.id = NoThread THEN devTask.asked \union {newest'} ELSE devTask.asked]
  BY RevisedRow DEF OperatorFeedback
<1>2. /\ TaskFields(devTask') /\ devTask'.stage = "FIXING" /\ devTask'.version = devTask.version + 1
      /\ session.id = NoThread => newest' \in devTask'.asked
  BY <1>1, RevisedRow
<1> QED BY <1>2, NewFeedback, FeedbackRow, RevisionKeeps DEF OperatorFeedback

LEMMA TrackerEditKeepsTurns == TurnsInv /\ TrackerEdit => TurnsInv'
<1> SUFFICES ASSUME TurnsInv, TrackerEdit PROVE TurnsInv'
  OBVIOUS
<1>1. devTask' = [RevisedTask("HELD") EXCEPT !.asked = devTask.asked \union {newest'}]
  BY RevisedRow DEF TrackerEdit
<1>2. /\ TaskFields(devTask') /\ devTask'.stage = "FIXING" /\ devTask'.version = devTask.version + 1
      /\ newest' \in devTask'.asked
  BY <1>1, RevisedRow
<1> QED BY <1>2, NewFeedback, FeedbackRow, RevisionKeeps DEF TrackerEdit

LEMMA CoordinatorRepairKeepsTurns == TurnsInv /\ CoordinatorRepair => TurnsInv'
<1> SUFFICES ASSUME TurnsInv, CoordinatorRepair PROVE TurnsInv'
  OBVIOUS
<1>0. devTask' = [RevisedTask("ACTIVE") EXCEPT !.asked = devTask.asked \union {newest'}]
  BY RevisedRow DEF CoordinatorRepair
<1>1. /\ TaskFields(devTask') /\ devTask'.stage = "FIXING" /\ devTask'.version = devTask.version + 1
      /\ newest' \in devTask'.asked
  BY <1>0, RevisedRow
<1>2. /\ SessionFields(session') /\ session'.id = session.id /\ session'.version = session.version
      /\ session'.feedback = {newest'} /\ session'.packet = session.packet
      /\ session'.handoff = session.handoff /\ session'.rollover = session.rollover
      /\ session'.acked = session.acked
  BY DEF CoordinatorRepair, TurnsInv, SessionsType, SessionFields
<1> QED BY <1>1, <1>2, RevisionKeeps DEF CoordinatorRepair

(* The lease is taken away, and nothing else that a turn depends on changes. *)
LEMMA RevokedKeeps ==
  ASSUME TurnsInv, \/ lease' = NoLease
                   \/ Revokes,
         devTask' = [devTask EXCEPT !.status = "HELD"],
         UNCHANGED <<session, lastRun, adrift, newest, threads>>
  PROVE  TurnsInv'
<1> USE DEF TurnsInv
<1>1. /\ TaskFields(devTask') /\ devTask'.stage = devTask.stage /\ devTask'.version = devTask.version
      /\ devTask'.asked = devTask.asked
  BY DEF SessionsType, TaskFields
<1>2. CASE lease' = NoLease
  <2>1. LeaseFields(lease') /\ lease'.pc = "idle" /\ ~ lease'.live
    BY <1>2 DEF LeaseFields, NoLease
  <2>2. SessionsType' /\ VersionsOK' /\ HasThread'
    BY <1>1, <2>1 DEF SessionsType, VersionsOK, HasThread
  <2>3. OneExecution' /\ AsLoaded' /\ PreparedOK' /\ SentOK'
    BY <1>1, <2>1 DEF OneExecution, InFlight, Develops, AsLoaded, PreparedOK, SentOK
  <2>4. InFlightOK'
    BY <1>1, <1>2, <2>1 DEF InFlightOK, Flying, InFlight, OneExecution
  <2>5. Untold' /\ RolloverOK'
    BY <1>1 DEF Untold, RolloverOK, Develops
  <2> QED BY <2>2, <2>3, <2>4, <2>5
<1>3. CASE Revokes
  <2>1. /\ LeaseFields(lease') /\ ~ lease'.live /\ lease'.pc = lease.pc
        /\ lease'.known = lease.known /\ lease'.sent = lease.sent /\ lease'.todo = lease.todo
    BY <1>3, RevokedLease
  <2>2. SessionsType' /\ VersionsOK' /\ HasThread'
    BY <1>1, <2>1 DEF SessionsType, VersionsOK, HasThread
  <2>3. OneExecution' /\ AsLoaded' /\ PreparedOK' /\ SentOK'
    BY <1>1, <2>1 DEF OneExecution, InFlight, Develops, AsLoaded, PreparedOK, SentOK
  <2>4. InFlightOK'
    BY <1>1, <2>1 DEF InFlightOK, Flying, InFlight, NoLease
  <2>5. Untold' /\ RolloverOK'
    BY <1>1 DEF Untold, RolloverOK, Develops
  <2> QED BY <2>2, <2>3, <2>4, <2>5
<1> QED BY <1>2, <1>3

LEMMA LoseLeaseKeepsTurns == TurnsInv /\ LoseLease => TurnsInv'
  BY RevokedKeeps DEF LoseLease, Revokes

LEMMA HoldKeepsTurns == TurnsInv /\ Hold => TurnsInv'
  BY RevokedKeeps DEF Hold

LEMMA StopOrphanKeepsTurns == TurnsInv /\ StopOrphan => TurnsInv'
<1> SUFFICES ASSUME TurnsInv, StopOrphan PROVE TurnsInv'
  OBVIOUS
<1> USE DEF TurnsInv
<1>0. UNCHANGED <<devTask, lease, adrift, newest, threads>> /\ ~ lease.live
  BY DEF StopOrphan
<1>1. SameTalk
  BY BlockedRow DEF StopOrphan
<1>2. RunOver
  BY DEF StopOrphan, SessionsType, RunFields, RunOver
<1>3. SessionsType' /\ VersionsOK' /\ OneExecution' /\ HasThread'
  BY <1>0, <1>1, <1>2
  DEF SameTalk, RunOver, SessionsType, VersionsOK, OneExecution, InFlight, HasThread
<1>4. AsLoaded' /\ PreparedOK' /\ SentOK' /\ InFlightOK'
  BY <1>0, <1>2 DEF RunOver, AsLoaded, PreparedOK, SentOK, InFlightOK
<1>5. Untold' /\ RolloverOK'
  BY <1>0, <1>1, <1>2 DEF SameTalk, RunOver, Untold, Develops, RolloverOK
<1> QED BY <1>3, <1>4, <1>5

LEMMA ReconcileTurnKeepsTurns == TurnsInv /\ ReconcileTurn => TurnsInv'
<1> SUFFICES ASSUME TurnsInv, ReconcileTurn PROVE TurnsInv'
  OBVIOUS
<1> USE DEF TurnsInv
<1>0. /\ UNCHANGED <<devTask, session, lease, adrift, newest, threads>>
      /\ RunFields(lastRun') /\ lastRun'.status = lastRun.status /\ lastRun.status # "RUNNING"
      /\ lastRun'.version = lastRun.version /\ lastRun'.code = lastRun.code
      /\ lastRun'.checks = lastRun.checks /\ Mode' = Mode
  BY DEF ReconcileTurn, SessionsType, RunFields, Mode
<1>1. SessionsType' /\ VersionsOK' /\ OneExecution' /\ HasThread'
  BY <1>0 DEF SessionsType, VersionsOK, OneExecution, Develops, InFlight, HasThread
<1>2. AsLoaded' /\ PreparedOK' /\ SentOK' /\ InFlightOK'
  BY <1>0 DEF AsLoaded, PreparedOK, SentOK, InFlightOK
<1>3. Untold' /\ RolloverOK'
  BY <1>0 DEF Untold, Develops, RolloverOK
<1> QED BY <1>1, <1>2, <1>3

LEMMA ValidationPassedKeepsTurns == TurnsInv /\ ValidationPassed => TurnsInv'
<1> SUFFICES ASSUME TurnsInv, ValidationPassed PROVE TurnsInv'
  OBVIOUS
<1> USE DEF TurnsInv
<1>0. /\ UNCHANGED <<session, lease, adrift, newest, threads>>
      /\ ~ lease.live /\ lastRun.status # "RUNNING"
  BY DEF ValidationPassed, OneExecution, Develops
<1>1. /\ RunFields(lastRun') /\ lastRun'.status = lastRun.status /\ lastRun'.version = lastRun.version
      /\ lastRun'.code = lastRun.code
      /\ TaskFields(devTask') /\ devTask'.version = devTask.version /\ devTask'.stage = "REVIEWING"
  BY DEF ValidationPassed, SessionsType, RunFields, TaskFields
<1>2. SessionsType' /\ VersionsOK' /\ OneExecution' /\ HasThread'
  BY <1>0, <1>1 DEF SessionsType, VersionsOK, OneExecution, InFlight, HasThread
<1>3. AsLoaded' /\ PreparedOK' /\ SentOK' /\ InFlightOK'
  BY <1>0, <1>1 DEF AsLoaded, PreparedOK, SentOK, InFlightOK
<1>4. Untold' /\ RolloverOK'
  BY <1>0, <1>1 DEF Untold, RolloverOK, ValidationPassed, Develops
<1> QED BY <1>2, <1>3, <1>4

LEMMA ReleaseKeepsTurns == TurnsInv /\ Release => TurnsInv'
<1> SUFFICES ASSUME TurnsInv, Release PROVE TurnsInv'
  OBVIOUS
<1> USE DEF TurnsInv
<1>0. /\ UNCHANGED <<session, lastRun, lease, adrift, newest, threads>> /\ ~ lease.live
  BY DEF Release, OneExecution
<1>1. /\ TaskFields(devTask') /\ devTask'.version = devTask.version
      /\ devTask'.stage = devTask.stage /\ devTask'.asked = devTask.asked
  BY DEF Release, SessionsType, TaskFields
<1>2. SessionsType' /\ VersionsOK' /\ OneExecution' /\ HasThread'
  BY <1>0, <1>1 DEF SessionsType, VersionsOK, OneExecution, Develops, InFlight, HasThread
<1>3. AsLoaded' /\ PreparedOK' /\ SentOK'
  BY <1>0 DEF AsLoaded, PreparedOK, SentOK
<1>4. Flying' = Flying
  BY <1>0 DEF Flying
<1>5. InFlightOK' /\ Untold' /\ RolloverOK'
  BY <1>0, <1>1, <1>4 DEF InFlightOK, Untold, Develops, RolloverOK
<1> QED BY <1>2, <1>3, <1>5

LEMMA KeepNativeKeepsTurns == TurnsInv /\ KeepNative => TurnsInv'
<1> SUFFICES ASSUME TurnsInv, KeepNative PROVE TurnsInv'
  OBVIOUS
<1> USE DEF TurnsInv
<1>0. /\ UNCHANGED <<devTask, lastRun, lease, adrift, threads>> /\ ~ lease.live
      /\ lastRun.status # "RUNNING" /\ session.id # NoThread
  BY DEF KeepNative, MayChange, Settled
<1>1. /\ SessionFields(session') /\ session'.id = session.id /\ session'.version = session.version
      /\ session'.rollover = session.rollover /\ newest' \in Nat
  BY NewFeedback DEF KeepNative
<1>2. SessionsType' /\ VersionsOK' /\ OneExecution' /\ HasThread'
  BY <1>0, <1>1 DEF SessionsType, VersionsOK, OneExecution, Develops, InFlight, HasThread
<1>3. AsLoaded' /\ PreparedOK' /\ SentOK' /\ InFlightOK'
  BY <1>0 DEF AsLoaded, PreparedOK, SentOK, InFlightOK
<1>4. Untold' /\ RolloverOK'
  BY <1>0, <1>1 DEF Untold, RolloverOK
<1> QED BY <1>2, <1>3, <1>4

LEMMA HandoffKeepsTurns == TurnsInv /\ Handoff => TurnsInv'
<1> SUFFICES ASSUME TurnsInv, Handoff PROVE TurnsInv'
  OBVIOUS
<1> USE DEF TurnsInv
<1>0. /\ UNCHANGED <<devTask, lastRun, lease, adrift, newest, threads>> /\ ~ lease.live
      /\ lastRun.status # "RUNNING"
  BY DEF Handoff, MayChange, Settled
<1>1. /\ SessionFields(session') /\ session'.id = NoThread /\ session'.version = devTask.version
      /\ session'.handoff = TRUE /\ session'.rollover.made = FALSE
  <2>1. devTask.version \in Nat /\ NoThread \in Nat
    BY DEF SessionsType, TaskFields, NoThread
  <2> QED BY <2>1 DEF Handoff, FreshSession, SessionFields, NoRollover
<1>2. devTask.version <= devTask.version
  BY DEF SessionsType, TaskFields
<1>3. SessionsType' /\ VersionsOK'
  BY <1>0, <1>1, <1>2 DEF SessionsType, VersionsOK
<1>4. OneExecution' /\ HasThread'
  BY <1>0 DEF OneExecution, Develops, InFlight, HasThread
<1>5. AsLoaded' /\ PreparedOK' /\ SentOK' /\ InFlightOK'
  BY <1>0 DEF AsLoaded, PreparedOK, SentOK, InFlightOK
<1>6. Untold' /\ RolloverOK'
  BY <1>1 DEF Untold, RolloverOK
<1> QED BY <1>3, <1>4, <1>5, <1>6

LEMMA TurnsInit == SessionsInit => TurnsInv
<1> SUFFICES ASSUME SessionsInit PROVE TurnsInv
  OBVIOUS
<1>1. /\ SessionFields(session) /\ session.id = NoThread /\ session.version = 1
      /\ session.feedback = {} /\ session.acked = FALSE /\ session.rollover.made = FALSE
  BY DEF SessionsInit, FreshSession, SessionFields, NoThread, NoRollover
<1>2. /\ TaskFields(devTask) /\ devTask.version = 1 /\ devTask.stage = "DEVELOPING"
      /\ RunFields(lastRun) /\ lastRun.version = 0 /\ lastRun.status = "NONE" /\ lastRun.code = ""
  BY DEF SessionsInit, TaskFields, RunFields
<1>3. LeaseFields(lease) /\ lease.pc = "idle" /\ ~ lease.live /\ adrift = NoLease
  BY DEF SessionsInit, LeaseFields, NoLease
<1>4. newest \in Nat /\ threads \in Nat
  BY DEF SessionsInit
<1>5. SessionsType /\ VersionsOK
  <2>1. SessionsType
    BY <1>1, <1>2, <1>3, <1>4 DEF SessionsType
  <2>3. session.version = 1 /\ devTask.version = 1 /\ lastRun.version = 0
    BY <1>1, <1>2
  <2>2. VersionsOK
    BY <2>3 DEF VersionsOK
  <2> QED BY <2>1, <2>2
<1>6. OneExecution /\ HasThread /\ AsLoaded /\ PreparedOK /\ SentOK /\ InFlightOK
  BY <1>1, <1>2, <1>3
  DEF OneExecution, HasThread, AsLoaded, PreparedOK, SentOK, InFlightOK, InFlight
<1>7. Untold /\ RolloverOK
  BY <1>1, <1>2 DEF Untold, Develops, RolloverOK
<1> QED BY <1>5, <1>6, <1>7 DEF TurnsInv

LEMMA TurnsStep == TurnsInv /\ [SessionsNext]_sessionVars => TurnsInv'
<1> SUFFICES ASSUME TurnsInv, [SessionsNext]_sessionVars PROVE TurnsInv'
  OBVIOUS
<1>1. CASE ExecutionStep
  BY <1>1, ClaimKeepsTurns, ValidateCandidateKeepsTurns, BoundedRepairKeepsTurns,
     PrepareRepairKeepsTurns, AcknowledgeKeepsTurns, RollAtSoftLimitKeepsTurns,
     CompactKeepsTurns, AdmitKeepsTurns DEF ExecutionStep
<1>2. CASE TurnStep
  BY <1>2, BeginRunKeepsTurns, SessionStartedKeepsTurns, FailBeforeTurnKeepsTurns,
     SendTurnKeepsTurns, FailTurnKeepsTurns, ReceiptCompletedKeepsTurns, ReceiptStoppedKeepsTurns,
     ReceiptAckKeepsTurns, DriftKeepsTurns, AdriftCompletedKeepsTurns, AdriftLateKeepsTurns,
     AdriftFailsKeepsTurns, BlockFailedTurnKeepsTurns, FinishCompactionKeepsTurns,
     FinishDevelopmentKeepsTurns, FinishMilestoneKeepsTurns DEF TurnStep
<1>3. CASE ControllerStep
  BY <1>3, LoseLeaseKeepsTurns, StopOrphanKeepsTurns, ReconcileTurnKeepsTurns,
     ValidationPassedKeepsTurns, ValidationFailedKeepsTurns, PlanReadyKeepsTurns,
     ReviewFixKeepsTurns DEF ControllerStep
<1>4. CASE OutsideStep
  BY <1>4, HoldKeepsTurns, ReleaseKeepsTurns, OperatorFeedbackKeepsTurns,
     TrackerEditKeepsTurns, CoordinatorRepairKeepsTurns, OperatorRolloverKeepsTurns,
     KeepNativeKeepsTurns, HandoffKeepsTurns DEF OutsideStep
<1>5. CASE UNCHANGED sessionVars
  <2>1. UNCHANGED <<devTask, session, lastRun, lease, adrift, newest, threads>>
    BY <1>5 DEF sessionVars
  <2>2. Flying' = Flying /\ Mode' = Mode
    BY <2>1 DEF Flying, Mode
  <2> QED BY <2>1, <2>2 DEF TurnsInv, SessionsType, VersionsOK, OneExecution, HasThread, AsLoaded,
             Untold, Develops, RolloverOK, PreparedOK, SentOK, InFlightOK
<1> QED BY <1>1, <1>2, <1>3, <1>4, <1>5 DEF SessionsNext

LEMMA TurnsInvariant == SessionsSpec => []TurnsInv
  BY TurnsInit, TurnsStep, PTL DEF SessionsSpec

(* Only the two receipts take deltas away: every other step leaves them,     *)
(* adds one, or begins a session.                                            *)
LEMMA DeltasStay ==
  ASSUME TurnsInv, [SessionsNext]_sessionVars, ~ ReceiptCompleted, ~ AdriftCompleted
  PROVE  \/ session'.feedback = session.feedback
         \/ newest' \in session'.feedback
         \/ session'.number # session.number
<1>0. SessionFields(session)
  BY DEF TurnsInv, SessionsType
<1>1. CASE UNCHANGED session
  BY <1>1
<1>2. CASE RollsOver \/ session' = Prepared
  BY <1>0, <1>2, RolledOverRow, PreparedRow DEF RollsOver
<1>3. CASE \/ session' = [session EXCEPT !.feedback = {newest'}]
           \/ session' = [session EXCEPT !.feedback = @ \union {newest'}]
           \/ session' = [session EXCEPT !.feedback = {newest'}, !.bounded = TRUE]
  BY <1>0, <1>3 DEF SessionFields
<1>4. CASE CoordinatorRepair
  BY <1>0, <1>4 DEF SessionFields, CoordinatorRepair
<1>5. CASE Handoff
  BY <1>5 DEF Handoff, FreshSession
<1>6. CASE \/ session' = [session EXCEPT !.state = "BLOCKED"]
           \/ session' = [session EXCEPT !.id = threads']
           \/ \E n : session' = [session EXCEPT !.state = "RUNNING", !.version = n]
           \/ \E n, c : session' = [session EXCEPT !.state = "BLOCKED", !.full = n, !.compacted = c]
           \/ \E n : session' = [session EXCEPT !.state = "BLOCKED", !.full = n]
  BY <1>0, <1>6 DEF SessionFields
<1>7. CASE \E ack \in BOOLEAN, level \in Levels :
             session' = [session EXCEPT !.state = IF ack THEN "READY" ELSE "BLOCKED",
                           !.acked = ack, !.pending = @ \/ ack, !.full = level]
  BY <1>0, <1>7 DEF SessionFields
<1>8. CASE ExecutionStep
  BY <1>1, <1>2, <1>3, <1>8
  DEF ExecutionStep, Claim, ValidateCandidate, BoundedRepair, PrepareRepair, Acknowledge,
      RollAtSoftLimit, AutoRolls, Compact, Admit
<1>9. CASE TurnStep
  <2>1. CASE BeginRun \/ SessionStarted \/ SendTurn \/ Drift \/ BlockFailedTurn
             \/ FinishCompaction \/ FinishDevelopment \/ FinishMilestone
    BY <1>1, <1>2, <1>6, <2>1
    DEF BeginRun, SessionStarted, SendTurn, Drift, BlockFailedTurn, FinishCompaction,
        FinishDevelopment, FinishMilestone, AutoRolls
  <2>2. CASE FailBeforeTurn \/ FailTurn \/ AdriftLate \/ AdriftFails
    BY <1>1, <1>6, <2>2 DEF FailBeforeTurn, FailTurn, AdriftLate, AdriftFails
  <2>3. CASE ReceiptStopped
    BY <1>6, <2>3 DEF ReceiptStopped
  <2>4. CASE ReceiptAck
    BY <1>6, <1>7, <2>4 DEF ReceiptAck
  <2> QED BY <1>9, <2>1, <2>2, <2>3, <2>4 DEF TurnStep
<1>10. CASE ControllerStep
  BY <1>1, <1>3, <1>6, <1>10
  DEF ControllerStep, LoseLease, StopOrphan, ReconcileTurn, ValidationPassed, ValidationFailed,
      PlanReady, ReviewFix
<1>11. CASE OutsideStep
  BY <1>1, <1>2, <1>3, <1>4, <1>5, <1>11
  DEF OutsideStep, Hold, Release, OperatorFeedback, TrackerEdit, OperatorRollover, KeepNative
<1> QED BY <1>1, <1>8, <1>9, <1>10, <1>11 DEF SessionsNext, sessionVars

(* The turn whose receipt it is knew of the deltas, and a repair was told.   *)
LEMMA AnsweredTurnWasTold ==
  ASSUME TurnsInv, [SessionsNext]_sessionVars, Answers
  PROVE  /\ session.feedback \subseteq Answering.known
         /\ devTask.stage = "FIXING" => session.feedback \subseteq Answering.sent
<1> USE DEF TurnsInv
<1>0. session.number = session'.number /\ session.feedback # {} /\ session'.feedback = {}
  BY DEF Answers
<1>1. CASE ReceiptCompleted
  <2>1. lease.pc = "turn" /\ lastRun.status = "RUNNING" /\ Accepts(lease)
    BY <1>1 DEF ReceiptCompleted
  <2>2. Consumes(Head(lease.todo))
    BY <1>0, <2>1, AcceptedRows
  <2>3. Flying = lease /\ Answering = lease /\ lease # NoLease
    BY <2>1 DEF Flying, InFlight, Answering, NoLease
  <2> QED BY <2>1, <2>2, <2>3 DEF InFlightOK, Consumes
<1>2. CASE AdriftCompleted
  <2>1. adrift # NoLease /\ lastRun.status = "RUNNING" /\ Accepts(adrift)
    BY <1>2 DEF AdriftCompleted
  <2>2. Consumes(Head(adrift.todo))
    BY <1>0, <2>1, AcceptedRows
  <2>3. Flying = adrift /\ Answering = adrift
    BY <2>1 DEF Flying, InFlight, Answering, OneExecution
  <2> QED BY <2>1, <2>2, <2>3 DEF InFlightOK, Consumes
<1> QED BY <1>0, <1>1, <1>2, DeltasStay

(* Whatever arrives while a turn runs, or after its lease is gone, survives  *)
(* its receipt (finish_run in accounting.py).                                *)
THEOREM ReceiptsSpareNewer == SessionsSpec => ReceiptSparesNewer
<1>1. TurnsInv /\ [SessionsNext]_sessionVars
        => [Answers => session.feedback \subseteq Answering.known]_sessionVars
  BY AnsweredTurnWasTold
<1> QED BY <1>1, TurnsInvariant, PTL DEF SessionsSpec, ReceiptSparesNewer

(* A repair turn that answers the pending deltas was sent them, over every   *)
(* path by which a prompt is made: packet, checkpoint, handoff, requirement  *)
(* and resumed thread (continue_session, developer_request.py).              *)
THEOREM RepairsAreTold == SessionsSpec => RepairWasTold
<1>1. TurnsInv /\ [SessionsNext]_sessionVars
        => [Answers /\ devTask.stage = "FIXING" => session.feedback \subseteq Answering.sent]_sessionVars
  BY AnsweredTurnWasTold
<1> QED BY <1>1, TurnsInvariant, PTL DEF SessionsSpec, RepairWasTold
=============================================================================
