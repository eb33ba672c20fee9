--------------------------- MODULE CoordinatorProofs ---------------------------
(***************************************************************************)
(* For any number of replicas, messages and runs: decisions about a task    *)
(* are made one at a time, every message is in one place, and what is       *)
(* applied respects what an operator did meanwhile.  NoMessageLost is not   *)
(* inductive alone: an action that is still to be applied must belong to a  *)
(* decided run, or its end would leave claimed messages behind, and a busy  *)
(* loop must hold a run, or its end would mark the messages of none.        *)
(***************************************************************************)
EXTENDS Coordinator, LifecycleProofs

(* The type of every variable.                                             *)

CoordinatorTypeOK ==
  /\ task \in [state : EngineeringState, version : 1..MaxVersion, enrolled : BOOLEAN]
  /\ suspended \in BOOLEAN /\ generating \in BOOLEAN /\ mode \in Modes
  /\ event \in [Events -> EventRow]
  /\ run \in [Runs -> RunRow]
  /\ act \in [Runs -> ActRow]
  /\ human \in [Runs -> HumanRow]
  /\ loop \in [Loops -> LoopRow]

(* A loop that is busy holds a run, and only a decided run has an action that *)
(* is still to be applied.                                                   *)
LoopsHoldRuns  == \A p \in Loops : loop[p].pc # "idle" => loop[p].run \in Runs
EffectsOfReady == \A r \in Runs : act[r].status \in {"PENDING", "WAITING_ENGINEER"} =>
                                    run[r].status = "READY"

CoordinatorInv ==
  /\ CoordinatorTypeOK
  /\ Consistent(task.state)
  /\ LoopsHoldRuns
  /\ EffectsOfReady
  /\ OneDecisionAtATime
  /\ NoMessageLost

-----------------------------------------------------------------------------
(* Row numbers: a set of them has a first and a last member.                 *)
LEMMA LargestExists ==
  ASSUME NEW n \in Nat, NEW S \in SUBSET (0..n), S # {}
  PROVE  \E x \in S : \A y \in S : y <= x
<1> DEFINE D == {k \in 0..n : n - k \in S}
<1>1. ASSUME NEW y \in S
      PROVE  y \in 0..n /\ n - y \in D
  <2>1. n - y \in 0..n /\ n - (n - y) = y
    OBVIOUS
  <2> QED BY <2>1
<1>2. D \in SUBSET Nat /\ D # {}
  <2>1. PICK y \in S : TRUE
    OBVIOUS
  <2>2. n - y \in D
    BY <1>1
  <2>3. D \in SUBSET Nat
    OBVIOUS
  <2> HIDE DEF D
  <2> QED BY <2>2, <2>3
<1>3. PICK d \in D : \A e \in D : d <= e
  BY <1>2, SmallestExists
<1>4. d \in 0..n /\ n - d \in S
  OBVIOUS
<1> HIDE DEF D
<1>5. ASSUME NEW y \in S
      PROVE  y <= n - d
  <2>1. d <= n - y
    BY <1>1, <1>3
  <2> QED BY <1>1, <1>4, <2>1
<1> QED BY <1>4, <1>5

(* The first member of a set of row numbers.                                *)
LEMMA FirstOf ==
  ASSUME NEW n \in Nat, NEW S \in SUBSET (1..n), S # {}
  PROVE  \E e \in S : \A f \in 1..(e - 1) : f \notin S
<1>1. PICK e \in S : \A f \in S : e <= f
  BY SmallestExists
<1>2. ASSUME NEW f \in 1..(e - 1)
      PROVE  f \notin S
  BY <1>1
<1> QED BY <1>2

LEMMA ArrivedBound ==
  ASSUME CoordinatorTypeOK
  PROVE  Arrived \in 0..MaxEvents
<1> DEFINE Absent == {e \in Events : event[e].status = "ABSENT"}
           First(e) == /\ event[e].status = "ABSENT"
                       /\ \A f \in 1..(e - 1) : event[f].status # "ABSENT"
<1>1. CASE Absent # {}
  <2>1. PICK e \in Absent : \A f \in 1..(e - 1) : f \notin Absent
    BY <1>1, FirstOf, CoordinatorAssumption DEF Events
  <2>2. \A f \in 1..(e - 1) : f \in Events
    BY CoordinatorAssumption DEF Events
  <2>3. \E d \in Events : First(d)
    BY <2>1, <2>2
  <2>4. Arrived = (CHOOSE d \in Events : First(d)) - 1
    BY <1>1 DEF Arrived
  <2> HIDE DEF First
  <2>5. (CHOOSE d \in Events : First(d)) \in Events
    BY <2>3
  <2> QED BY <2>4, <2>5, CoordinatorAssumption DEF Events
<1>2. CASE Absent = {}
  BY <1>2, CoordinatorAssumption DEF Arrived
<1> QED BY <1>1, <1>2

LEMMA FreshRunAbsent ==
  ASSUME CoordinatorTypeOK, \E r \in Runs : run[r].status = "ABSENT"
  PROVE  FreshRun \in Runs /\ run[FreshRun].status = "ABSENT"
<1> DEFINE Absent == {r \in Runs : run[r].status = "ABSENT"}
<1>0. Absent \in SUBSET (1..MaxRuns) /\ Absent # {} /\ MaxRuns \in Nat
  BY CoordinatorAssumption DEF Runs
<1>1. PICK r \in Absent : \A s \in 1..(r - 1) : s \notin Absent
  <2> HIDE DEF Absent
  <2> QED BY <1>0, FirstOf
<1>2. \A s \in 1..(r - 1) : s \in Runs
  BY CoordinatorAssumption DEF Runs
<1>3. \E d \in Runs : /\ run[d].status = "ABSENT"
                      /\ \A s \in 1..(d - 1) : run[s].status # "ABSENT"
  BY <1>1, <1>2
<1> QED BY <1>3 DEF FreshRun

LEMMA LatestAsked ==
  ASSUME Asked # {}
  PROVE  Latest(Asked) \in Asked /\ Latest(Asked) \in Runs
<1>1. Asked \in SUBSET Runs /\ Asked \in SUBSET (0..MaxRuns)
  BY CoordinatorAssumption DEF Asked, Runs
<1>2. PICK x \in Asked : \A y \in Asked : y <= x
  BY <1>1, LargestExists, CoordinatorAssumption
<1> QED BY <1>1, <1>2 DEF Latest

-----------------------------------------------------------------------------
(* The invariant holds initially; what a step may do to a batch.              *)
LEMMA InitKeeps ==
  ASSUME Init
  PROVE  CoordinatorInv
<1>1. NewState \in EngineeringState /\ Consistent(NewState)
  BY NewStateConsistent
<1>2. 1 \in 1..MaxVersion /\ 0 \in 0..MaxVersion /\ 0 \in 0..MaxEvents
  BY CoordinatorAssumption
<1>3. task \in [state : EngineeringState, version : 1..MaxVersion, enrolled : BOOLEAN]
      /\ Consistent(task.state)
  BY <1>1, <1>2 DEF Init
<1>4. /\ event \in [Events -> EventRow] /\ run \in [Runs -> RunRow]
      /\ act \in [Runs -> ActRow] /\ human \in [Runs -> HumanRow]
  BY <1>2 DEF Init, EventRow, RunRow, ActRow, HumanRow
<1>5. loop \in [Loops -> LoopRow]
  BY DEF Init, LoopRow, Resting
<1>6. CoordinatorTypeOK
  BY <1>3, <1>4, <1>5 DEF Init, CoordinatorTypeOK
<1>7. LoopsHoldRuns /\ EffectsOfReady
  BY DEF Init, LoopsHoldRuns, EffectsOfReady, Resting
<1>8. OneDecisionAtATime /\ NoMessageLost
  BY DEF Init, OneDecisionAtATime, Deciding, NoMessageLost
<1> QED BY <1>3, <1>6, <1>7, <1>8 DEF CoordinatorInv

(* Where a message is: without a run, or in the run whose outcome it shares. *)
Placed(row, runs) ==
  /\ row.status \in {"ABSENT", "QUEUED", "SUSPENDED", "UNAUTHORIZED"} <=> row.run = 0
  /\ row.status = "CLAIMED"   => runs[row.run].status = "CLAIMED"
  /\ row.status = "PROCESSED" =>
       runs[row.run].status \in {"READY", "SHADOW", "COMPLETED", "REJECTED"}
  /\ row.status = "FAILED"    => runs[row.run].status = "FAILED"

LEMMA Places ==
  /\ NoMessageLost <=> \A e \in Events : Placed(event[e], run)
  /\ NoMessageLost' <=> \A e \in Events : Placed(event'[e], run')
BY DEF NoMessageLost, Placed

(* One run ends with its batch: the batch shares the outcome, or is queued     *)
(* again.                                                                    *)
LEMMA BatchFollows ==
  ASSUME CoordinatorTypeOK, NoMessageLost, NEW r \in Runs,
         \A s \in Runs \ {r} : run'[s] = run[s],
         \/ event' = Requeue(r)
         \/ event' = Mark(r, "FAILED") /\ run'[r].status = "FAILED"
         \/ event' = Mark(r, "PROCESSED") /\ run'[r].status \in {"READY", "SHADOW"}
  PROVE  event' \in [Events -> EventRow] /\ NoMessageLost'
<1>1. r # 0 /\ 0 \notin Runs
  BY CoordinatorAssumption DEF Runs
<1>2. event' \in [Events -> EventRow]
  <2>1. ASSUME NEW e \in Events
        PROVE  /\ event[e] \in EventRow
               /\ [event[e] EXCEPT !.status = "QUEUED", !.run = 0] \in EventRow
               /\ [event[e] EXCEPT !.status = "FAILED"] \in EventRow
               /\ [event[e] EXCEPT !.status = "PROCESSED"] \in EventRow
    <3>1. event[e] \in EventRow
      BY DEF CoordinatorTypeOK
    <3>2. [event[e] EXCEPT !.status = "QUEUED", !.run = 0] \in EventRow
      BY <3>1 DEF EventRow
    <3>3. /\ [event[e] EXCEPT !.status = "FAILED"] \in EventRow
          /\ [event[e] EXCEPT !.status = "PROCESSED"] \in EventRow
      BY <3>1 DEF EventRow
    <3> QED BY <3>1, <3>2, <3>3
  <2>2. CASE event' = Requeue(r)
    BY <2>1, <2>2 DEF Requeue
  <2>3. ASSUME NEW status \in {"FAILED", "PROCESSED"}, event' = Mark(r, status)
        PROVE  event' \in [Events -> EventRow]
    BY <2>1, <2>3 DEF Mark
  <2> QED BY <2>2, <2>3
<1>3. ASSUME NEW e \in Events
      PROVE  Placed(event'[e], run')
  <2>1. event[e] \in EventRow /\ Placed(event[e], run)
    BY Places DEF CoordinatorTypeOK
  <2>2. CASE event[e].run = r
    <3>1. event[e].status \notin {"ABSENT", "QUEUED", "SUSPENDED", "UNAUTHORIZED"}
      BY <1>1, <2>1, <2>2 DEF Placed
    <3>2. CASE event' = Requeue(r)
      <4>1. event'[e].status = "QUEUED" /\ event'[e].run = 0
        BY <2>1, <2>2, <3>2 DEF Requeue, Batch, EventRow
      <4> QED BY <4>1 DEF Placed
    <3>3. ASSUME NEW status \in {"FAILED", "PROCESSED"}, event' = Mark(r, status)
          PROVE  event'[e].status = status /\ event'[e].run = r
      BY <2>1, <2>2, <3>3 DEF Mark, Batch, EventRow
    <3> QED BY <1>1, <3>2, <3>3 DEF Placed
  <2>3. CASE event[e].run # r
    <3>1. event'[e] = event[e]
      BY <2>3 DEF Requeue, Mark, Batch
    <3>2. event[e].run \in Runs \ {r} \/ event[e].run = 0
      BY <2>1, <2>3 DEF EventRow
    <3> QED BY <1>1, <2>1, <3>1, <3>2 DEF Placed
  <2> QED BY <2>2, <2>3
<1> QED BY <1>2, <1>3, Places

(* The status of one run changes and its batch does not: no message of it was  *)
(* waiting for the outcome.                                                  *)
LEMMA BatchStays ==
  ASSUME CoordinatorInv, NEW r \in Runs, run[r].status = "READY",
         \A s \in Runs \ {r} : run'[s] = run[s],
         run'[r].status \in {"COMPLETED", "REJECTED"}, event' = event
  PROVE  NoMessageLost'
<1>1. ASSUME NEW e \in Events
      PROVE  Placed(event'[e], run')
  <2>1. event[e] \in EventRow /\ Placed(event[e], run)
    BY Places DEF CoordinatorTypeOK, CoordinatorInv
  <2>2. 0 \notin Runs
    BY CoordinatorAssumption DEF Runs
  <2> QED BY <2>1, <2>2 DEF Placed, EventRow
<1> QED BY <1>1, Places

(* Messages that wait without a run change places among themselves.          *)
LEMMA WaitingMoves ==
  ASSUME CoordinatorTypeOK, NoMessageLost, run' = run,
         event' \in [Events -> EventRow],
         \A e \in Events : \/ event'[e] = event[e]
                           \/ /\ event'[e].run = 0
                              /\ event'[e].status \in {"QUEUED", "SUSPENDED", "UNAUTHORIZED"}
  PROVE  NoMessageLost'
BY Places DEF Placed

LEMMA NoNewDecision ==
  ASSUME OneDecisionAtATime,
         \A s \in Runs : run'[s].status \in {"CLAIMED", "READY"} =>
                           run[s].status \in {"CLAIMED", "READY"}
  PROVE  OneDecisionAtATime'
BY DEF OneDecisionAtATime, Deciding

(* Steps of a loop that touch no row.                                        *)
LEMMA InMemoryKeeps ==
  ASSUME CoordinatorInv, InMemory, loop' \in [Loops -> LoopRow], LoopsHoldRuns'
  PROVE  CoordinatorInv'
<1>1. CoordinatorTypeOK' /\ Consistent(task.state)'
  BY DEF CoordinatorInv, CoordinatorTypeOK, InMemory
<1>2. EffectsOfReady' /\ OneDecisionAtATime' /\ NoMessageLost'
  BY DEF CoordinatorInv, InMemory, EffectsOfReady, OneDecisionAtATime, Deciding, NoMessageLost
<1> QED BY <1>1, <1>2 DEF CoordinatorInv

-----------------------------------------------------------------------------
(* The inbox.                                                              *)
LEMMA AppendKeeps ==
  ASSUME CoordinatorTypeOK, NoMessageLost, run' = run, NEW row \in EventRow,
         row.run = 0, row.status \in {"QUEUED", "UNAUTHORIZED"}, Append(row)
  PROVE  event' \in [Events -> EventRow] /\ NoMessageLost'
<1>1. \A e \in Events : event'[e] = event[e] \/ event'[e] = row
  BY DEF CoordinatorTypeOK, Append
<1>2. event' \in [Events -> EventRow]
  BY DEF CoordinatorTypeOK, Append
<1> QED BY <1>1, <1>2, WaitingMoves

LEMMA MessageTyped ==
  ASSUME NEW b \in BOOLEAN, NEW s \in {"QUEUED", "UNAUTHORIZED"}, NEW q \in Runs \cup {0}
  PROVE  /\ [status |-> s, engineering |-> b, run |-> 0, answers |-> q] \in EventRow
         /\ [status |-> s, engineering |-> b, run |-> 0, answers |-> q].run = 0
         /\ [status |-> s, engineering |-> b, run |-> 0, answers |-> q].status = s
BY DEF EventRow

LEMMA AnswerTyped ==
  ASSUME CoordinatorTypeOK, NEW r \in Runs, human' = [human EXCEPT ![r].status = "ANSWERED"]
  PROVE  human' \in [Runs -> HumanRow]
<1>1. human \in [Runs -> HumanRow] /\ human[r] \in HumanRow
  BY DEF CoordinatorTypeOK
<1>2. [human[r] EXCEPT !.status = "ANSWERED"] \in HumanRow
  BY <1>1 DEF HumanRow
<1> QED BY <1>1, <1>2

LEMMA EnqueueKeeps ==
  ASSUME CoordinatorInv, Enqueue
  PROVE  CoordinatorInv'
<1>1. CoordinatorTypeOK /\ NoMessageLost
  BY DEF CoordinatorInv
<1>2. UNCHANGED <<task, suspended, generating, mode, run, act, loop>>
  BY DEF Enqueue
<1>3. event' \in [Events -> EventRow] /\ NoMessageLost' /\ human' \in [Runs -> HumanRow]
  <2>1. ASSUME NEW s \in {"QUEUED", "UNAUTHORIZED"}, NEW q \in Runs \cup {0},
               Append([status |-> s, engineering |-> FALSE, run |-> 0, answers |-> q])
        PROVE  event' \in [Events -> EventRow] /\ NoMessageLost'
    BY <1>1, <1>2, <2>1, MessageTyped, AppendKeeps
  <2>2. CASE /\ UNCHANGED human
             /\ \E s \in {"QUEUED", "UNAUTHORIZED"} :
                  Append([status |-> s, engineering |-> FALSE, run |-> 0, answers |-> 0])
    <3>1. human' \in [Runs -> HumanRow]
      BY <1>1, <2>2 DEF CoordinatorTypeOK
    <3> QED BY <2>1, <2>2, <3>1
  <2>3. CASE /\ Asked # {}
             /\ Append([status |-> "QUEUED", engineering |-> FALSE, run |-> 0,
                        answers |-> Latest(Asked)])
             /\ human' = [human EXCEPT ![Latest(Asked)].status = "ANSWERED"]
    BY <1>1, <2>1, <2>3, LatestAsked, AnswerTyped
  <2> QED BY <2>1, <2>2, <2>3 DEF Enqueue
<1>4. CoordinatorTypeOK'
  BY <1>1, <1>2, <1>3 DEF CoordinatorTypeOK
<1>5. LoopsHoldRuns' /\ EffectsOfReady' /\ OneDecisionAtATime' /\ Consistent(task.state)'
  BY <1>2 DEF CoordinatorInv, LoopsHoldRuns, EffectsOfReady, OneDecisionAtATime, Deciding
<1> QED BY <1>3, <1>4, <1>5 DEF CoordinatorInv

LEMMA RespondKeeps ==
  ASSUME CoordinatorInv, NEW r \in Runs, Respond(r)
  PROVE  CoordinatorInv'
<1>1. CoordinatorTypeOK /\ NoMessageLost
  BY DEF CoordinatorInv
<1>2. UNCHANGED <<task, suspended, generating, mode, run, act, loop>>
  BY DEF Respond
<1>3. event' \in [Events -> EventRow] /\ NoMessageLost'
  BY <1>1, <1>2, MessageTyped, AppendKeeps DEF Respond
<1>4. human' \in [Runs -> HumanRow]
  BY <1>1, AnswerTyped DEF Respond
<1>5. CoordinatorTypeOK'
  BY <1>1, <1>2, <1>3, <1>4 DEF CoordinatorTypeOK
<1>6. LoopsHoldRuns' /\ EffectsOfReady' /\ OneDecisionAtATime' /\ Consistent(task.state)'
  BY <1>2 DEF CoordinatorInv, LoopsHoldRuns, EffectsOfReady, OneDecisionAtATime, Deciding
<1> QED BY <1>3, <1>5, <1>6 DEF CoordinatorInv

LEMMA TransitKeeps ==
  ASSUME CoordinatorInv, NEW a \in Outside, Transit(a)
  PROVE  CoordinatorInv'
<1>1. CoordinatorTypeOK /\ NoMessageLost /\ task.state \in EngineeringState
      /\ task.version \in 1..MaxVersion /\ Consistent(task.state)
  BY DEF CoordinatorInv, CoordinatorTypeOK
<1>2. UNCHANGED <<suspended, generating, mode, run, act, human, loop>>
  BY DEF Transit
<1>3. a \in Action /\ "NONE" \in WaitReason
  BY CoordinatorAssumption DEF WaitReason
<1>4. /\ Transition(task.state, a, "NONE", FALSE) \in EngineeringState
      /\ Consistent(Transition(task.state, a, "NONE", FALSE))
  BY <1>1, <1>3, TransitionConsistent DEF Transit
<1>5. task.version + 1 \in 1..MaxVersion
  BY <1>1, CoordinatorAssumption DEF Transit
<1>6. task' \in [state : EngineeringState, version : 1..MaxVersion, enrolled : BOOLEAN]
      /\ Consistent(task'.state)
  <2> DEFINE after == Transition(task.state, a, "NONE", FALSE)
  <2>1. task' = [task EXCEPT !.state = after, !.version = @ + 1]
    BY DEF Transit
  <2> HIDE DEF after
  <2> QED BY <1>1, <1>4, <1>5, <2>1 DEF CoordinatorTypeOK, after
<1>7. event' \in [Events -> EventRow] /\ NoMessageLost'
  <2>1. CASE UNCHANGED event
    BY <1>1, <1>2, <2>1 DEF CoordinatorTypeOK, NoMessageLost
  <2>2. CASE Append([status |-> "QUEUED", engineering |-> TRUE, run |-> 0, answers |-> 0])
    BY <1>1, <1>2, <2>2, MessageTyped, AppendKeeps
  <2> QED BY <2>1, <2>2 DEF Transit
<1>8. CoordinatorTypeOK'
  BY <1>1, <1>2, <1>6, <1>7 DEF CoordinatorTypeOK
<1>9. LoopsHoldRuns' /\ EffectsOfReady' /\ OneDecisionAtATime'
  BY <1>2 DEF CoordinatorInv, LoopsHoldRuns, EffectsOfReady, OneDecisionAtATime, Deciding
<1> QED BY <1>6, <1>7, <1>8, <1>9 DEF CoordinatorInv

LEMMA SurroundingsKeep ==
  ASSUME CoordinatorInv, Toggle \/ Settle
  PROVE  CoordinatorInv'
<1>1. suspended' \in BOOLEAN /\ generating' \in BOOLEAN /\ mode' \in Modes
  BY DEF CoordinatorInv, CoordinatorTypeOK, Toggle, Settle
<1>2. UNCHANGED <<task, event, run, act, human, loop>>
  BY DEF Toggle, Settle
<1> QED BY <1>1, <1>2 DEF CoordinatorInv, CoordinatorTypeOK, LoopsHoldRuns, EffectsOfReady,
               OneDecisionAtATime, Deciding, NoMessageLost

-----------------------------------------------------------------------------
(* Claims.                                                                 *)
LEMMA SuspendKeeps ==
  ASSUME CoordinatorInv, NEW p \in Loops, SuspendEvent(p) \/ SuspendBatch(p)
  PROVE  CoordinatorInv'
<1>1. CoordinatorTypeOK /\ NoMessageLost
  BY DEF CoordinatorInv
<1>2. UNCHANGED <<task, suspended, generating, mode, run, act, human, loop>>
  BY DEF SuspendEvent, SuspendBatch
<1>3. ASSUME NEW e \in Queued
      PROVE  /\ [event[e] EXCEPT !.status = "SUSPENDED"] \in EventRow
             /\ [event[e] EXCEPT !.status = "SUSPENDED"].run = 0
             /\ [event[e] EXCEPT !.status = "SUSPENDED"].status = "SUSPENDED"
  <2>1. e \in Events /\ event[e] \in EventRow /\ event[e].run = 0
    BY <1>1 DEF Queued, CoordinatorTypeOK, NoMessageLost
  <2> QED BY <2>1 DEF EventRow
<1>4. Oldest \subseteq Queued /\ Queued \subseteq Events
  BY DEF Oldest, Queued
<1>5. \A e \in Events : \/ event'[e] = event[e]
                        \/ e \in Queued /\ event'[e] = [event[e] EXCEPT !.status = "SUSPENDED"]
  BY <1>1, <1>4 DEF SuspendEvent, SuspendBatch, CoordinatorTypeOK
<1>6. event' \in [Events -> EventRow]
  <2>1. event' = [e \in Events |-> event'[e]]
    BY <1>1 DEF SuspendEvent, SuspendBatch, CoordinatorTypeOK
  <2>2. ASSUME NEW e \in Events PROVE event'[e] \in EventRow
    <3>1. event[e] \in EventRow
      BY <1>1 DEF CoordinatorTypeOK
    <3> QED BY <3>1, <1>3, <1>5
  <2> QED BY <2>1, <2>2
<1>7. NoMessageLost'
  BY <1>1, <1>2, <1>3, <1>5, <1>6, WaitingMoves
<1> QED BY <1>2, <1>6, <1>7 DEF CoordinatorInv, CoordinatorTypeOK, LoopsHoldRuns, EffectsOfReady,
               OneDecisionAtATime, Deciding

LEMMA NewRunTyped ==
  ASSUME CoordinatorTypeOK, NEW admitted, NEW status \in {"CLAIMED", "FAILED"}
  PROVE  /\ NewRun(status, admitted) \in RunRow
         /\ NewRun(status, admitted).status = status
<1> DEFINE all == \A e \in admitted : event[e].engineering
<1>1. all \in BOOLEAN
  BY Zenon
<1>2. /\ task.version \in 0..MaxVersion /\ task.state.req \in Nat
      /\ mode \in Modes \cup {"off"} /\ Arrived \in 0..MaxEvents
  BY ArrivedBound, CoordinatorAssumption DEF CoordinatorTypeOK, EngineeringState
<1>3. NewRun(status, admitted) = [status |-> status, mode |-> mode, version |-> task.version,
                                  req |-> task.state.req, seen |-> Arrived,
                                  engineering |-> all]
  BY DEF NewRun
<1> HIDE DEF all
<1> QED BY <1>1, <1>2, <1>3 DEF RunRow

LEMMA RestingTyped == Resting \in LoopRow /\ Resting.pc = "idle"
BY DEF Resting, LoopRow

LEMMA ClaimKeeps ==
  ASSUME CoordinatorInv, NEW p \in Loops, Claim(p)
  PROVE  CoordinatorInv'
<1> DEFINE f == FreshRun
           refused(admitted) == [e \in Events |->
             IF e \in Oldest \ admitted THEN [event[e] EXCEPT !.status = "UNAUTHORIZED"]
             ELSE event[e]]
           batch(admitted, status) == [e \in Events |->
             IF e \in admitted
             THEN [refused(admitted)[e] EXCEPT !.status = status, !.run = f]
             ELSE refused(admitted)[e]]
<1>1. CoordinatorTypeOK /\ NoMessageLost
  BY DEF CoordinatorInv
<1>2. UNCHANGED <<task, suspended, generating, mode, act, human>>
  BY DEF Claim
<1>3. f \in Runs /\ run[f].status = "ABSENT"
  BY <1>1, FreshRunAbsent DEF Claim
<1>4. Oldest \subseteq Queued /\ Queued \subseteq Events
  BY DEF Oldest, Queued
<1>5. ASSUME NEW e \in Queued
      PROVE  /\ event[e] \in EventRow /\ event[e].run = 0
             /\ [event[e] EXCEPT !.status = "UNAUTHORIZED"] \in EventRow
             /\ [event[e] EXCEPT !.status = "UNAUTHORIZED"].run = 0
             /\ [event[e] EXCEPT !.status = "UNAUTHORIZED"].status = "UNAUTHORIZED"
  <2>1. event[e] \in EventRow /\ event[e].run = 0
    BY <1>1 DEF Queued, CoordinatorTypeOK, NoMessageLost
  <2> QED BY <2>1 DEF EventRow
<1>6. ASSUME NEW admitted \in SUBSET Oldest
      PROVE  /\ refused(admitted) \in [Events -> EventRow]
             /\ \A e \in Events :
                  \/ refused(admitted)[e] = event[e]
                  \/ /\ e \in Queued
                     /\ refused(admitted)[e].run = 0
                     /\ refused(admitted)[e].status = "UNAUTHORIZED"
             /\ \A e \in admitted : refused(admitted)[e] = event[e]
  <2>1. ASSUME NEW e \in Events
        PROVE  event[e] \in EventRow
    BY <1>1 DEF CoordinatorTypeOK
  <2>2. ASSUME NEW e \in Events
        PROVE  \/ refused(admitted)[e] = event[e] /\ (e \in admitted \/ e \notin Oldest)
               \/ /\ e \in Queued
                  /\ e \notin admitted
                  /\ refused(admitted)[e] = [event[e] EXCEPT !.status = "UNAUTHORIZED"]
    BY <1>4
  <2>3. refused(admitted) = [e \in Events |-> refused(admitted)[e]]
    OBVIOUS
  <2>4. admitted \subseteq Events
    BY <1>4
  <2> HIDE DEF refused
  <2>5. \A e \in Events : refused(admitted)[e] \in EventRow
    BY <1>5, <2>1, <2>2
  <2>6. refused(admitted) \in [Events -> EventRow]
    BY <2>3, <2>5
  <2>7. \A e \in admitted : refused(admitted)[e] = event[e]
    BY <2>2, <2>4
  <2> QED BY <1>5, <2>2, <2>6, <2>7
<1>7. ASSUME NEW admitted \in SUBSET Oldest, NEW status \in {"CLAIMED", "FAILED"},
             event' = batch(admitted, status),
             run' = [run EXCEPT ![f] = NewRun(status, admitted)]
      PROVE  /\ event' \in [Events -> EventRow] /\ run' \in [Runs -> RunRow]
             /\ run'[f].status = status
             /\ NoMessageLost'
  <2>1. /\ run' \in [Runs -> RunRow] /\ run'[f].status = status
        /\ \A s \in Runs \ {f} : run'[s] = run[s]
    <3> DEFINE row == NewRun(status, admitted)
    <3>1. row \in RunRow /\ row.status = status
      BY <1>1, NewRunTyped
    <3> HIDE DEF row, f
    <3> QED BY <1>1, <1>3, <1>7, <3>1 DEF CoordinatorTypeOK, row
  <2>2. ASSUME NEW e \in admitted
        PROVE  /\ event'[e] \in EventRow
               /\ event'[e].run = f /\ event'[e].status = status
    <3>1. event[e] \in EventRow /\ e \in Events /\ refused(admitted)[e] = event[e]
      BY <1>4, <1>5, <1>6
    <3> HIDE DEF refused
    <3>2. event'[e] = [event[e] EXCEPT !.status = status, !.run = f]
      BY <1>7, <3>1
    <3> HIDE DEF f
    <3> QED BY <1>3, <3>1, <3>2 DEF EventRow
  <2>3. ASSUME NEW e \in Events, e \notin admitted
        PROVE  event'[e] = refused(admitted)[e]
    BY <1>7, <2>3
  <2>4. event' = [e \in Events |-> event'[e]]
    BY <1>7
  <2> HIDE DEF refused, batch, f
  <2>5. event' \in [Events -> EventRow]
    <3>1. \A e \in Events : event'[e] \in EventRow
      BY <1>6, <2>2, <2>3
    <3> QED BY <2>4, <3>1
  <2>6. f # 0 /\ 0 \notin Runs
    BY <1>3, CoordinatorAssumption DEF Runs
  <2>7. ASSUME NEW e \in Events
        PROVE  Placed(event'[e], run')
    <3>1. CASE e \in admitted
      BY <2>1, <2>2, <2>6, <3>1 DEF Placed
    <3>2. CASE e \notin admitted
      <4>1. \/ event'[e] = event[e]
            \/ event'[e].run = 0 /\ event'[e].status = "UNAUTHORIZED"
        BY <1>6, <2>3, <3>2
      <4>2. Placed(event[e], run) /\ event[e] \in EventRow
        BY <1>1, Places DEF CoordinatorTypeOK
      <4>3. event[e].run = 0 \/ event[e].run \in Runs \ {f}
        <5>1. event[e].run \in Runs \cup {0}
          BY <4>2 DEF EventRow
        <5> QED BY <1>3, <4>2, <5>1 DEF Placed, EventRow
      <4> QED BY <2>1, <2>6, <4>1, <4>2, <4>3 DEF Placed
    <3> QED BY <3>1, <3>2
  <2> QED BY <2>1, <2>5, <2>7, Places
<1>8. PICK admitted \in SUBSET Oldest :
        \/ event' = refused(admitted) /\ UNCHANGED <<run, loop>>
        \/ /\ event' = batch(admitted, "CLAIMED")
           /\ run' = [run EXCEPT ![f] = NewRun("CLAIMED", admitted)]
           /\ loop' = [loop EXCEPT ![p] = [Resting EXCEPT !.pc = "admitting", !.run = f]]
        \/ /\ event' = batch(admitted, "FAILED")
           /\ run' = [run EXCEPT ![f] = NewRun("FAILED", admitted)]
           /\ UNCHANGED loop
  BY DEF Claim
<1>9. Deciding = {}
  BY DEF Claim, Admittable
<1>10. CASE event' = refused(admitted) /\ UNCHANGED <<run, loop>>
  <2> HIDE DEF refused
  <2>1. event' \in [Events -> EventRow]
    BY <1>6, <1>10
  <2>2. NoMessageLost'
    BY <1>1, <1>6, <1>10, <2>1, WaitingMoves
  <2> QED BY <1>1, <1>2, <1>10, <2>1, <2>2 DEF CoordinatorInv, CoordinatorTypeOK,
             LoopsHoldRuns, EffectsOfReady, OneDecisionAtATime, Deciding
<1>11. ASSUME NEW status \in {"CLAIMED", "FAILED"}, event' = batch(admitted, status),
              run' = [run EXCEPT ![f] = NewRun(status, admitted)],
              loop' \in [Loops -> LoopRow], LoopsHoldRuns'
       PROVE  CoordinatorInv'
  <2>1. /\ event' \in [Events -> EventRow] /\ run' \in [Runs -> RunRow]
        /\ NoMessageLost'
    BY <1>7, <1>11
  <2>2. \A s \in Runs \ {f} : run'[s] = run[s]
    BY <1>1, <1>11 DEF CoordinatorTypeOK
  <2> HIDE DEF f, batch, refused
  <2>3. EffectsOfReady'
    BY <1>2, <1>3, <2>2 DEF EffectsOfReady, CoordinatorInv
  <2>4. OneDecisionAtATime'
    BY <1>9, <2>2 DEF OneDecisionAtATime, Deciding
  <2>5. CoordinatorTypeOK'
    BY <1>1, <1>2, <1>11, <2>1 DEF CoordinatorTypeOK
  <2> QED BY <1>2, <1>11, <2>1, <2>3, <2>4, <2>5 DEF CoordinatorInv
<1>12. ASSUME loop' = [loop EXCEPT ![p] = [Resting EXCEPT !.pc = "admitting", !.run = f]]
       PROVE  loop' \in [Loops -> LoopRow] /\ LoopsHoldRuns'
  <2> DEFINE busy == [Resting EXCEPT !.pc = "admitting", !.run = f]
  <2>1. busy \in LoopRow /\ busy.run = f
    <3> HIDE DEF f
    <3> QED BY <1>3 DEF Resting, LoopRow
  <2>2. loop' = [loop EXCEPT ![p] = busy] /\ loop \in [Loops -> LoopRow]
    BY <1>1, <1>12 DEF CoordinatorTypeOK
  <2> HIDE DEF busy, f
  <2> QED BY <1>3, <2>1, <2>2 DEF CoordinatorInv, LoopsHoldRuns
<1>13. ASSUME UNCHANGED loop
       PROVE  loop' \in [Loops -> LoopRow] /\ LoopsHoldRuns'
  BY <1>1, <1>13 DEF CoordinatorTypeOK, CoordinatorInv, LoopsHoldRuns
<1> HIDE DEF f, batch, refused
<1> QED BY <1>8, <1>10, <1>11, <1>12, <1>13

-----------------------------------------------------------------------------
(* The loops.                                                              *)
LEMMA LoopRowKept ==
  ASSUME CoordinatorInv, NEW p \in Loops, NEW row \in LoopRow,
         row.pc # "idle" => row.run \in Runs, loop' = [loop EXCEPT ![p] = row]
  PROVE  loop' \in [Loops -> LoopRow] /\ LoopsHoldRuns'
BY DEF CoordinatorInv, CoordinatorTypeOK, LoopsHoldRuns

LEMMA RestKept ==
  ASSUME CoordinatorInv, NEW p \in Loops, loop' = [loop EXCEPT ![p] = Resting]
  PROVE  loop' \in [Loops -> LoopRow] /\ LoopsHoldRuns'
BY RestingTyped, LoopRowKept

(* A busy loop that changes anything but the run it holds.                   *)
LEMMA BusyKept ==
  ASSUME CoordinatorInv, NEW p \in Loops, loop[p].pc # "idle",
         NEW row \in LoopRow, row.run = loop[p].run, loop' = [loop EXCEPT ![p] = row]
  PROVE  loop' \in [Loops -> LoopRow] /\ LoopsHoldRuns'
<1>1. loop[p].run \in Runs
  BY DEF CoordinatorInv, LoopsHoldRuns
<1> QED BY <1>1, LoopRowKept

LEMMA FailsKept ==
  ASSUME CoordinatorInv, NEW p \in Loops, loop[p].pc # "idle",
         NEW cause \in {"advanced", "other"}, NEW superseded \in BOOLEAN,
         Fails(p, cause, superseded)
  PROVE  loop' \in [Loops -> LoopRow] /\ LoopsHoldRuns'
<1> DEFINE row == [loop[p] EXCEPT !.pc = "failing", !.cause = cause, !.superseded = superseded]
<1>1. loop \in [Loops -> LoopRow] /\ loop[p] \in LoopRow
  BY DEF CoordinatorInv, CoordinatorTypeOK
<1>2. loop' = [loop EXCEPT ![p] = row]
  BY <1>1 DEF Fails
<1>3. row \in LoopRow /\ row.run = loop[p].run
  BY <1>1 DEF LoopRow
<1> HIDE DEF row
<1> QED BY <1>2, <1>3, BusyKept

LEMMA GoesKept ==
  ASSUME CoordinatorInv, NEW p \in Loops, loop[p].pc # "idle",
         NEW pc \in {"inferring", "completing"}, Goes(p, pc)
  PROVE  loop' \in [Loops -> LoopRow] /\ LoopsHoldRuns'
<1> DEFINE row == [loop[p] EXCEPT !.pc = pc]
<1>1. loop \in [Loops -> LoopRow] /\ loop[p] \in LoopRow
  BY DEF CoordinatorInv, CoordinatorTypeOK
<1>2. loop' = [loop EXCEPT ![p] = row]
  BY <1>1 DEF Goes
<1>3. row \in LoopRow /\ row.run = loop[p].run
  BY <1>1 DEF LoopRow
<1> HIDE DEF row
<1> QED BY <1>2, <1>3, BusyKept

LEMMA ThinkingKeeps ==
  ASSUME CoordinatorInv, NEW p \in Loops,
         Admit(p) \/ Infer(p) \/ Revoke(p) \/ TimeOut(p) \/ FinalCheck(p) \/ Crash(p)
  PROVE  CoordinatorInv'
<1>1. InMemory /\ loop[p].pc # "idle"
  BY DEF Admit, Infer, Revoke, TimeOut, FinalCheck, Crash, Awake
<1>2. CASE \E cause \in {"advanced", "other"} : \E superseded \in BOOLEAN :
             Fails(p, cause, superseded)
  BY <1>1, <1>2, FailsKept, InMemoryKeeps
<1>3. CASE Goes(p, "inferring") \/ Goes(p, "completing")
  BY <1>1, <1>3, GoesKept, InMemoryKeeps
<1>4. CASE loop' = [loop EXCEPT ![p] = Resting]
  BY <1>1, <1>4, RestKept, InMemoryKeeps
<1>5. CASE \E d \in Directives : loop' = [loop EXCEPT ![p].pc = "checking", ![p].directive = d]
  <2>1. PICK d \in Directives :
          loop' = [loop EXCEPT ![p] = [loop[p] EXCEPT !.pc = "checking", !.directive = d]]
    BY <1>5 DEF CoordinatorInv, CoordinatorTypeOK
  <2> DEFINE row == [loop[p] EXCEPT !.pc = "checking", !.directive = d]
  <2>2. row \in LoopRow /\ row.run = loop[p].run
    BY DEF CoordinatorInv, CoordinatorTypeOK, LoopRow
  <2> HIDE DEF row
  <2>3. loop' = [loop EXCEPT ![p] = row]
    BY <2>1 DEF row
  <2> QED BY <1>1, <2>2, <2>3, BusyKept, InMemoryKeeps
<1>6. CASE loop' = [loop EXCEPT ![p].pc = "admitting", ![p].call = 1]
  <2> DEFINE row == [loop[p] EXCEPT !.pc = "admitting", !.call = 1]
  <2>1. loop' = [loop EXCEPT ![p] = row]
    BY <1>6 DEF CoordinatorInv, CoordinatorTypeOK
  <2>2. row \in LoopRow /\ row.run = loop[p].run
    BY DEF CoordinatorInv, CoordinatorTypeOK, LoopRow
  <2> HIDE DEF row
  <2> QED BY <1>1, <2>1, <2>2, BusyKept, InMemoryKeeps
<1> QED BY <1>2, <1>3, <1>4, <1>5, <1>6 DEF Admit, Infer, Revoke, TimeOut, FinalCheck, Crash

(* A claimed run and its batch end together.                                 *)
LEMMA ClaimedEnds ==
  ASSUME CoordinatorInv, NEW r \in Runs, run[r].status = "CLAIMED",
         NEW status \in {"FAILED", "SUPERSEDED", "READY", "SHADOW"},
         run' = [run EXCEPT ![r].status = status],
         \/ event' = Requeue(r)
         \/ event' = Mark(r, "FAILED") /\ status = "FAILED"
         \/ event' = Mark(r, "PROCESSED") /\ status \in {"READY", "SHADOW"}
  PROVE  /\ run' \in [Runs -> RunRow] /\ event' \in [Events -> EventRow]
         /\ \A s \in Runs \ {r} : run'[s] = run[s]
         /\ run'[r].status = status
         /\ OneDecisionAtATime' /\ NoMessageLost'
<1>1. run \in [Runs -> RunRow] /\ run[r] \in RunRow
  BY DEF CoordinatorInv, CoordinatorTypeOK
<1>2. [run[r] EXCEPT !.status = status] \in RunRow
  BY <1>1 DEF RunRow
<1>3. /\ run' \in [Runs -> RunRow] /\ run'[r].status = status
      /\ \A s \in Runs \ {r} : run'[s] = run[s]
  BY <1>1, <1>2 DEF RunRow
<1>4. OneDecisionAtATime'
  BY <1>3, NoNewDecision DEF CoordinatorInv
<1>5. event' \in [Events -> EventRow] /\ NoMessageLost'
  BY <1>3, BatchFollows DEF CoordinatorInv
<1> QED BY <1>3, <1>4, <1>5

LEMMA CompleteKeeps ==
  ASSUME CoordinatorInv, NEW p \in Loops, Complete(p)
  PROVE  CoordinatorInv'
<1> DEFINE r == loop[p].run
<1>1. UNCHANGED <<task, suspended, generating, mode, human>> /\ loop[p].pc # "idle"
  BY DEF Complete
<1>2. r \in Runs /\ CoordinatorTypeOK
  BY <1>1 DEF CoordinatorInv, LoopsHoldRuns
<1>3. CASE UNCHANGED <<event, run, act>>
  <2>1. loop' = [loop EXCEPT ![p] = Resting] \/ Fails(p, "advanced", TRUE)
    BY <1>3 DEF Complete
  <2>2. loop' \in [Loops -> LoopRow] /\ LoopsHoldRuns'
    BY <1>1, <2>1, RestKept, FailsKept
  <2> QED BY <1>1, <1>3, <2>2, InMemoryKeeps DEF InMemory
<1>4. CASE /\ StillClaimed(r)
           /\ run' = [run EXCEPT ![r].status = IF run[r].mode = "shadow" THEN "SHADOW" ELSE "READY"]
           /\ act' = IF run[r].mode = "shadow" THEN act
                     ELSE [act EXCEPT ![r] = [status |-> "PENDING", seen |-> Arrived,
                                              directive |-> loop[p].directive]]
           /\ event' = Mark(r, "PROCESSED")
           /\ loop' = [loop EXCEPT ![p] = Resting]
  <2> HIDE DEF r
  <2>1. PICK status \in {"READY", "SHADOW"} :
          /\ run' = [run EXCEPT ![r].status = status]
          /\ status = "SHADOW" <=> run[r].mode = "shadow"
    BY <1>4
  <2>2. /\ run' \in [Runs -> RunRow] /\ event' \in [Events -> EventRow]
        /\ \A s \in Runs \ {r} : run'[s] = run[s]
        /\ run'[r].status = status
        /\ OneDecisionAtATime' /\ NoMessageLost'
    BY <1>2, <1>4, <2>1, ClaimedEnds DEF StillClaimed
  <2>3. [status |-> "PENDING", seen |-> Arrived, directive |-> loop[p].directive] \in ActRow
    BY <1>2, ArrivedBound DEF CoordinatorTypeOK, LoopRow, ActRow
  <2>4. act' \in [Runs -> ActRow] /\ \A s \in Runs \ {r} : act'[s] = act[s]
    BY <1>2, <1>4, <2>3 DEF CoordinatorTypeOK
  <2>5. act[r].status \notin {"PENDING", "WAITING_ENGINEER"}
    BY <1>2, <1>4 DEF CoordinatorInv, EffectsOfReady, StillClaimed
  <2>6. EffectsOfReady'
    BY <1>4, <2>1, <2>2, <2>4, <2>5 DEF CoordinatorInv, EffectsOfReady
  <2>7. loop' \in [Loops -> LoopRow] /\ LoopsHoldRuns'
    BY <1>4, RestKept
  <2>8. CoordinatorTypeOK'
    BY <1>1, <1>2, <2>2, <2>4, <2>7 DEF CoordinatorTypeOK
  <2> QED BY <1>1, <2>2, <2>6, <2>7, <2>8 DEF CoordinatorInv
<1> QED BY <1>3, <1>4 DEF Complete

(* The ends of a claimed run that leave no action.                           *)
LEMMA GivenUpKeeps ==
  ASSUME CoordinatorInv, NEW r \in Runs, run[r].status = "CLAIMED",
         NEW status \in {"FAILED", "SUPERSEDED"},
         run' = [run EXCEPT ![r].status = status],
         \/ event' = Requeue(r)
         \/ event' = Mark(r, "FAILED") /\ status = "FAILED",
         UNCHANGED <<task, suspended, generating, mode, act, human>>,
         loop' \in [Loops -> LoopRow], LoopsHoldRuns'
  PROVE  CoordinatorInv'
<1>1. /\ run' \in [Runs -> RunRow] /\ event' \in [Events -> EventRow]
      /\ \A s \in Runs \ {r} : run'[s] = run[s]
      /\ run'[r].status = status
      /\ OneDecisionAtATime' /\ NoMessageLost'
  BY ClaimedEnds
<1>2. EffectsOfReady'
  BY <1>1 DEF CoordinatorInv, EffectsOfReady
<1>3. CoordinatorTypeOK'
  BY <1>1 DEF CoordinatorInv, CoordinatorTypeOK
<1> QED BY <1>1, <1>2, <1>3 DEF CoordinatorInv

LEMMA FailKeeps ==
  ASSUME CoordinatorInv, NEW p \in Loops, Fail(p)
  PROVE  CoordinatorInv'
<1>1. loop[p].run \in Runs
  BY DEF Fail, CoordinatorInv, LoopsHoldRuns
<1>2. loop' \in [Loops -> LoopRow] /\ LoopsHoldRuns'
  BY RestKept DEF Fail
<1>3. CASE UNCHANGED <<event, run>>
  BY <1>2, <1>3, InMemoryKeeps DEF Fail, InMemory
<1>4. CASE run[loop[p].run].status = "CLAIMED"
  BY <1>1, <1>2, <1>4, GivenUpKeeps DEF Fail
<1> QED BY <1>3, <1>4 DEF Fail

LEMMA RecoverKeeps ==
  ASSUME CoordinatorInv, NEW r \in Runs, Recover(r)
  PROVE  CoordinatorInv'
<1>1. loop' \in [Loops -> LoopRow] /\ LoopsHoldRuns'
  BY DEF Recover, CoordinatorInv, CoordinatorTypeOK, LoopsHoldRuns
<1> QED BY <1>1, GivenUpKeeps DEF Recover

-----------------------------------------------------------------------------
(* Effects.                                                                *)
LEMMA ExecutableIsReady ==
  ASSUME CoordinatorInv, NEW r \in Runs, Executable(r)
  PROVE  run[r].status = "READY"
BY DEF CoordinatorInv, EffectsOfReady, Executable

LEMMA EndsKept ==
  ASSUME CoordinatorInv, NEW r \in Runs, Executable(r),
         NEW runStatus \in {"SUPERSEDED", "REJECTED", "COMPLETED"},
         NEW actStatus \in {"SUPERSEDED", "REJECTED", "APPLIED"},
         Ends(r, runStatus, actStatus)
  PROVE  /\ run' \in [Runs -> RunRow] /\ act' \in [Runs -> ActRow]
         /\ \A s \in Runs \ {r} : run'[s] = run[s] /\ act'[s] = act[s]
         /\ run'[r].status = runStatus /\ act'[r].status = actStatus
         /\ OneDecisionAtATime' /\ EffectsOfReady'
<1>1. /\ run \in [Runs -> RunRow] /\ run[r] \in RunRow
      /\ act \in [Runs -> ActRow] /\ act[r] \in ActRow
  BY DEF CoordinatorInv, CoordinatorTypeOK
<1>2. [run[r] EXCEPT !.status = runStatus] \in RunRow
  BY <1>1 DEF RunRow
<1>3. [act[r] EXCEPT !.status = actStatus] \in ActRow
  BY <1>1 DEF ActRow
<1>4. /\ run' \in [Runs -> RunRow] /\ run'[r].status = runStatus
      /\ \A s \in Runs \ {r} : run'[s] = run[s]
  BY <1>1, <1>2 DEF Ends, RunRow
<1>5. /\ act' \in [Runs -> ActRow] /\ act'[r].status = actStatus
      /\ \A s \in Runs \ {r} : act'[s] = act[s]
  BY <1>1, <1>3 DEF Ends, ActRow
<1>6. OneDecisionAtATime'
  BY <1>4, NoNewDecision DEF CoordinatorInv
<1>7. EffectsOfReady'
  BY <1>4, <1>5 DEF CoordinatorInv, EffectsOfReady
<1> QED BY <1>4, <1>5, <1>6, <1>7

LEMMA SupersedeKeeps ==
  ASSUME CoordinatorInv, NEW r \in Runs, Supersede(r)
  PROVE  CoordinatorInv'
<1>1. UNCHANGED <<task, suspended, generating, mode, human, loop>>
  BY DEF Supersede
<1>2. /\ run' \in [Runs -> RunRow] /\ act' \in [Runs -> ActRow]
      /\ \A s \in Runs \ {r} : run'[s] = run[s]
      /\ OneDecisionAtATime' /\ EffectsOfReady'
  BY EndsKept DEF Supersede
<1>3. event' \in [Events -> EventRow] /\ NoMessageLost'
  BY <1>2, BatchFollows DEF Supersede, CoordinatorInv
<1> QED BY <1>1, <1>2, <1>3 DEF CoordinatorInv, CoordinatorTypeOK, LoopsHoldRuns

LEMMA RejectKeeps ==
  ASSUME CoordinatorInv, NEW r \in Runs, Reject(r)
  PROVE  CoordinatorInv'
<1>1. UNCHANGED <<task, suspended, generating, mode, event, human, loop>>
  BY DEF Reject
<1>2. /\ run' \in [Runs -> RunRow] /\ act' \in [Runs -> ActRow]
      /\ \A s \in Runs \ {r} : run'[s] = run[s]
      /\ run'[r].status = "REJECTED"
      /\ OneDecisionAtATime' /\ EffectsOfReady'
  BY EndsKept DEF Reject
<1>3. NoMessageLost'
  BY <1>1, <1>2, ExecutableIsReady, BatchStays DEF Reject
<1> QED BY <1>1, <1>2, <1>3 DEF CoordinatorInv, CoordinatorTypeOK, LoopsHoldRuns

LEMMA AwaitEngineerKeeps ==
  ASSUME CoordinatorInv, NEW r \in Runs, AwaitEngineer(r)
  PROVE  CoordinatorInv'
<1>1. UNCHANGED <<task, suspended, generating, mode, event, run, human, loop>>
  BY DEF AwaitEngineer
<1>2. act \in [Runs -> ActRow] /\ act[r] \in ActRow
  BY DEF CoordinatorInv, CoordinatorTypeOK
<1>3. [act[r] EXCEPT !.status = "WAITING_ENGINEER"] \in ActRow
  BY <1>2 DEF ActRow
<1>4. act' \in [Runs -> ActRow] /\ \A s \in Runs \ {r} : act'[s] = act[s]
  BY <1>2, <1>3 DEF AwaitEngineer
<1>5. EffectsOfReady'
  BY <1>1, <1>4, ExecutableIsReady DEF CoordinatorInv, EffectsOfReady, AwaitEngineer, Applicable
<1> QED BY <1>1, <1>4, <1>5 DEF CoordinatorInv, CoordinatorTypeOK, LoopsHoldRuns,
               OneDecisionAtATime, Deciding, NoMessageLost

LEMMA TaskRowEdit ==
  ASSUME CoordinatorTypeOK, NEW s \in EngineeringState, NEW v \in Nat \ {0}
  PROVE  /\ [task EXCEPT !.state = s, !.version = v].state = s
         /\ [task EXCEPT !.state = s, !.version = v].version = v
         /\ [task EXCEPT !.state = s, !.version = v].enrolled \in BOOLEAN
BY DEF CoordinatorTypeOK

TaskRowOK(row) ==
  row \in [state : EngineeringState, version : Nat \ {0}, enrolled : BOOLEAN]

(* Where a directive may lead the task, for a task that decisions may touch.  *)
LEMMA StepOutcome ==
  ASSUME CoordinatorInv, NEW a \in {"BLOCK", "PAUSE", "CANCEL", "VALIDATE_CANDIDATE"},
         NEW reason \in WaitReason, NEW after \in Step(a, reason)
  PROVE  /\ TaskRowOK(after) /\ Consistent(after.state)
         /\ after.state.req = task.state.req
<1>1. /\ task \in [state : EngineeringState, version : 1..MaxVersion, enrolled : BOOLEAN]
      /\ Consistent(task.state)
  BY DEF CoordinatorInv, CoordinatorTypeOK
<1> DEFINE s == Transition(task.state, a, reason, FALSE)
<1>2. /\ Permits(task.state, a, reason)
      /\ after = [task EXCEPT !.state = s, !.version = @ + 1]
  BY DEF Step
<1>3. a \in Action
  BY DEF Action, StepAction
<1>4. s \in EngineeringState /\ Consistent(s)
  BY <1>1, <1>2, <1>3, TransitionConsistent
<1>5. s.req = task.state.req
  BY <1>1 DEF Transition, PauseState, StepState, StepAction, EngineeringState
<1> HIDE DEF s
<1>6. task.version + 1 \in Nat \ {0}
  BY <1>1, CoordinatorAssumption
<1> QED BY <1>1, <1>2, <1>4, <1>5, <1>6 DEF TaskRowOK

LEMMA AmendedOutcome ==
  ASSUME CoordinatorInv, task.state.status \notin Terminal, ~ task.state.takeover,
         NEW after \in Amended
  PROVE  TaskRowOK(after) /\ Consistent(after.state)
<1> DEFINE s       == task.state
           revised == [s EXCEPT !.req = @ + 1]
           resumed == ResumeState(ReviseState(PauseState(s, FALSE)))
           renewed == [revised EXCEPT !.status = "NEW", !.stage = "INTAKE", !.wait = "NONE"]
           blocked == Transition(revised, "BLOCK", "MISSING_CONFIGURATION", FALSE)
<1>1. /\ task \in [state : EngineeringState, version : 1..MaxVersion, enrolled : BOOLEAN]
      /\ s \in EngineeringState /\ Consistent(s)
  BY DEF CoordinatorInv, CoordinatorTypeOK
<1>2. s.stage # "COMPLETE" /\ s.req \in Nat \ {0} /\ s.req + 1 \in Nat \ {0} /\ s.req + 1 >= 1
  BY <1>1 DEF Consistent, Terminal, EngineeringState
<1>3. resumed \in EngineeringState /\ Consistent(resumed)
  <2>1. PICK paused : paused = PauseState(s, FALSE)
    OBVIOUS
  <2>2. /\ paused \in EngineeringState /\ paused.stage = s.stage /\ paused.req = s.req
        /\ ~ paused.takeover
    BY <1>1, <2>1 DEF PauseState, EngineeringState, TaskStatus
  <2>3. PICK edited : edited = ReviseState(paused)
    OBVIOUS
  <2>4. /\ edited \in EngineeringState /\ edited.stage \in {"INTAKE", "FIXING"}
        /\ edited.req >= 1
    BY <1>2, <2>2, <2>3 DEF ReviseState, EngineeringState, Stage
  <2>5. resumed = ResumeState(edited)
    BY <2>1, <2>3
  <2> HIDE DEF resumed
  <2> QED BY <2>4, <2>5 DEF ResumeState, EngineeringState, Consistent, TaskStatus, WaitReason
<1>4. /\ revised \in EngineeringState /\ revised.stage # "COMPLETE" /\ ~ revised.takeover
      /\ revised.req >= 1
  BY <1>1, <1>2 DEF EngineeringState
<1> HIDE DEF revised
<1>5. renewed \in EngineeringState /\ Consistent(renewed)
  <2>1. renewed \in EngineeringState
    BY <1>4 DEF EngineeringState, TaskStatus, WaitReason, Stage
  <2>2. /\ renewed.status = "NEW" /\ renewed.stage = "INTAKE" /\ renewed.wait = "NONE"
        /\ renewed.req = revised.req /\ renewed.takeover = revised.takeover
    BY <1>4 DEF EngineeringState
  <2> HIDE DEF renewed
  <2> QED BY <1>4, <2>1, <2>2 DEF Consistent
<1>6. blocked \in EngineeringState /\ Consistent(blocked)
  <2>1. blocked = [revised EXCEPT !.status = "WAITING_HUMAN", !.wait = "MISSING_CONFIGURATION"]
    BY DEF Transition, StepAction
  <2> HIDE DEF blocked
  <2>2. blocked \in EngineeringState
    BY <1>4, <2>1 DEF EngineeringState, TaskStatus, WaitReason
  <2>3. /\ blocked.status = "WAITING_HUMAN" /\ blocked.wait = "MISSING_CONFIGURATION"
        /\ blocked.stage = revised.stage /\ blocked.req = revised.req
        /\ blocked.takeover = revised.takeover
    BY <1>4, <2>1 DEF EngineeringState
  <2> QED BY <1>4, <2>2, <2>3 DEF Consistent
<1>7. \/ after = [task EXCEPT !.state = resumed, !.version = @ + 3]
      \/ after = [task EXCEPT !.state = renewed, !.version = @ + 1, !.enrolled = TRUE]
      \/ after = [task EXCEPT !.state = blocked, !.version = @ + 1]
  BY DEF Amended, revised
<1>8. task.version + 1 \in Nat \ {0} /\ task.version + 3 \in Nat \ {0}
  BY <1>1, CoordinatorAssumption
<1> HIDE DEF resumed, renewed, blocked
<1> QED BY <1>1, <1>3, <1>5, <1>6, <1>7, <1>8 DEF TaskRowOK

LEMMA OutcomeKept ==
  ASSUME CoordinatorInv, NEW r \in Runs, ValidEffect(r), NEW after \in Outcomes(act[r].directive)
  PROVE  /\ TaskRowOK(after) /\ Consistent(after.state)
         /\ act[r].directive \notin Work => after.state.req = task.state.req
         /\ act[r].directive \in Quiet => after = task
<1> DEFINE d == act[r].directive
<1>1. TaskRowOK(task) /\ Consistent(task.state)
  BY CoordinatorAssumption DEF CoordinatorInv, CoordinatorTypeOK, TaskRowOK
<1>2. "NONE" \in WaitReason /\ "MISSING_REQUIREMENT" \in WaitReason
  BY DEF WaitReason
<1>3. CASE after = task
  BY <1>1, <1>3
<1>4. CASE d \in Work
  <2>1. task.state.status \notin Terminal /\ ~ task.state.takeover
    BY <1>4 DEF ValidEffect, Work, Quiet
  <2>2. after \in Amended
    BY <1>4 DEF Outcomes, Work
  <2> QED BY <1>4, <2>1, <2>2, AmendedOutcome DEF Work, Quiet
<1>5. CASE d \in {"ASK_HUMAN", "PAUSE", "CANCEL"}
  <2>1. \E a \in {"BLOCK", "PAUSE", "CANCEL"} : \E reason \in WaitReason :
          after \in Step(a, reason)
    BY <1>2, <1>5 DEF Outcomes, Work
  <2> QED BY <1>5, <2>1, StepOutcome DEF Quiet
<1>6. CASE d = "REQUEST_VALIDATION"
  <2>1. after = task \/ after \in Step("VALIDATE_CANDIDATE", "NONE")
    BY <1>6 DEF Outcomes, Revalidated, Work
  <2> QED BY <1>2, <1>3, <1>6, <2>1, StepOutcome DEF Quiet
<1>7. CASE d \notin Work \cup {"ASK_HUMAN", "PAUSE", "CANCEL", "REQUEST_VALIDATION"}
  BY <1>3, <1>7 DEF Outcomes
<1> QED BY <1>4, <1>5, <1>6, <1>7

LEMMA ApplyKeeps ==
  ASSUME CoordinatorInv, NEW r \in Runs, Apply(r)
  PROVE  CoordinatorInv'
<1>1. UNCHANGED <<suspended, generating, mode, event, loop>> /\ Executable(r) /\ ValidEffect(r)
  BY DEF Apply, Applicable
<1>2. PICK after \in Outcomes(act[r].directive) :
        /\ after.version <= MaxVersion
        /\ task' = after
        /\ human' = IF act[r].directive # "ASK_HUMAN" THEN human
                    ELSE [q \in Runs |->
                            IF q = r THEN [status |-> "OPEN", version |-> after.version,
                                           req |-> after.state.req]
                            ELSE IF Asked # {} /\ q = Latest(Asked)
                            THEN [human[q] EXCEPT !.status = "CANCELLED"] ELSE human[q]]
  BY DEF Apply
<1>3. /\ after.state \in EngineeringState /\ after.version \in 1..MaxVersion
      /\ after \in [state : EngineeringState, version : 1..MaxVersion, enrolled : BOOLEAN]
      /\ Consistent(after.state)
  <2>1. TaskRowOK(after) /\ Consistent(after.state)
    BY <1>1, OutcomeKept
  <2>2. after.version \in 1..MaxVersion
    BY <1>2, <2>1, CoordinatorAssumption DEF TaskRowOK
  <2> QED BY <2>1, <2>2 DEF TaskRowOK
<1>4. human' \in [Runs -> HumanRow]
  <2>1. human \in [Runs -> HumanRow]
    BY DEF CoordinatorInv, CoordinatorTypeOK
  <2>2. ASSUME NEW q \in Runs
        PROVE  /\ human[q] \in HumanRow
               /\ [human[q] EXCEPT !.status = "CANCELLED"] \in HumanRow
    BY <2>1 DEF HumanRow
  <2>3. [status |-> "OPEN", version |-> after.version, req |-> after.state.req] \in HumanRow
    BY <1>3 DEF HumanRow, EngineeringState
  <2> QED BY <1>2, <2>1, <2>2, <2>3
<1>5. /\ run' \in [Runs -> RunRow] /\ act' \in [Runs -> ActRow]
      /\ \A s \in Runs \ {r} : run'[s] = run[s]
      /\ run'[r].status = "COMPLETED"
      /\ OneDecisionAtATime' /\ EffectsOfReady'
  BY <1>1, EndsKept DEF Apply
<1>6. NoMessageLost'
  BY <1>1, <1>5, ExecutableIsReady, BatchStays
<1>7. CoordinatorTypeOK' /\ Consistent(task.state)'
  BY <1>1, <1>2, <1>3, <1>4, <1>5 DEF CoordinatorInv, CoordinatorTypeOK
<1> QED BY <1>1, <1>5, <1>6, <1>7 DEF CoordinatorInv, LoopsHoldRuns

LEMMA NextKeeps ==
  ASSUME CoordinatorInv, [Next]_vars
  PROVE  CoordinatorInv'
<1>1. CASE UNCHANGED vars
  BY <1>1 DEF vars, CoordinatorInv, CoordinatorTypeOK, LoopsHoldRuns, EffectsOfReady,
     OneDecisionAtATime, Deciding, NoMessageLost
<1>2. ASSUME NEW r \in Runs, Execute(r)
      PROVE  CoordinatorInv'
  BY <1>2, SupersedeKeeps, RejectKeeps, AwaitEngineerKeeps, ApplyKeeps DEF Execute
<1>3. ASSUME NEW p \in Loops, Proceed(p) \/ Crash(p)
      PROVE  CoordinatorInv'
  BY <1>3, ThinkingKeeps, CompleteKeeps, FailKeeps DEF Proceed
<1> QED BY <1>1, <1>2, <1>3, EnqueueKeeps, RespondKeeps, RecoverKeeps, TransitKeeps,
           SurroundingsKeep, ClaimKeeps, SuspendKeeps DEF Next

(* Whatever number of replicas claim, crash, recover and finish late, a task's *)
(* decisions are made one at a time, every message is in exactly one place,    *)
(* and the row stays one that EngineeringState accepts.                        *)
THEOREM DecisionsAreSafe ==
  Spec => [](/\ CoordinatorTypeOK
             /\ Consistent(task.state)
             /\ OneDecisionAtATime
             /\ NoMessageLost)
<1>1. Init => CoordinatorInv
  BY InitKeeps
<1>2. CoordinatorInv /\ [Next]_vars => CoordinatorInv'
  BY NextKeeps
<1>3. CoordinatorInv => /\ CoordinatorTypeOK
                        /\ Consistent(task.state)
                        /\ OneDecisionAtATime
                        /\ NoMessageLost
  BY DEF CoordinatorInv
<1> QED BY <1>1, <1>2, <1>3, PTL DEF Spec

-----------------------------------------------------------------------------
(* Only _apply() reports an action as applied.                               *)
LEMMA OnlyApply ==
  ASSUME CoordinatorInv, [Next]_vars, NEW r \in Runs,
         act[r].status # "APPLIED", act'[r].status = "APPLIED"
  PROVE  Apply(r)
<1>1. act \in [Runs -> ActRow]
  BY DEF CoordinatorInv, CoordinatorTypeOK
<1>2. act' # act
  OBVIOUS
<1>3. ASSUME NEW q \in Runs, Execute(q)
      PROVE  Apply(r)
  <2>1. CASE Supersede(q) \/ Reject(q)
    <3>1. act'[r] = act[r] \/ act'[r].status \in {"SUPERSEDED", "REJECTED"}
      BY <2>1, EndsKept DEF Supersede, Reject
    <3> QED BY <3>1
  <2>2. CASE AwaitEngineer(q)
    <3>1. act[q] \in ActRow
      BY <1>1
    <3>2. act'[r] = act[r] \/ act'[r].status = "WAITING_ENGINEER"
      BY <1>1, <2>2, <3>1 DEF AwaitEngineer, ActRow
    <3> QED BY <3>2
  <2>3. CASE Apply(q)
    <3>1. \A s \in Runs \ {q} : act'[s] = act[s]
      BY <2>3, EndsKept DEF Apply, Applicable
    <3> QED BY <2>3, <3>1
  <2> QED BY <1>3, <2>1, <2>2, <2>3 DEF Execute
<1>4. ASSUME NEW p \in Loops, Complete(p)
      PROVE  FALSE
  <2>1. PICK row : /\ row.status = "PENDING"
                   /\ act' = [act EXCEPT ![loop[p].run] = row]
    <3>1. [status |-> "PENDING", seen |-> Arrived, directive |-> loop[p].directive].status
             = "PENDING"
      OBVIOUS
    <3> QED BY <1>2, <1>4, <3>1 DEF Complete
  <2>2. act'[r] = act[r] \/ act'[r] = row
    BY <1>1, <2>1
  <2> QED BY <2>1, <2>2
<1>5. CASE act' = act
  BY <1>2, <1>5
<1> QED BY <1>3, <1>4, <1>5 DEF Next, vars, Enqueue, Respond, Recover, Transit, Toggle, Settle,
           Claim, SuspendEvent, SuspendBatch, Proceed, Crash, Admit, Infer, Revoke, TimeOut,
           FinalCheck, Fail, InMemory

LEMMA AppliedConfined ==
  ASSUME CoordinatorInv, NEW r \in Runs, Apply(r)
  PROVE  \/ task' = task
         \/ /\ task.state.status \notin Terminal \cup {"PAUSED"}
            /\ ~ task.state.takeover
            /\ task.state.status = "WAITING_HUMAN" =>
                 \E e \in Events : event[e].run = r /\ event[e].answers # 0
            /\ task'.state.req # task.state.req => ~ generating
<1>1. /\ ValidEffect(r)
      /\ act[r].directive \in Work => ~ generating
      /\ task' \in Outcomes(act[r].directive)
  BY DEF Apply, Applicable
<1>2. CASE act[r].directive \in Quiet
  BY <1>1, <1>2, OutcomeKept
<1>3. CASE act[r].directive \notin Quiet
  <2>1. /\ task.state.status \notin Terminal \cup {"PAUSED"} /\ ~ task.state.takeover
        /\ task.state.status = "WAITING_HUMAN" => HumanContinuation(r)
    BY <1>1, <1>3 DEF ValidEffect
  <2>2. task'.state.req # task.state.req => ~ generating
    BY <1>1, OutcomeKept
  <2>3. ASSUME HumanContinuation(r)
        PROVE  \E e \in Events : event[e].run = r /\ event[e].answers # 0
    <3>1. PICK e \in Batch(r) : event[e].answers = Latest(Asked)
      BY <2>3 DEF HumanContinuation
    <3>2. Latest(Asked) \in Runs
      BY <2>3, LatestAsked DEF HumanContinuation
    <3> QED BY <3>1, <3>2, CoordinatorAssumption DEF Batch, Runs
  <2> QED BY <2>1, <2>2, <2>3
<1> QED BY <1>2, <1>3

(* Replicas that claim, crash, recover and finish late never have two          *)
(* decisions of a task under way.                                             *)
THEOREM DecidesOneAtATime == Spec => []OneDecisionAtATime
BY DecisionsAreSafe, PTL

(* A message waits without a run or shares the outcome of the one it belongs   *)
(* to, whatever late replica or recovery touches either.                      *)
THEOREM NoMessageIsLost == Spec => []NoMessageLost
BY DecisionsAreSafe, PTL

(* A decision that is applied finds the task as an operator left it: it never  *)
(* moves one that was paused, taken over or ended, answers a question only    *)
(* with a batch that contains the answer, and amends no work in progress.      *)
THEOREM OperatorDecides == Spec => OperatorHasTheLastWord
<1>1. Init => CoordinatorInv
  BY InitKeeps
<1>2. CoordinatorInv /\ [Next]_vars => CoordinatorInv'
  BY NextKeeps
<1>3. CoordinatorInv /\ [Next]_vars =>
        [\A r \in Runs : act[r].status # "APPLIED" /\ act'[r].status = "APPLIED" =>
           \/ task' = task
           \/ /\ task.state.status \notin Terminal \cup {"PAUSED"}
              /\ ~ task.state.takeover
              /\ task.state.status = "WAITING_HUMAN" =>
                   \E e \in Events : event[e].run = r /\ event[e].answers # 0
              /\ task'.state.req # task.state.req => ~ generating]_vars
  BY OnlyApply, AppliedConfined
<1> QED BY <1>1, <1>2, <1>3, PTL DEF Spec, OperatorHasTheLastWord
=============================================================================
