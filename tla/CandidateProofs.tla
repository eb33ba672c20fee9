-------------------------- MODULE CandidateProofs ---------------------------
(***************************************************************************)
(* The life of a candidate: a native developer turn (NativeTurn), a patch  *)
(* turn (PatchTurn), and validation, publication and merge (Delivery).     *)
(* Each part is proved for itself; the three components share no variable. *)
(***************************************************************************)
EXTENDS NativeTurn, PatchTurn, Delivery, LifecycleProofs, FiniteSetTheorems

-----------------------------------------------------------------------------
(***************************************************************************)
(* NativeTurn. The controller, the runner and Docker see different things: *)
(* the invariant says what the container's state lets each of the others   *)
(* conclude.                                                               *)
(***************************************************************************)
Alive == {"connect", "await", "turn"}

NativeShape ==
  /\ dock \in [box : {"none", "created", "running", "exited"},
               asked : BOOLEAN, known : BOOLEAN, failed : BOOLEAN]
  /\ control \in [start : BOOLEAN, answers : Seq({"CONTINUE", "NUDGE", "STOP"})]
  /\ recorded \in BOOLEAN /\ paid \in Nat

(* A turn is authorized only for a thread whose id is in the row, and asks  *)
(* the model nothing before.                                                *)
AuthorizedThread ==
  /\ host = "authorize" => recorded
  /\ control.start => recorded
  /\ runner = "turn" => recorded
  /\ paid > 0 => recorded

(* Who runs has a container, and a container was asked for.                 *)
BoxFollowsRunner ==
  /\ runner \in Alive => dock.box = "running" /\ host # "idle"
  /\ host = "created" => dock.asked
  /\ ~ dock.asked => dock.box = "none"
  /\ host = "closed" /\ ~ dock.failed => dock.box = "none"

NativeInv == NativeShape /\ AuthorizedThread /\ BoxFollowsRunner

LEMMA NativeInitOK == NativeInit => NativeInv
BY DEF NativeInit, NativeInv, NativeShape, AuthorizedThread, BoxFollowsRunner, NoBox, Alive

LEMMA ControllerKeeps ==
  ASSUME NativeInv,
         Launch \/ StartBox \/ Started \/ PersistId \/ Authorize \/ TurnEnds \/ LookUp
           \/ StopBox \/ DeleteBox \/ NothingToClose
  PROVE  NativeInv'
<1> USE DEF NativeInv, NativeShape, AuthorizedThread, BoxFollowsRunner, inContainer, Alive
<1>1. CASE Launch
  BY <1>1 DEF Launch
<1>2. CASE StartBox
  <2>1. /\ host = "created" /\ host' \in {"starting", "closing"}
        /\ UNCHANGED <<control, recorded, paid>>
    BY <1>2 DEF StartBox
  <2>2. CASE dock' = [dock EXCEPT !.box = "running"] /\ runner' = "connect"
    <3>1. /\ dock' \in [box : {"none", "created", "running", "exited"},
                       asked : BOOLEAN, known : BOOLEAN, failed : BOOLEAN]
          /\ dock'.box = "running" /\ dock'.asked
      <4>1. dock.asked
        BY <2>1
      <4> QED
        BY <2>2, <4>1
    <3> QED
      BY <2>1, <2>2, <3>1
  <2>3. CASE UNCHANGED <<dock, runner>>
    BY <2>1, <2>3
  <2> QED
    BY <1>2, <2>2, <2>3 DEF StartBox
<1>3. CASE Started \/ PersistId \/ Authorize \/ TurnEnds \/ NothingToClose
  BY <1>3 DEF Started, PersistId, Authorize, TurnEnds, NothingToClose
<1>4. CASE LookUp
  BY <1>4 DEF LookUp
<1>5. CASE StopBox
  BY <1>5 DEF StopBox, Exits
<1>6. CASE DeleteBox
  BY <1>6 DEF DeleteBox
<1> QED
  BY <1>1, <1>2, <1>3, <1>4, <1>5, <1>6

(* What the container does: nothing to the controller, and it pays only in  *)
(* a turn.                                                                  *)
RunnerStep ==
  /\ runner \in Alive
  /\ UNCHANGED <<host, control, recorded>>
  /\ \/ UNCHANGED dock /\ runner' \in Alive
     \/ Exits
  /\ runner' = "turn" => control.start \/ runner = "turn"
  /\ paid' = paid \/ (runner = "turn" /\ paid' = paid + 1)

LEMMA RunnerKeeps ==
  ASSUME NativeInv, RunnerStep
  PROVE  NativeInv'
BY DEF NativeInv, NativeShape, AuthorizedThread, BoxFollowsRunner, RunnerStep, Exits, Alive

LEMMA RunnerSteps ==
  ASSUME Connects \/ Fails \/ Authorised \/ Supervise \/ Decide
           \/ CodexInference \/ CodexItem \/ CodexItemDone \/ CodexEnds \/ CodexSeesEnd
           \/ CodexReceipt \/ ClaudeMessage \/ PostTool \/ ClaudeReceipt
           \/ ResponsesRequest \/ ResponsesTools \/ ResponsesDecides \/ ResponsesReceipt
  PROVE  RunnerStep
<1> USE DEF RunnerStep, controller, Alive, InTurn, Completes
<1>1. CASE Connects \/ Fails \/ Authorised \/ Supervise \/ Decide
  BY <1>1 DEF Connects, Fails, Authorised, Supervise, Decide, Exits
<1>2. CASE CodexInference \/ CodexItem \/ CodexItemDone
  BY <1>2 DEF CodexInference, CodexItem, CodexItemDone
<1>3. CASE CodexEnds \/ CodexSeesEnd \/ CodexReceipt
  BY <1>3 DEF CodexEnds, CodexSeesEnd, CodexReceipt, Exits
<1>4. CASE ClaudeMessage \/ PostTool \/ ClaudeReceipt
  BY <1>4 DEF ClaudeMessage, PostTool, ClaudeReceipt, Exits
<1>5. CASE ResponsesRequest \/ ResponsesTools
  BY <1>5 DEF ResponsesRequest, ResponsesTools, Exits
<1>6. CASE ResponsesDecides \/ ResponsesReceipt
  BY <1>6 DEF ResponsesDecides, ResponsesReceipt, Exits
<1> QED
  BY <1>1, <1>2, <1>3, <1>4, <1>5, <1>6

LEMMA ReaderKeeps ==
  ASSUME NativeInv, Hear \/ Answer
  PROVE  NativeInv'
<1> USE DEF NativeInv, NativeShape, AuthorizedThread, BoxFollowsRunner, inContainer
<1>1. CASE Hear
  BY <1>1 DEF Hear
<1>2. CASE Answer
  <2>1. control' \in [start : BOOLEAN, answers : Seq({"CONTINUE", "NUDGE", "STOP"})]
        /\ control'.start = control.start
    <3>1. CASE UNCHANGED control
      BY <3>1
    <3>2. ASSUME NEW a \in {"CONTINUE", "NUDGE", "STOP"},
                 control' = [control EXCEPT !.answers = Append(control.answers, a)]
          PROVE  /\ control' \in [start : BOOLEAN, answers : Seq({"CONTINUE", "NUDGE", "STOP"})]
                 /\ control'.start = control.start
      <4>1. Append(control.answers, a) \in Seq({"CONTINUE", "NUDGE", "STOP"})
        OBVIOUS
      <4> QED
        BY <3>2, <4>1
    <3> QED
      BY <1>2, <3>1, <3>2 DEF Answer
  <2> QED
    BY <1>2, <2>1 DEF Answer
<1> QED
  BY <1>1, <1>2

LEMMA NativeStepKeeps == NativeInv /\ [NativeNext]_nativeVars => NativeInv'
<1> SUFFICES ASSUME NativeInv, [NativeNext]_nativeVars PROVE NativeInv'
  OBVIOUS
<1>1. CASE NativeNext
  BY <1>1, ControllerKeeps, RunnerSteps, RunnerKeeps, ReaderKeeps DEF NativeNext
<1>2. CASE UNCHANGED nativeVars
  BY <1>2 DEF nativeVars, NativeInv, NativeShape, AuthorizedThread, BoxFollowsRunner
<1> QED
  BY <1>1, <1>2

LEMMA NativeInvariant == NativeSpec => []NativeInv
BY NativeInitOK, NativeStepKeeps, PTL DEF NativeSpec

(* However answers of Docker are lost and controllers give up: no inference *)
(* is charged to a thread that no row names (DockerHarness in               *)
(* docker_harness.py, developer_turn.py).                                   *)
THEOREM NothingIsPaidUnrecorded == NativeSpec => []PaidAfterPersisted
<1>1. NativeInv => PaidAfterPersisted
  BY DEF NativeInv, AuthorizedThread, PaidAfterPersisted
<1> QED BY <1>1, NativeInvariant, PTL

(* close() leaves no container behind unless Docker refused to remove it.    *)
THEOREM CloseRemovesTheContainer == NativeSpec => []ClosedLeavesNothing
<1>1. NativeInv => ClosedLeavesNothing
  BY DEF NativeInv, BoxFollowsRunner, ClosedLeavesNothing
<1> QED BY <1>1, NativeInvariant, PTL

-----------------------------------------------------------------------------
(***************************************************************************)
(* PatchTurn. A crash may fall between any two writes, so the invariant    *)
(* relates what is durable - reservations, journal, purchased stages - to  *)
(* what the turn in hand remembers of it.                                  *)
(***************************************************************************)
Stages    == {"none", "fast", "survey", "explore", "investigate", "plan", "unit", "repair",
              "integrate", "recheck", "recovery"}
StepNames == {"idle", "prepare", "buy", "sent", "apply", "check"}
Marks     == {"none", "request", "usage", "response", "checks", "recovery", "replan", "other",
              "result"}
Failures  == {"none", "PATCH_FAILED", "PATCH_LIMIT", "PATCH_ALREADY_ATTEMPTED",
              "PATCH_STALLED", "PATCH_BLOCKED", "PATCH_TOOL_FAILURE", "PATCH_REGRESSING",
              "PATCH_RECOVERY_FAILED", "USAGE_INCOMPLETE", "RESPONSE_INCOMPLETE",
              "TURN_INPUT_LIMIT", "BUDGET_LIMIT", "INTERRUPTED"}

History == [requests : Nat, last : Marks, rejected : BOOLEAN,
            answered : BOOLEAN, recovered : BOOLEAN]
Ledger  == [spent : Nat, due : Nat, calls : Nat, uncertain : BOOLEAN, cycles : Nat]
Tested  == [passed : BOOLEAN, diff : Int]
AIRun   == [failure : Failures, known : BOOLEAN, spent : Nat, cycles : Nat, changed : Nat,
            checked : Tested, diff : Int]

PurchasesTypeOK ==
  /\ stage \in Stages /\ step \in StepNames
  /\ saved \in History /\ heard \in History
  /\ ledger \in Ledger
  /\ diff \in Int /\ changed \in Nat
  /\ tested \in Tested
  /\ receipts \in Seq(AIRun)
  /\ charges \in [1..PatchTurns -> Nat]

(* What was admitted is on disk, and what was charged was admitted: so a    *)
(* turn that may buy is one before which nothing was charged.               *)
AdmissionsAreSaved ==
  /\ heard.requests = saved.requests
  /\ \A n \in 1..PatchTurns :
       charges[n] > 0 =>
         /\ saved.requests > 0
         /\ n <= Turn
         /\ step = "idle" => n < Turn
         /\ step # "idle" /\ stage # "recovery" => n = Turn
  /\ \A m, n \in 1..PatchTurns : charges[m] > 0 /\ charges[n] > 0 => m = n

(* The ledger of a turn has all of its charges, or knows that it has not.   *)
LedgerIsWhole ==
  /\ Len(receipts) <= PatchTurns
  /\ step # "idle" => /\ Turn <= PatchTurns
                      /\ ledger.spent + ledger.due = charges[Turn]
                      /\ ledger.uncertain <=> step = "sent"
                      /\ ledger.due > 0 => step = "sent"

PurchasesInv ==
  PurchasesTypeOK /\ AdmissionsAreSaved /\ LedgerIsWhole /\ ReceiptIsHonest /\ ImplementedIsChecked

USE DEF Stages, StepNames, Marks, Failures

-----------------------------------------------------------------------------
(* What steps do, seen from the purchases.                                  *)
SameRequests ==
  /\ heard' \in History /\ saved' \in History
  /\ heard'.requests = saved.requests /\ saved'.requests = saved.requests

(* It goes on, with everything charged so far in the ledger.                *)
GoesOn ==
  /\ step # "idle" /\ step' \in StepNames \ {"idle", "sent"} /\ stage' \in Stages
  /\ stage' = "recovery" <=> stage = "recovery"
  /\ SameRequests
  /\ diff' \in Int /\ changed' \in Nat /\ tested' \in Tested
  /\ ledger' \in Ledger /\ ledger'.spent = charges[Turn] /\ ledger'.due = 0
  /\ ~ ledger'.uncertain
  /\ UNCHANGED <<receipts, charges>>

(* It ends with a receipt.                                                  *)
Closes ==
  /\ step # "idle"
  /\ SameRequests
  /\ \E f \in Failures, l \in Ledger, e \in Tested, d \in Int :
       /\ Report(f, l, e, d)
       /\ ~ l.uncertain => l.spent = charges[Turn]
       /\ f = "none" => e = [passed |-> TRUE, diff |-> d]

-----------------------------------------------------------------------------
LEMMA TypedStart ==
  /\ NoHistory \in History /\ NoLedger \in Ledger /\ NoChecks \in Tested
BY DEF NoHistory, History, NoLedger, Ledger, NoChecks, Tested

LEMMA PurchasesInitOK == PatchInit => PurchasesInv
<1> SUFFICES ASSUME PatchInit PROVE PurchasesInv
  OBVIOUS
<1> USE PatchAssumption
<1>1. PurchasesTypeOK
  BY TypedStart DEF PatchInit, PurchasesTypeOK
<1>2. AdmissionsAreSaved
  BY DEF PatchInit, AdmissionsAreSaved
<1>3. PatchTurns \in Nat
  OBVIOUS
<1> QED
  BY <1>1, <1>2, <1>3 DEF PatchInit, PurchasesInv, LedgerIsWhole, ReceiptIsHonest,
     ImplementedIsChecked

LEMMA TurnIsNat == PurchasesTypeOK => Turn \in Nat \ {0} /\ PatchTurns \in Nat
BY PatchAssumption DEF PurchasesTypeOK, Turn

LEMMA GoesOnKeeps ==
  ASSUME PurchasesInv, GoesOn
  PROVE  PurchasesInv'
<1>1. PurchasesTypeOK'
  BY DEF PurchasesInv, PurchasesTypeOK, GoesOn, SameRequests
<1>2. Turn' = Turn
  BY DEF Turn, GoesOn
<1>3. AdmissionsAreSaved'
  BY <1>2 DEF PurchasesInv, AdmissionsAreSaved, GoesOn, SameRequests
<1>4. LedgerIsWhole'
  <2>1. ledger'.spent + ledger'.due = charges[Turn]
    BY DEF GoesOn, Ledger
  <2> QED
    BY <1>2, <2>1 DEF PurchasesInv, LedgerIsWhole, GoesOn
<1>5. ReceiptIsHonest' /\ ImplementedIsChecked'
  BY DEF PurchasesInv, ReceiptIsHonest, ImplementedIsChecked, GoesOn
<1> QED
  BY <1>1, <1>3, <1>4, <1>5 DEF PurchasesInv

(* Another receipt for the turn that ends or that never began.              *)
LEMMA ReceiptKeeps ==
  ASSUME PurchasesInv, NEW r \in AIRun, receipts' = Append(receipts, r),
         Turn <= PatchTurns, UNCHANGED charges,
         r.known => r.spent = charges[Turn],
         r.failure = "none" => r.checked = [passed |-> TRUE, diff |-> r.diff],
         step' = "idle"
  PROVE  /\ receipts' \in Seq(AIRun) /\ Turn' = Turn + 1
         /\ ReceiptIsHonest' /\ ImplementedIsChecked' /\ LedgerIsWhole'
<1>t. receipts \in Seq(AIRun)
  BY DEF PurchasesInv, PurchasesTypeOK
<1>1. /\ receipts' \in Seq(AIRun) /\ Len(receipts') = Len(receipts) + 1
      /\ Len(receipts) \in Nat
      /\ DOMAIN receipts = 1..Len(receipts) /\ DOMAIN receipts' = 1..Len(receipts')
      /\ receipts'[Len(receipts) + 1] = r
      /\ \A i \in 1..Len(receipts) : receipts'[i] = receipts[i]
  BY <1>t
<1>2. Turn = Len(receipts) + 1 /\ Turn' = Turn + 1
  BY <1>1 DEF Turn
<1>3. \A i \in DOMAIN receipts' : i \in DOMAIN receipts \/ i = Turn
  BY <1>1, <1>2
<1>4. ReceiptIsHonest'
  BY <1>1, <1>2, <1>3 DEF PurchasesInv, ReceiptIsHonest
<1>5. ImplementedIsChecked'
  BY <1>1, <1>2, <1>3 DEF PurchasesInv, ImplementedIsChecked
<1>6. LedgerIsWhole'
  BY <1>1, <1>2 DEF LedgerIsWhole
<1> QED
  BY <1>1, <1>2, <1>4, <1>5, <1>6

LEMMA ClosesKeeps ==
  ASSUME PurchasesInv, Closes
  PROVE  PurchasesInv'
<1>t. PurchasesTypeOK
  BY DEF PurchasesInv
<1>1. PICK f \in Failures, l \in Ledger, e \in Tested, d \in Int :
        /\ Report(f, l, e, d)
        /\ ~ l.uncertain => l.spent = charges[Turn]
        /\ f = "none" => e = [passed |-> TRUE, diff |-> d]
  BY DEF Closes
<1> DEFINE r == [failure |-> f, known |-> ~l.uncertain, spent |-> l.spent,
                 cycles |-> l.cycles, changed |-> changed, checked |-> e, diff |-> d]
<1>2. /\ receipts' = Append(receipts, r) /\ step' = "idle" /\ stage' = "none"
      /\ ledger' = l /\ tested' = e /\ diff' = d
      /\ UNCHANGED <<charges, changed>>
  BY <1>1 DEF Report, Goto
<1>3. r \in AIRun
  BY <1>t DEF AIRun, Ledger, PurchasesTypeOK
<1>4. /\ r.known => r.spent = charges[Turn]
      /\ r.failure = "none" => r.checked = [passed |-> TRUE, diff |-> r.diff]
  BY <1>1
<1>5. Turn <= PatchTurns
  BY DEF PurchasesInv, LedgerIsWhole, Closes
<1> HIDE DEF r
<1>6. /\ receipts' \in Seq(AIRun) /\ Turn' = Turn + 1
      /\ ReceiptIsHonest' /\ ImplementedIsChecked' /\ LedgerIsWhole'
  BY <1>2, <1>3, <1>4, <1>5, ReceiptKeeps
<1>7. PurchasesTypeOK'
  BY <1>t, <1>2, <1>6 DEF PurchasesTypeOK, Closes, SameRequests
<1>8. AdmissionsAreSaved'
  BY <1>t, <1>2, <1>6, TurnIsNat DEF PurchasesInv, AdmissionsAreSaved, Closes, SameRequests
<1> QED
  BY <1>6, <1>7, <1>8 DEF PurchasesInv

-----------------------------------------------------------------------------
(* The parts that steps are made of.                                        *)
LEMMA NoteKeepsRequests ==
  ASSUME PurchasesInv, NEW h \in {heard, Result} \cup {[heard EXCEPT !.last = k] : k \in Marks},
         Keeps(h)
  PROVE  SameRequests
<1>1. heard \in History /\ heard.requests = saved.requests
  BY DEF PurchasesInv, PurchasesTypeOK, AdmissionsAreSaved
<1>2. h \in History /\ h.requests = heard.requests
  BY <1>1 DEF Result, History
<1> QED
  BY <1>1, <1>2 DEF Keeps, SameRequests

LEMMA EndsCloses ==
  ASSUME PurchasesInv, step # "idle", NEW f \in Failures, f # "none", Ends(f)
  PROVE  Closes
<1>1. SameRequests
  BY NoteKeepsRequests DEF Ends
<1>2. ledger \in Ledger /\ tested \in Tested /\ diff \in Int
  BY DEF PurchasesInv, PurchasesTypeOK
<1>3. ~ ledger.uncertain => ledger.spent = charges[Turn]
  BY <1>2 DEF PurchasesInv, LedgerIsWhole, Ledger
<1> QED
  BY <1>1, <1>2, <1>3 DEF Closes, Ends

(* While no request is out the ledger is complete.                          *)
LEMMA WholeLedger ==
  ASSUME PurchasesInv, step \notin {"idle", "sent"}
  PROVE  ledger \in Ledger /\ ledger.spent = charges[Turn] /\ ledger.due = 0 /\ ~ ledger.uncertain
BY DEF PurchasesInv, PurchasesTypeOK, LedgerIsWhole, Ledger

LEMMA MeteredLedger ==
  ASSUME PurchasesInv, step = "sent"
  PROVE  Metered \in Ledger /\ Metered.spent = charges[Turn] /\ Metered.due = 0
           /\ ~ Metered.uncertain
<1>1. ledger \in Ledger /\ ledger.spent + ledger.due = charges[Turn]
  BY DEF PurchasesInv, PurchasesTypeOK, LedgerIsWhole
<1>2. Metered = [ledger EXCEPT !.spent = ledger.spent + ledger.due, !.due = 0,
                               !.uncertain = FALSE, !.cycles = ledger.cycles + 1]
  BY DEF Metered
<1>3. /\ ledger.spent + ledger.due \in Nat /\ ledger.cycles + 1 \in Nat
  BY <1>1 DEF Ledger
<1> QED
  BY <1>1, <1>2, <1>3 DEF Ledger

LEMMA StopsEffect ==
  ASSUME PurchasesInv, step \notin {"idle", "sent"}, stage # "recovery",
         NEW c \in Failures, c # "none", NEW d \in Int, Stops(c, d)
  PROVE  Closes \/ GoesOn
<1>t. PurchasesTypeOK
  BY DEF PurchasesInv
<1>1. CASE Replan /\ diff' = d
  <2>1. SameRequests
    BY <1>1, NoteKeepsRequests DEF Replan, Notes
  <2> QED
    BY <1>t, <1>1, <2>1, WholeLedger DEF GoesOn, Replan, Goto, PurchasesTypeOK
<1>2. CASE Report(c, ledger, tested, d) /\ Keeps(Result)
  <2>1. SameRequests
    BY <1>2, NoteKeepsRequests
  <2> QED
    BY <1>t, <1>2, <2>1, WholeLedger DEF Closes, PurchasesTypeOK
<1> QED
  BY <1>1, <1>2 DEF Stops

LEMMA SpoiledCloses ==
  ASSUME PurchasesInv, step = "sent", NEW f \in Failures, f # "none", Spoiled(f)
  PROVE  Closes
<1>t. PurchasesTypeOK
  BY DEF PurchasesInv
<1>1. SameRequests
  BY NoteKeepsRequests DEF Spoiled
<1> QED
  BY <1>t, <1>1, MeteredLedger DEF Closes, Spoiled, PurchasesTypeOK

LEMMA UnderstoodGoesOn ==
  ASSUME PurchasesInv, step = "sent", stage # "recovery",
         NEW st \in Stages \ {"recovery"}, NEW sp \in StepNames \ {"idle", "sent"}, NEW u,
         Understood(st, sp, u)
  PROVE  GoesOn
<1>t. PurchasesTypeOK
  BY DEF PurchasesInv
<1>1. SameRequests
  BY NoteKeepsRequests DEF Understood, Notes
<1> QED
  BY <1>t, <1>1, MeteredLedger DEF GoesOn, Understood, Goto, PurchasesTypeOK

LEMMA RefusesEffect ==
  ASSUME PurchasesInv, step = "sent", stage # "recovery",
         NEW c \in Failures, c # "none", Refuses(c)
  PROVE  Closes \/ GoesOn
<1>t. PurchasesTypeOK
  BY DEF PurchasesInv
<1>1. CASE Spoiled(c)
  BY <1>1, SpoiledCloses
<1>2. CASE ~ Spoiled(c)
  <2>1. /\ ledger' = Metered /\ Notes("replan") /\ Goto("explore", "prepare")
        /\ UNCHANGED <<diff, tested, receipts, charges, changed>>
    BY <1>2 DEF Refuses
  <2>2. SameRequests
    BY <2>1, NoteKeepsRequests DEF Notes
  <2> QED
    BY <1>t, <2>1, <2>2, MeteredLedger DEF GoesOn, Goto, PurchasesTypeOK
<1> QED
  BY <1>1, <1>2

(* A step that only moves on and may edit the workspace.                    *)
LEMMA MovesOn ==
  ASSUME PurchasesInv, step \notin {"idle", "sent"},
         NEW st \in Stages, NEW sp \in StepNames \ {"idle", "sent"}, Goto(st, sp),
         st = "recovery" <=> stage = "recovery",
         UNCHANGED <<ledger, receipts, charges>>,
         (UNCHANGED <<heard, saved>>) \/ (\E k \in Marks : Notes(k)),
         diff' \in Int, changed' \in Nat, tested' \in Tested
  PROVE  GoesOn
<1>1. SameRequests
  <2>1. CASE UNCHANGED <<heard, saved>>
    BY <2>1 DEF SameRequests, PurchasesInv, PurchasesTypeOK, AdmissionsAreSaved
  <2>2. CASE \E k \in Marks : Notes(k)
    BY <2>2, NoteKeepsRequests DEF Notes
  <2> QED
    BY <2>1, <2>2
<1> QED
  BY <1>1, WholeLedger DEF GoesOn, Goto

LEMMA PatchTypes ==
  PurchasesInv => diff \in Int /\ changed \in Nat /\ tested \in Tested /\ heard \in History
BY DEF PurchasesInv, PurchasesTypeOK

LEMMA LeavesAreInt == PurchasesInv => Leaves \subseteq Int
BY DEF PurchasesInv, PurchasesTypeOK, Leaves

LEMMA EditedTypes ==
  ASSUME PurchasesInv, Applies
  PROVE  diff' \in Int /\ changed' \in Nat
BY LeavesAreInt, PatchTypes DEF Applies, Edited

-----------------------------------------------------------------------------
(* The actions.                                                             *)
LEMMA PrepareEffect ==
  ASSUME PurchasesInv, PrepareFast \/ PrepareUnit \/ Survey \/ Inspect
  PROVE  Closes \/ GoesOn
<1> USE PatchTypes
<1>1. CASE PrepareFast
  <2>1. stage = "fast" /\ step = "prepare"
    BY <1>1 DEF PrepareFast, At
  <2>2. CASE Ends("PATCH_TOOL_FAILURE") \/ Ends("PATCH_FAILED")
    BY <2>1, <2>2, EndsCloses
  <2>3. CASE /\ Goto("fast", "buy") \/ Goto("explore", "prepare")
             /\ UNCHANGED <<heard, saved, ledger, unit, diff, tested, receipts, charges, changed>>
    BY <2>1, <2>3, MovesOn
  <2> QED
    BY <1>1, <2>2, <2>3 DEF PrepareFast
<1>2. CASE PrepareUnit
  <2>1. stage \in {"unit", "repair"} /\ step = "prepare"
    BY <1>2 DEF PrepareUnit
  <2>2. CASE \E code \in {"PATCH_BLOCKED", "PATCH_TOOL_FAILURE"} : Stops(code, diff)
    BY <2>1, <2>2, StopsEffect
  <2>3. CASE /\ Goto(stage, "buy")
             /\ UNCHANGED <<heard, saved, ledger, unit, diff, tested, receipts, charges, changed>>
    BY <2>1, <2>3, MovesOn
  <2> QED
    BY <1>2, <2>2, <2>3 DEF PrepareUnit
<1>3. CASE Survey
  <2>1. stage \in {"survey", "explore"} /\ step = "prepare"
    BY <1>3 DEF Survey
  <2>2. CASE Ends(IF unit.replans > 0 THEN "PATCH_TOOL_FAILURE" ELSE "PATCH_BLOCKED")
    BY <2>1, <2>2, EndsCloses
  <2>3. CASE /\ Goto(IF stage = "survey" THEN "plan" ELSE "investigate", "buy")
             /\ UNCHANGED <<heard, saved, ledger, unit, diff, tested, receipts, charges, changed>>
    BY <2>1, <2>3, MovesOn
  <2> QED
    BY <1>3, <2>2, <2>3 DEF Survey
<1>4. CASE Inspect
  <2>1. stage = "investigate" /\ step = "prepare"
    BY <1>4 DEF Inspect, At
  <2>2. CASE Ends("PATCH_TOOL_FAILURE")
    BY <2>1, <2>2, EndsCloses
  <2>3. CASE /\ Goto("investigate", "buy")
             /\ UNCHANGED <<heard, saved, ledger, unit, diff, tested, receipts, charges, changed>>
    BY <2>1, <2>3, MovesOn
  <2> QED
    BY <1>4, <2>2, <2>3 DEF Inspect
<1> QED
  BY <1>1, <1>2, <1>3, <1>4

(* A request: only in a turn before which nothing was charged.              *)
LEMMA SendsKeeps ==
  ASSUME PurchasesInv, step = "buy", stage # "recovery", stage \in Stages, Sends
  PROVE  PurchasesInv'
<1>t. PurchasesTypeOK
  BY DEF PurchasesInv
<1>1. PICK c \in PatchCharges :
        /\ charges' = [charges EXCEPT ![Turn] = @ + c]
        /\ ledger' = [ledger EXCEPT !.calls = @ + 1, !.uncertain = TRUE, !.due = c]
  BY DEF Sends
<1>2. c \in Nat
  BY PatchAssumption
<1>3. /\ stage' = stage /\ step' = "sent"
      /\ UNCHANGED <<unit, diff, tested, receipts, changed>>
  BY DEF Sends, Goto
<1>4. heard' \in History /\ saved' = heard' /\ heard'.requests = heard.requests + 1
  <2>1. heard \in History
    BY <1>t DEF PurchasesTypeOK
  <2>2. heard' = [heard EXCEPT !.requests = heard.requests + 1, !.last = "request"]
          /\ saved' = heard'
    BY DEF Sends, Admits, Keeps
  <2>3. heard.requests + 1 \in Nat
    BY <2>1 DEF History
  <2> QED
    BY <2>1, <2>2, <2>3 DEF History
<1>5. ledger' \in Ledger /\ ledger'.uncertain /\ ledger'.due = c /\ ledger'.spent = ledger.spent
  <2>1. ledger \in Ledger
    BY <1>t DEF PurchasesTypeOK
  <2>2. ledger.calls + 1 \in Nat
    BY <2>1 DEF Ledger
  <2> QED
    BY <1>1, <1>2, <2>1, <2>2 DEF Ledger
<1>6. Turn \in 1..PatchTurns /\ Turn' = Turn
  BY <1>t, <1>3, TurnIsNat DEF PurchasesInv, LedgerIsWhole, Turn
<1>7. /\ charges' \in [1..PatchTurns -> Nat]
      /\ charges'[Turn] = charges[Turn] + c
      /\ \A n \in 1..PatchTurns : n # Turn => charges'[n] = charges[n]
  BY <1>t, <1>1, <1>2, <1>6 DEF PurchasesTypeOK
<1>8. \A n \in 1..PatchTurns : n # Turn => charges[n] = 0
  BY <1>t DEF PurchasesInv, AdmissionsAreSaved, PurchasesTypeOK
<1>9. PurchasesTypeOK'
  BY <1>t, <1>3, <1>4, <1>5, <1>7 DEF PurchasesTypeOK
<1>10. AdmissionsAreSaved'
  <2>1. saved'.requests > 0
    BY <1>t, <1>4 DEF PurchasesTypeOK, History
  <2>2. \A n \in 1..PatchTurns : charges'[n] > 0 => n = Turn
    BY <1>7, <1>8
  <2> QED
    BY <1>3, <1>4, <1>6, <2>1, <2>2 DEF AdmissionsAreSaved
<1>11. LedgerIsWhole'
  BY <1>3, <1>5, <1>6, <1>7, WholeLedger DEF LedgerIsWhole, PurchasesInv
<1>12. ReceiptIsHonest'
  <2>1. \A i \in DOMAIN receipts : i \in 1..PatchTurns /\ i # Turn
    <3>1. DOMAIN receipts = 1..Len(receipts) /\ Len(receipts) \in Nat
      BY <1>t DEF PurchasesTypeOK
    <3>2. Turn = Len(receipts) + 1
      BY DEF Turn
    <3> QED
      BY <1>6, <3>1, <3>2, TurnIsNat, <1>t
  <2> QED
    BY <1>3, <1>7, <2>1 DEF PurchasesInv, ReceiptIsHonest
<1>13. ImplementedIsChecked'
  BY <1>3 DEF PurchasesInv, ImplementedIsChecked
<1> QED
  BY <1>9, <1>10, <1>11, <1>12, <1>13 DEF PurchasesInv

LEMMA BuyKeeps ==
  ASSUME PurchasesInv, FastRequest \/ Generate
  PROVE  PurchasesInv'
<1>1. step = "buy" /\ stage \in Stages \ {"recovery"}
  BY DEF FastRequest, Generate, At
<1>2. CASE Sends
  BY <1>1, <1>2, SendsKeeps
<1>3. CASE Ends("TURN_INPUT_LIMIT") \/ Ends("BUDGET_LIMIT")
  BY <1>1, <1>3, EndsCloses, ClosesKeeps
<1>4. CASE \/ Stops("USAGE_INCOMPLETE", diff) \/ Stops("PATCH_LIMIT", diff)
           \/ Stops("BUDGET_LIMIT", diff) \/ Stops("TURN_INPUT_LIMIT", diff)
  BY <1>1, <1>4, PatchTypes, StopsEffect, ClosesKeeps, GoesOnKeeps
<1> QED
  BY <1>2, <1>3, <1>4 DEF FastRequest, Generate

LEMMA AnswerEffect ==
  ASSUME PurchasesInv,
         BadAnswer \/ FastAnswer \/ InvestigationAnswer \/ PlanAnswer \/ UnitAnswer
  PROVE  Closes \/ GoesOn
<1>s. step = "sent"
  BY DEF BadAnswer, FastAnswer, InvestigationAnswer, PlanAnswer, UnitAnswer, At
<1>1. CASE BadAnswer
  BY <1>s, <1>1, EndsCloses, SpoiledCloses DEF BadAnswer
<1>2. CASE FastAnswer
  <2>1. SameRequests
    <3>1. heard \in History /\ heard.requests = saved.requests
      BY DEF PurchasesInv, PurchasesTypeOK, AdmissionsAreSaved
    <3>2. /\ saved' = [heard EXCEPT !.last = "usage"]
          /\ heard' = [heard EXCEPT !.last = "response", !.answered = TRUE]
      BY <1>2 DEF FastAnswer
    <3> QED
      BY <3>1, <3>2 DEF SameRequests, History
  <2>2. HandedOver \in Ledger /\ HandedOver.spent = Metered.spent
          /\ HandedOver.due = Metered.due /\ HandedOver.uncertain = Metered.uncertain
    BY <1>s, MeteredLedger, PatchTypes DEF HandedOver, Ledger, History
  <2>3. ledger' \in {Metered, HandedOver}
    BY <1>2 DEF FastAnswer
  <2>4. ledger' \in Ledger /\ ledger'.spent = charges[Turn] /\ ledger'.due = 0
          /\ ~ ledger'.uncertain
    BY <1>s, <2>2, <2>3, MeteredLedger
  <2>5. /\ stage = "fast" /\ stage' \in {"fast", "survey"} /\ step' \in {"apply", "prepare"}
        /\ UNCHANGED <<diff, tested, receipts, charges, changed>>
    BY <1>2 DEF FastAnswer, At, Goto
  <2> QED
    BY <1>s, <2>1, <2>4, <2>5, PatchTypes DEF GoesOn
<1>3. CASE InvestigationAnswer
  <2>1. stage = "investigate"
    BY <1>3 DEF InvestigationAnswer, At
  <2> QED
    BY <1>s, <1>3, <2>1, UnderstoodGoesOn, RefusesEffect DEF InvestigationAnswer
<1>4. CASE PlanAnswer
  <2>1. stage = "plan"
    BY <1>4 DEF PlanAnswer, At
  <2> QED
    BY <1>s, <1>4, <2>1, UnderstoodGoesOn, RefusesEffect, SpoiledCloses DEF PlanAnswer
<1>5. CASE UnitAnswer
  <2>1. stage \in {"unit", "repair"}
    BY <1>5 DEF UnitAnswer
  <2> QED
    BY <1>s, <1>5, <2>1, UnderstoodGoesOn, RefusesEffect DEF UnitAnswer
<1> QED
  BY <1>1, <1>2, <1>3, <1>4, <1>5

LEMMA AgainGoesOn ==
  ASSUME PurchasesInv, step \notin {"idle", "sent"}, stage \in Stages \ {"recovery"},
         NEW f, NEW d \in Int, Again(f, d)
  PROVE  GoesOn
<1>1. Goto(stage, "prepare") /\ Notes("other") /\ diff' = d
      /\ UNCHANGED <<ledger, tested, receipts, charges, changed>>
  BY DEF Again
<1> QED
  BY <1>1, MovesOn, PatchTypes

LEMMA ApplyEffect ==
  ASSUME PurchasesInv, ApplyFast \/ ApplySaved \/ ApplyUnit
  PROVE  Closes \/ GoesOn
<1> USE PatchTypes
<1>s. step = "apply"
  BY DEF ApplyFast, ApplySaved, ApplyUnit, At
<1>1. CASE ApplyFast
  <2>1. stage = "fast"
    BY <1>1 DEF ApplyFast, At
  <2>2. CASE /\ Applies /\ Goto("fast", "check")
             /\ UNCHANGED <<heard, saved, ledger, tested, receipts, charges>>
    BY <1>s, <2>1, <2>2, EditedTypes, MovesOn
  <2>3. ASSUME NEW rejected \in BOOLEAN,
               LET h == [heard EXCEPT !.last = "checks", !.rejected = rejected]
               IN  \/ /\ Goto("fast", "prepare") /\ Keeps(h)
                      /\ UNCHANGED <<ledger, diff, tested, receipts, charges, changed>>
                   \/ Report("PATCH_LIMIT", ledger, tested, diff) /\ Keeps(h)
        PROVE  Closes \/ GoesOn
    <3> DEFINE h == [heard EXCEPT !.last = "checks", !.rejected = rejected]
    <3>1. h \in History /\ h.requests = saved.requests
      BY DEF PurchasesInv, PurchasesTypeOK, AdmissionsAreSaved, History
    <3>2. SameRequests
      BY <2>3, <3>1 DEF SameRequests, Keeps
    <3>3. CASE /\ Goto("fast", "prepare")
               /\ UNCHANGED <<ledger, diff, tested, receipts, charges, changed>>
      BY <1>s, <2>1, <3>2, <3>3, WholeLedger DEF GoesOn, Goto
    <3>4. CASE Report("PATCH_LIMIT", ledger, tested, diff)
      BY <1>s, <3>2, <3>4, WholeLedger DEF Closes
    <3> QED
      BY <2>3, <3>3, <3>4
  <2> QED
    BY <1>1, <2>2, <2>3 DEF ApplyFast
<1>2. CASE ApplySaved
  <2>1. stage = "recovery"
    BY <1>2 DEF ApplySaved, At
  <2>2. CASE /\ Applies /\ Goto("recovery", "check")
             /\ UNCHANGED <<heard, saved, ledger, unit, tested, receipts, charges>>
    BY <1>s, <2>1, <2>2, EditedTypes, MovesOn
  <2>3. CASE Ends("PATCH_RECOVERY_FAILED")
    BY <1>s, <2>3, EndsCloses
  <2> QED
    BY <1>2, <2>2, <2>3 DEF ApplySaved
<1>3. CASE ApplyUnit
  <2>1. stage \in {"unit", "repair"}
    BY <1>3 DEF ApplyUnit
  <2>2. CASE /\ Applies /\ Goto(stage, "check")
             /\ UNCHANGED <<heard, saved, ledger, unit, tested, receipts, charges>>
    BY <1>s, <2>1, <2>2, EditedTypes, MovesOn
  <2>3. CASE Ends("PATCH_FAILED") \/ Ends("PATCH_LIMIT")
    BY <1>s, <2>3, EndsCloses
  <2>4. CASE Stops("PATCH_STALLED", diff)
    BY <1>s, <2>1, <2>4, StopsEffect
  <2>5. CASE Again(unit.previous, diff)
    BY <1>s, <2>1, <2>5, AgainGoesOn
  <2> QED
    BY <1>3, <2>2, <2>3, <2>4, <2>5 DEF ApplyUnit
<1> QED
  BY <1>1, <1>2, <1>3

LEMMA ConcludesCloses ==
  ASSUME PurchasesInv, step \notin {"idle", "sent"}, NEW f \in Failures, NEW d \in Int,
         Concludes(f, d), SameRequests
  PROVE  Closes
<1>1. Seen(f = "none", d) \in Tested
  BY DEF Seen, Tested
<1>2. f = "none" => Seen(f = "none", d) = [passed |-> TRUE, diff |-> d]
  BY DEF Seen
<1> QED
  BY <1>1, <1>2, WholeLedger DEF Concludes, Closes

LEMMA SeenIsTested == \A d \in Int : Seen(FALSE, d) \in Tested
BY DEF Seen, Tested

LEMMA CheckEffect ==
  ASSUME PurchasesInv, CheckFast \/ CheckSaved \/ CheckUnit \/ Integrate
  PROVE  Closes \/ GoesOn
<1> USE PatchTypes, LeavesAreInt
<1>s. step = "check"
  BY DEF CheckFast, CheckSaved, CheckUnit, Integrate, At
<1>1. CASE CheckFast
  <2>1. stage = "fast"
    BY <1>1 DEF CheckFast, At
  <2>2. PICK d \in Leaves :
          \/ \E f \in {"none", "PATCH_TOOL_FAILURE"} : Concludes(f, d) /\ Keeps(heard)
          \/ /\ Keeps([heard EXCEPT !.last = "checks", !.rejected = FALSE])
             /\ IF unit.round > 0 THEN Concludes("PATCH_LIMIT", d)
                ELSE Goes("fast", [unit EXCEPT !.round = 1], d)
    BY <1>1 DEF CheckFast
  <2>3. d \in Int
    OBVIOUS
  <2>4. CASE \E f \in {"none", "PATCH_TOOL_FAILURE"} : Concludes(f, d) /\ Keeps(heard)
    <3>1. SameRequests
      BY <2>4, NoteKeepsRequests
    <3> QED
      BY <1>s, <2>3, <2>4, <3>1, ConcludesCloses
  <2>5. CASE /\ Keeps([heard EXCEPT !.last = "checks", !.rejected = FALSE])
             /\ IF unit.round > 0 THEN Concludes("PATCH_LIMIT", d)
                ELSE Goes("fast", [unit EXCEPT !.round = 1], d)
    <3>1. SameRequests
      BY <2>5 DEF SameRequests, Keeps, PurchasesInv, PurchasesTypeOK, AdmissionsAreSaved, History
    <3>2. CASE Concludes("PATCH_LIMIT", d)
      BY <1>s, <2>3, <3>1, <3>2, ConcludesCloses
    <3>3. CASE Goes("fast", [unit EXCEPT !.round = 1], d)
      BY <1>s, <2>1, <2>3, <3>1, <3>3, WholeLedger, SeenIsTested DEF Goes, GoesOn, Goto
    <3> QED
      BY <2>5, <3>2, <3>3
  <2> QED
    BY <2>2, <2>4, <2>5
<1>2. CASE CheckSaved
  <2>1. PICK d \in Leaves, f \in {"none", "PATCH_RECOVERY_FAILED"} :
          Concludes(f, d) /\ Keeps(Result)
    BY <1>2 DEF CheckSaved
  <2>2. SameRequests
    BY <2>1, NoteKeepsRequests
  <2> QED
    BY <1>s, <2>1, <2>2, ConcludesCloses
<1>3. CASE CheckUnit
  <2>1. stage \in {"unit", "repair"}
    BY <1>3 DEF CheckUnit
  <2>2. PICK d \in Leaves :
          \/ Stops("PATCH_TOOL_FAILURE", d)
          \/ NextUnit(d)
          \/ \E failing \in SUBSET PatchChecks \ {{}} :
               IF RepairAllowance(failing) = "CONTINUE" THEN Again(failing, d)
               ELSE Stops(RepairAllowance(failing), d)
    BY <1>3 DEF CheckUnit
  <2>3. d \in Int
    OBVIOUS
  <2>4. CASE NextUnit(d)
    <3>1. /\ \/ Goto("unit", "prepare")
             \/ Goto(IF stage = "unit" THEN "integrate" ELSE "recheck", "check")
          /\ Notes("other") /\ diff' = d
          /\ UNCHANGED <<ledger, tested, receipts, charges, changed>>
      BY <2>4 DEF NextUnit
    <3> QED
      BY <1>s, <2>1, <2>3, <3>1, MovesOn
  <2>5. ASSUME NEW failing, Again(failing, d) PROVE GoesOn
    BY <1>s, <2>1, <2>3, <2>5, AgainGoesOn
  <2>6. ASSUME NEW failing, RepairAllowance(failing) # "CONTINUE",
               Stops(RepairAllowance(failing), d)
        PROVE  Closes \/ GoesOn
    <3>1. RepairAllowance(failing) \in {"PATCH_STALLED", "PATCH_REGRESSING"}
      BY <2>6 DEF RepairAllowance
    <3> QED
      BY <1>s, <2>1, <2>3, <2>6, <3>1, StopsEffect
  <2>7. CASE Stops("PATCH_TOOL_FAILURE", d)
    BY <1>s, <2>1, <2>3, <2>7, StopsEffect
  <2> QED
    BY <2>2, <2>4, <2>5, <2>6, <2>7
<1>4. CASE Integrate
  <2>1. stage \in {"integrate", "recheck"}
    BY <1>4 DEF Integrate
  <2>2. PICK d \in Leaves :
          \/ \E f \in {"none", "PATCH_TOOL_FAILURE", "PATCH_LIMIT"} : Concludes(f, d) /\ Keeps(Result)
          \/ Repairs(d)
    BY <1>4 DEF Integrate
  <2>3. d \in Int
    OBVIOUS
  <2>4. CASE \E f \in {"none", "PATCH_TOOL_FAILURE", "PATCH_LIMIT"} : Concludes(f, d) /\ Keeps(Result)
    <3>1. SameRequests
      BY <2>4, NoteKeepsRequests
    <3> QED
      BY <1>s, <2>3, <2>4, <3>1, ConcludesCloses
  <2>5. CASE Repairs(d)
    BY <1>s, <2>1, <2>3, <2>5, MovesOn, SeenIsTested DEF Repairs, Goes
  <2> QED
    BY <2>2, <2>4, <2>5
<1> QED
  BY <1>1, <1>2, <1>3, <1>4

LEMMA PatchCrashKeeps ==
  ASSUME PurchasesInv, PatchCrash
  PROVE  PurchasesInv'
<1>t. PurchasesTypeOK
  BY DEF PurchasesInv
<1> DEFINE r == [failure |-> "INTERRUPTED", known |-> FALSE, spent |-> 0, cycles |-> 0,
                 changed |-> 0, checked |-> NoChecks, diff |-> diff]
<1>1. /\ step # "idle" /\ receipts' = Append(receipts, r)
      /\ stage' = "none" /\ step' = "idle" /\ heard' = saved
      /\ UNCHANGED <<saved, ledger, unit, diff, tested, charges, changed>>
  BY DEF PatchCrash, Goto
<1>2. r \in AIRun /\ ~ r.known /\ r.failure # "none"
  BY <1>t, TypedStart DEF AIRun, PurchasesTypeOK
<1>3. Turn <= PatchTurns
  BY <1>1 DEF PurchasesInv, LedgerIsWhole
<1> HIDE DEF r
<1>4. /\ receipts' \in Seq(AIRun) /\ Turn' = Turn + 1
      /\ ReceiptIsHonest' /\ ImplementedIsChecked' /\ LedgerIsWhole'
  BY <1>1, <1>2, <1>3, ReceiptKeeps
<1>5. PurchasesTypeOK'
  BY <1>t, <1>1, <1>4 DEF PurchasesTypeOK
<1>6. AdmissionsAreSaved'
  BY <1>t, <1>1, <1>4, TurnIsNat DEF PurchasesInv, AdmissionsAreSaved
<1> QED
  BY <1>4, <1>5, <1>6 DEF PurchasesInv

(* Another turn of the generation buys only when nothing was admitted.      *)
LEMMA RunTurnKeeps ==
  ASSUME PurchasesInv, RunTurnPatch
  PROVE  PurchasesInv'
<1>t. PurchasesTypeOK
  BY DEF PurchasesInv
<1>1. /\ step = "idle" /\ Turn <= PatchTurns
      /\ ledger' = NoLedger /\ tested' = NoChecks /\ changed' = 0
      /\ UNCHANGED <<diff, charges>>
  BY DEF RunTurnPatch, Fresh
<1>2. ledger'.spent = 0 /\ ledger'.due = 0 /\ ~ ledger'.uncertain
  BY <1>1 DEF NoLedger
<1>n. Turn \in 1..PatchTurns
  BY <1>t, <1>1, TurnIsNat
<1>3. charges[Turn] = 0
  BY <1>t, <1>1, <1>n, TurnIsNat DEF PurchasesInv, AdmissionsAreSaved, PurchasesTypeOK
<1>4. ASSUME UNCHANGED receipts, step' \in {"prepare", "apply"}, stage' \in Stages,
             SameRequests, stage' = "recovery" \/ saved.requests = 0
      PROVE  PurchasesInv'
  <2>1. PurchasesTypeOK'
    BY <1>t, <1>1, <1>4, TypedStart DEF PurchasesTypeOK, SameRequests
  <2>2. Turn' = Turn
    BY <1>4 DEF Turn
  <2>3. \A n \in 1..PatchTurns : charges[n] > 0 => stage' = "recovery"
    BY <1>4 DEF PurchasesInv, AdmissionsAreSaved
  <2>4. AdmissionsAreSaved'
    BY <1>1, <1>4, <2>2, <2>3 DEF PurchasesInv, AdmissionsAreSaved, SameRequests
  <2>5. LedgerIsWhole'
    BY <1>1, <1>2, <1>3, <1>4, <2>2 DEF PurchasesInv, LedgerIsWhole
  <2>6. ReceiptIsHonest' /\ ImplementedIsChecked'
    BY <1>1, <1>4 DEF PurchasesInv, ReceiptIsHonest, ImplementedIsChecked
  <2> QED
    BY <2>1, <2>4, <2>5, <2>6 DEF PurchasesInv
<1>5. CASE saved.requests = 0
  <2>1. /\ \E st \in {"fast", "survey", "explore"} : Goto(st, "prepare")
        /\ heard' = saved /\ UNCHANGED <<saved, receipts>>
    BY <1>5 DEF RunTurnPatch
  <2>2. SameRequests
    BY <1>t, <2>1 DEF SameRequests, PurchasesTypeOK
  <2> QED
    BY <1>4, <1>5, <2>1, <2>2 DEF Goto
<1>6. CASE saved.requests # 0 /\ Recoverable(saved)
  <2>1. /\ Goto("recovery", "apply") /\ UNCHANGED receipts
        /\ Keeps([saved EXCEPT !.recovered = TRUE, !.last = "recovery"])
    BY <1>6 DEF RunTurnPatch
  <2>2. SameRequests
    BY <1>t, <2>1 DEF SameRequests, PurchasesTypeOK, Keeps, History
  <2> QED
    BY <1>4, <2>1, <2>2 DEF Goto
<1>7. CASE saved.requests # 0 /\ ~ Recoverable(saved)
  <2> DEFINE r == [failure |-> "PATCH_ALREADY_ATTEMPTED", known |-> TRUE, spent |-> 0,
                   cycles |-> 0, changed |-> 0, checked |-> NoChecks, diff |-> diff]
  <2>1. receipts' = Append(receipts, r) /\ heard' = saved /\ UNCHANGED <<stage, step, saved>>
    BY <1>7 DEF RunTurnPatch
  <2>2. r \in AIRun /\ r.spent = 0 /\ r.failure # "none"
    BY <1>t, TypedStart DEF AIRun, PurchasesTypeOK
  <2> HIDE DEF r
  <2>3. /\ receipts' \in Seq(AIRun) /\ Turn' = Turn + 1
        /\ ReceiptIsHonest' /\ ImplementedIsChecked' /\ LedgerIsWhole'
    BY <1>1, <1>3, <2>1, <2>2, ReceiptKeeps
  <2>4. PurchasesTypeOK'
    BY <1>t, <1>1, <2>1, <2>3, TypedStart DEF PurchasesTypeOK
  <2>5. AdmissionsAreSaved'
    BY <1>t, <1>1, <2>1, <2>3, TurnIsNat DEF PurchasesInv, AdmissionsAreSaved
  <2> QED
    BY <2>3, <2>4, <2>5 DEF PurchasesInv
<1> QED
  BY <1>5, <1>6, <1>7

LEMMA PurchasesStepKeeps == PurchasesInv /\ [PatchNext]_patchVars => PurchasesInv'
<1> SUFFICES ASSUME PurchasesInv, [PatchNext]_patchVars PROVE PurchasesInv'
  OBVIOUS
<1>1. CASE ResumePatch \/ FollowUp
  BY <1>1, RunTurnKeeps DEF ResumePatch, FollowUp
<1>2. CASE PrepareFast \/ PrepareUnit \/ Survey \/ Inspect
  BY <1>2, PrepareEffect, ClosesKeeps, GoesOnKeeps
<1>3. CASE FastRequest \/ Generate
  BY <1>3, BuyKeeps
<1>4. CASE BadAnswer \/ FastAnswer \/ InvestigationAnswer \/ PlanAnswer \/ UnitAnswer
  BY <1>4, AnswerEffect, ClosesKeeps, GoesOnKeeps
<1>5. CASE ApplyFast \/ ApplySaved \/ ApplyUnit
  BY <1>5, ApplyEffect, ClosesKeeps, GoesOnKeeps
<1>6. CASE CheckFast \/ CheckSaved \/ CheckUnit \/ Integrate
  BY <1>6, CheckEffect, ClosesKeeps, GoesOnKeeps
<1>7. CASE Breaks
  <2>1. Closes
    BY <1>7, EndsCloses DEF Breaks
  <2> QED
    BY <2>1, ClosesKeeps
<1>8. CASE PatchCrash
  BY <1>8, PatchCrashKeeps
<1>9. CASE UNCHANGED patchVars
  BY <1>9 DEF patchVars, PurchasesInv, PurchasesTypeOK, AdmissionsAreSaved, LedgerIsWhole,
     ReceiptIsHonest, ImplementedIsChecked, Turn
<1> QED
  BY <1>1, <1>2, <1>3, <1>4, <1>5, <1>6, <1>7, <1>8, <1>9 DEF PatchNext

LEMMA BoughtInOneTurn == PurchasesInv => BoughtOnce
<1> SUFFICES ASSUME PurchasesInv PROVE BoughtOnce
  OBVIOUS
<1> DEFINE Paid == {n \in DOMAIN charges : charges[n] > 0}
<1>1. \A m, n \in Paid : m = n
  BY DEF PurchasesInv, PurchasesTypeOK, AdmissionsAreSaved
<1> SUFFICES Cardinality(Paid) <= 1
  BY DEF BoughtOnce
<1> HIDE DEF Paid
<1>2. CASE Paid = {}
  BY <1>2, FS_EmptySet
<1>3. CASE Paid # {}
  <2>1. PICK n : n \in Paid
    BY <1>3
  <2>2. Paid = {n}
    BY <1>1, <2>1
  <2>3. Cardinality({n}) = 1
    BY FS_Singleton
  <2> QED
    BY <2>2, <2>3
<1> QED
  BY <1>2, <1>3

(* The ledger of a patch turn, through every crash and resumption.          *)
LEMMA PurchasesInvariant == PatchSpec => []PurchasesInv
BY PurchasesInitOK, PurchasesStepKeeps, PTL DEF PatchSpec

(* One turn of a generation pays at most, however turns crash, are resumed  *)
(* or followed up: an admission is saved before its request is sent.        *)
THEOREM OneTurnPays == PatchSpec => []BoughtOnce
BY PurchasesInvariant, BoughtInOneTurn, PTL

(* A receipt that says it knows its usage tells all of it, over the fast    *)
(* path, its continuation, plans and replans.                               *)
THEOREM ReceiptsAreHonest == PatchSpec => []ReceiptIsHonest
<1>1. PurchasesInv => ReceiptIsHonest
  BY DEF PurchasesInv
<1> QED BY <1>1, PurchasesInvariant, PTL

(* A turn reports IMPLEMENTED only with passing checks of the very          *)
(* workspace it leaves behind.                                              *)
THEOREM ImplementedWorkIsChecked == PatchSpec => []ImplementedIsChecked
<1>1. PurchasesInv => ImplementedIsChecked
  BY DEF PurchasesInv
<1> QED BY <1>1, PurchasesInvariant, PTL

HIDE DEF Stages, StepNames, Marks, Failures

-----------------------------------------------------------------------------
(***************************************************************************)
(* Delivery. Anybody may change a pull request, and any worker may be      *)
(* late. The invariant says what the stage stands for (StageOK), what the  *)
(* one worker that still has the lease may rely on (CurrentOK), and what   *)
(* even a dead one cannot have got wrong (WorkerOK, ContainerOK): a        *)
(* revision it holds is never newer than the task's, so a late push cannot *)
(* get ahead of it.                                                        *)
(***************************************************************************)
Phases  == {"NONE", "VALIDATING", "PUBLISHING", "MERGING"}
Results == {"VALIDATION_FAILED", "VALIDATION_PASSED", "PUBLISHED", "MERGED", "MERGE_RECHECK"}
Numbers == 0..MaxRevision

WorkerType ==
  [pc : {"idle", "claimed", "loaded", "running", "ran", "opened", "submitting", "recorded",
         "failing"},
   phase : Phases, version : Nat, req : Nat, rev : Numbers, sha : Numbers, passed : BOOLEAN,
   pull : 0..MaxPull, result : Results \cup {"NONE"}]
ContainerType ==
  [op : Phases \cup {"none"}, owner : Workers \cup {Nobody}, version : Nat, sha : Numbers]
PullType == [open : BOOLEAN, merged : BOOLEAN, head : Heads]

DeliveryTypeOK ==
  /\ state \in EngineeringState /\ Consistent(state)
  /\ version \in Nat \ {0} /\ revision \in Revision /\ pull \in 0..MaxPull
  /\ evidence \subseteq [sha : Numbers, req : Nat, passed : BOOLEAN]
  /\ tree \in [head : Revision, dirty : BOOLEAN]
  /\ holder \in Workers \cup {Nobody} /\ expired \in BOOLEAN
  /\ worker \in [Workers -> WorkerType]
  /\ container \in ContainerType
  /\ branch \in Heads /\ pulls \in [1..MaxPull -> PullType]
  /\ clear \in BOOLEAN /\ late \in Heads

(* A lease is held only while the task may run the phase it was given for.  *)
LeaseOK ==
  /\ holder = Nobody => ~ expired
  /\ holder # Nobody =>
       state.status = "ACTIVE" /\ state.stage \in {"VALIDATING", "PUBLISHING", "MERGING"}

(* A pull request that GitHub has, and whose head is the recorded revision   *)
(* or was pushed by somebody else.                                          *)
Known(n) == pulls[n].open \/ pulls[n].merged
Shows(n) == n \in 1..MaxPull /\ Known(n) /\ HeadOf(n) \in {revision, Foreign}
Ready    == AllPassed(revision, state.req)

Reviewed == {"REVIEWING", "MERGING", "COMPLETE"}
StageOK ==
  /\ state.stage \in Reviewed => Shows(pull) /\ Ready
  /\ state.stage = "COMPLETE" => MergedAsExpected

(* What a worker that still has the lease's version may rely on.            *)
Current(w) == worker[w].version = version
Acts(w, pc) == worker[w].pc \in pc
CurrentOK(w) ==
  /\ holder = w
  /\ Acts(w, {"claimed", "loaded", "running", "ran", "opened"}) => worker[w].phase = state.stage
  /\ Acts(w, {"loaded", "running", "ran", "opened"}) =>
       /\ worker[w].rev = revision /\ worker[w].req = state.req
       /\ worker[w].phase = "PUBLISHING" => Ready
  /\ Acts(w, {"ran"}) =>
       /\ worker[w].phase = "VALIDATING" => revision <= worker[w].sha
       /\ worker[w].phase = "PUBLISHING" => worker[w].sha = revision
  /\ Acts(w, {"opened"}) => worker[w].phase = "PUBLISHING" /\ Shows(worker[w].pull)
  /\ Acts(w, {"recorded"}) =>
       CASE worker[w].result = "PUBLISHED" ->
              state.stage = "PUBLISHING" /\ Shows(pull) /\ Ready
         [] worker[w].result \in {"VALIDATION_FAILED", "VALIDATION_PASSED"} ->
              state.stage = "VALIDATING"
         [] worker[w].result = "MERGED" -> state.stage = "MERGING" /\ MergedAsExpected
         [] worker[w].result = "MERGE_RECHECK" -> state.stage = "MERGING"
         [] OTHER -> FALSE

(* What holds of a worker however late it is.                               *)
WorkerOK(w) ==
  /\ worker[w].version <= version
  /\ Acts(w, {"loaded", "running"}) => worker[w].rev <= revision /\ worker[w].phase # "MERGING"
  /\ Acts(w, {"ran"}) /\ worker[w].phase = "VALIDATING" => worker[w].sha \in 1..tree.head
  /\ Acts(w, {"submitting"}) =>
       /\ Current(w) /\ state.stage = "MERGING"
       /\ worker[w].sha = revision /\ worker[w].pull = pull
  /\ Current(w) => CurrentOK(w)

(* A container, whose controller may be dead, has no newer revision than    *)
(* the task.                                                                *)
ContainerOK ==
  /\ container.sha <= revision
  /\ container.owner # Nobody =>
       /\ worker[container.owner].pc = "running"
       /\ worker[container.owner].phase = container.op
       /\ worker[container.owner].rev = container.sha

MergedIsClosed == \A n \in 1..MaxPull : pulls[n].merged => ~ pulls[n].open

DeliveryInv ==
  /\ DeliveryTypeOK /\ LeaseOK /\ StageOK /\ revision <= tree.head
  /\ MergedIsClosed
  /\ ContainerOK
  /\ \A w \in Workers : WorkerOK(w)

-----------------------------------------------------------------------------
(* Only a published pull request brings a task under review, and only a     *)
(* merge completes it; neither changes the requirement.                     *)
LEMMA TransitionReviews ==
  ASSUME NEW s \in EngineeringState, Consistent(s),
         NEW a \in Action, NEW reason \in WaitReason, Permits(s, a, reason)
  PROVE  LET after == Transition(s, a, reason, FALSE)
         IN  /\ after.stage \in Reviewed =>
                  after.req = s.req /\ (s.stage \in Reviewed \/ a = "PUBLISHED")
             /\ after.stage = "COMPLETE" => a = "MERGED"
<1> DEFINE after == Transition(s, a, reason, FALSE)
<1>0. s.stage # "COMPLETE"
  BY DEF Permits, Consistent, Terminal
<1>1. CASE a \in StepAction
  <2>1. after = StepState(s, a)
    BY <1>1 DEF Transition, StepAction
  <2>2. s.stage \in StepFrom(a)
    BY <1>1 DEF Permits, StepAction
  <2>3. after.stage = StepTo(a) /\ after.req = s.req
    BY <2>1 DEF StepState, EngineeringState
  <2>4. /\ StepTo(a) \in Reviewed => StepFrom(a) \subseteq Reviewed \/ a = "PUBLISHED"
        /\ StepTo(a) = "COMPLETE" => a = "MERGED"
    BY <1>1 DEF StepTo, StepFrom, StepAction, Reviewed
  <2> QED BY <2>2, <2>3, <2>4
<1>2. CASE a = "CANCEL"
  BY <1>0, <1>2 DEF Transition, EngineeringState, StepAction
<1>3. CASE a \in {"PAUSE", "TAKEOVER"}
  BY <1>0, <1>3 DEF Transition, PauseState, EngineeringState, StepAction
<1>4. CASE a = "REVISE_REQUIREMENT"
  <2>1. after = ReviseState(s)
    BY <1>4 DEF Transition, StepAction
  <2> QED BY <2>1 DEF ReviseState, EngineeringState, Reviewed
<1>5. CASE a \in {"RESUME", "RELEASE_TAKEOVER"}
  BY <1>0, <1>5 DEF Transition, ResumeState, EngineeringState, StepAction
<1>6. CASE a = "BLOCK"
  BY <1>0, <1>6 DEF Transition, EngineeringState, StepAction
<1>7. CASE a = "REQUIREMENT_CHANGED"
  BY <1>7 DEF Transition, EngineeringState, Reviewed, StepAction
<1> QED BY <1>1, <1>2, <1>3, <1>4, <1>5, <1>6, <1>7 DEF Action

LEMMA DeliveryNumbers ==
  /\ MaxRevision \in Nat \ {0} /\ MaxPull \in Nat /\ Nobody \notin Workers
  /\ Base \in Revision /\ Foreign \notin Revision /\ Foreign \in Heads
  /\ Revision \subseteq Numbers /\ Revision \subseteq Heads
BY DeliveryAssumption DEF Base, Revision, Foreign, Heads, Numbers

LEMMA DeliveryInitOK == Init => DeliveryInv
<1> SUFFICES ASSUME Init PROVE DeliveryInv
  OBVIOUS
<1> USE DeliveryNumbers
<1>1. state \in EngineeringState /\ Consistent(state) /\ state.stage = "DEVELOPING"
  <2>1. state = [status |-> "ACTIVE", stage |-> "DEVELOPING", wait |-> "NONE", req |-> 1,
                 takeover |-> FALSE]
    BY DEF Init, NewState
  <2> QED
    BY <2>1 DEF EngineeringState, TaskStatus, Stage, WaitReason, Consistent
<1>2. Idle \in WorkerType /\ Idle.pc = "idle" /\ Idle.version = 0
  BY DEF Idle, WorkerType, Phases, Numbers, Results
<1>3. NoRun \in ContainerType /\ NoRun.owner = Nobody /\ NoRun.sha = 0
  BY DEF NoRun, ContainerType, Phases, Numbers
<1>4. NoPull \in PullType /\ ~ NoPull.merged
  BY DEF NoPull, PullType, Heads, Foreign
<1>5. worker \in [Workers -> WorkerType] /\ \A w \in Workers : worker[w] = Idle
  BY <1>2 DEF Init
<1>6. pulls \in [1..MaxPull -> PullType] /\ MergedIsClosed
  BY <1>4 DEF Init, MergedIsClosed
<1>7. DeliveryTypeOK
  <2>1. tree \in [head : Revision, dirty : BOOLEAN]
    BY DEF Init
  <2>2. /\ evidence \subseteq [sha : Numbers, req : Nat, passed : BOOLEAN]
        /\ clear \in BOOLEAN /\ expired \in BOOLEAN
    BY DEF Init
  <2>3. /\ version \in Nat \ {0} /\ revision \in Revision /\ pull \in 0..MaxPull
        /\ holder \in Workers \cup {Nobody} /\ container \in ContainerType
    BY <1>3 DEF Init
  <2>4. branch \in Heads /\ late \in Heads
    BY DEF Init, Heads, Foreign
  <2> QED
    BY <1>1, <1>5, <1>6, <2>1, <2>2, <2>3, <2>4 DEF DeliveryTypeOK
<1>8. \A w \in Workers : WorkerOK(w)
  BY <1>2, <1>5 DEF Init, WorkerOK, Current, Acts
<1>9. ContainerOK
  BY <1>3 DEF Init, ContainerOK, Revision
<1>10. LeaseOK /\ StageOK /\ revision <= tree.head
  BY <1>1 DEF Init, LeaseOK, StageOK, Reviewed, Base
<1> QED
  BY <1>6, <1>7, <1>8, <1>9, <1>10 DEF DeliveryInv

-----------------------------------------------------------------------------
(* What GitHub and its users may do to what a pull request shows.           *)
GithubKeeps ==
  /\ \A n \in 1..MaxPull : pulls[n].merged => pulls'[n] = pulls[n]
  /\ \A n \in 1..MaxPull : Shows(n) => Shows(n)'

(* Steps that leave the row and its lease alone: who is not moved keeps     *)
(* what it relies on.                                                       *)
LEMMA QuietRowKeeps ==
  ASSUME DeliveryInv, DeliveryTypeOK', UNCHANGED <<row, evidence, lease>>,
         tree.head <= tree'.head, GithubKeeps, MergedIsClosed', ContainerOK',
         \A w \in Workers : worker'[w] = worker[w] \/ WorkerOK(w)'
  PROVE  DeliveryInv'
<1>0. /\ state' = state /\ version' = version /\ revision' = revision /\ pull' = pull
      /\ holder' = holder /\ expired' = expired /\ evidence' = evidence
  BY DEF row, lease
<1>1. Ready' <=> Ready
  BY <1>0 DEF Ready, AllPassed, Rows
<1>2. \A n \in 1..MaxPull : Shows(n) => Shows(n)'
  BY DEF GithubKeeps
<1>3. \A n : Shows(n) => n \in 1..MaxPull
  BY DEF Shows
<1>4. MergedAsExpected /\ pull \in 1..MaxPull => MergedAsExpected'
  <2> SUFFICES ASSUME MergedAsExpected, pull \in 1..MaxPull PROVE MergedAsExpected'
    OBVIOUS
  <2>1. pulls[pull].merged /\ ~ pulls[pull].open
    BY DEF MergedAsExpected, DeliveryInv, MergedIsClosed
  <2>2. pulls'[pull] = pulls[pull]
    BY <2>1 DEF GithubKeeps
  <2> QED
    BY <1>0, <2>1, <2>2 DEF MergedAsExpected, HeadOf
<1>5. StageOK'
  BY <1>0, <1>1, <1>2, <1>3, <1>4 DEF DeliveryInv, StageOK, Reviewed
<1>6. LeaseOK' /\ revision' <= tree'.head
  <2>1. LeaseOK'
    BY <1>0 DEF DeliveryInv, LeaseOK
  <2>2. revision \in Nat /\ tree.head \in Nat /\ tree'.head \in Nat
    BY DEF DeliveryInv, DeliveryTypeOK, Revision
  <2> QED
    BY <1>0, <2>1, <2>2 DEF DeliveryInv
<1>7. ASSUME NEW w \in Workers, worker'[w] = worker[w] PROVE WorkerOK(w)'
  <2>1. WorkerOK(w)
    BY DEF DeliveryInv
  <2>2. /\ Current(w)' <=> Current(w)
        /\ \A pc : Acts(w, pc)' <=> Acts(w, pc)
    BY <1>0, <1>7 DEF Current, Acts
  <2>3. CurrentOK(w) => CurrentOK(w)'
    <3> SUFFICES ASSUME CurrentOK(w) PROVE CurrentOK(w)'
      OBVIOUS
    <3>1. Acts(w, {"recorded"}) /\ worker[w].result = "MERGED" => pull \in 1..MaxPull
      BY <1>3 DEF CurrentOK, DeliveryInv, StageOK, Reviewed
    <3>2. /\ holder' = w
          /\ Acts(w, {"claimed", "loaded", "running", "ran", "opened"})' =>
               worker'[w].phase = state'.stage
          /\ Acts(w, {"loaded", "running", "ran", "opened"})' =>
               /\ worker'[w].rev = revision' /\ worker'[w].req = state'.req
               /\ worker'[w].phase = "PUBLISHING" => Ready'
          /\ Acts(w, {"ran"})' =>
               /\ worker'[w].phase = "VALIDATING" => revision' <= worker'[w].sha
               /\ worker'[w].phase = "PUBLISHING" => worker'[w].sha = revision'
      BY <1>0, <1>1, <1>7, <2>2 DEF CurrentOK
    <3>3. Acts(w, {"opened"})' =>
            worker'[w].phase = "PUBLISHING" /\ Shows(worker[w].pull)'
      BY <1>2, <1>3, <1>7, <2>2 DEF CurrentOK
    <3>4. Acts(w, {"recorded"})' =>
            CASE worker'[w].result = "PUBLISHED" ->
                   state'.stage = "PUBLISHING" /\ Shows(pull)' /\ Ready'
              [] worker'[w].result \in {"VALIDATION_FAILED", "VALIDATION_PASSED"} ->
                   state'.stage = "VALIDATING"
              [] worker'[w].result = "MERGED" -> state'.stage = "MERGING" /\ MergedAsExpected'
              [] worker'[w].result = "MERGE_RECHECK" -> state'.stage = "MERGING"
              [] OTHER -> FALSE
      BY <1>0, <1>1, <1>2, <1>3, <1>4, <1>7, <2>2, <3>1 DEF CurrentOK
    <3> QED
      BY <1>0, <1>7, <3>2, <3>3, <3>4 DEF CurrentOK, Shows, Known, HeadOf
  <2>4. worker[w].sha \in 1..tree.head => worker[w].sha \in 1..tree'.head
    BY DEF DeliveryInv, DeliveryTypeOK, Revision
  <2> QED
    BY <1>0, <1>7, <2>1, <2>2, <2>3, <2>4 DEF WorkerOK
<1>8. \A w \in Workers : WorkerOK(w)'
  BY <1>7
<1> QED
  BY <1>5, <1>6, <1>8 DEF DeliveryInv

-----------------------------------------------------------------------------
(* A transition ends the lease, so nobody is current any more: a step that  *)
(* moves the task has to keep only what its stage stands for.               *)
LEMMA MoveKeeps ==
  ASSUME DeliveryInv, RowFree, NEW s \in EngineeringState, Consistent(s),
         NEW k \in {1, 2}, Move(s, k),
         UNCHANGED <<revision, pull, evidence, container, github>>,
         tree' \in [head : Revision, dirty : BOOLEAN], tree'.head = tree.head,
         \/ worker' = worker
         \/ \E w \in Workers : worker[w].pc # "running" /\ worker' = [worker EXCEPT ![w] = Idle],
         s.stage \in Reviewed => s.req = state.req /\ Shows(pull) /\ Ready,
         s.stage = "COMPLETE" => MergedAsExpected
  PROVE  DeliveryInv'
<1> USE DeliveryNumbers
<1>0. /\ revision' = revision /\ pull' = pull /\ evidence' = evidence
      /\ container' = container /\ branch' = branch /\ pulls' = pulls
      /\ clear' = clear /\ late' = late
      /\ state' = s /\ version' = version + k /\ holder' = Nobody /\ expired' = FALSE
  BY DEF github, Move
<1>1. DeliveryTypeOK /\ version' \in Nat \ {0} /\ version < version'
  BY <1>0 DEF DeliveryInv, DeliveryTypeOK
<1>2. Idle \in WorkerType /\ Idle.pc = "idle" /\ Idle.version = 0
  BY DEF Idle, WorkerType, Phases, Numbers, Results
<1>3. /\ worker' \in [Workers -> WorkerType]
      /\ \A w \in Workers :
           \/ worker'[w] = worker[w]
           \/ worker'[w] = Idle /\ worker[w].pc # "running"
  <2>1. CASE worker' = worker
    BY <1>1, <2>1 DEF DeliveryTypeOK
  <2>2. CASE \E w \in Workers :
               worker[w].pc # "running" /\ worker' = [worker EXCEPT ![w] = Idle]
    BY <1>1, <1>2, <2>2 DEF DeliveryTypeOK
  <2> QED BY <2>1, <2>2
<1>4. DeliveryTypeOK'
  BY <1>0, <1>1, <1>3 DEF DeliveryTypeOK
<1>5. LeaseOK'
  BY <1>0 DEF LeaseOK
<1>6. StageOK'
  <2>1. s.stage \in Reviewed => Shows(pull)' /\ Ready'
    BY <1>0 DEF Shows, Known, HeadOf, Ready, AllPassed, Rows
  <2>2. s.stage = "COMPLETE" => MergedAsExpected'
    BY <1>0 DEF MergedAsExpected, HeadOf
  <2> QED
    BY <1>0, <2>1, <2>2 DEF StageOK
<1>7. MergedIsClosed' /\ revision' <= tree'.head
  BY <1>0 DEF DeliveryInv, MergedIsClosed
<1>8. ContainerOK'
  <2>1. container.owner # Nobody => container.owner \in Workers
    BY <1>1 DEF DeliveryTypeOK, ContainerType
  <2> QED
    BY <1>0, <1>3, <2>1 DEF DeliveryInv, ContainerOK
<1>9. ASSUME NEW w \in Workers PROVE WorkerOK(w)'
  <2>1. WorkerOK(w) /\ worker[w].version \in Nat
    BY <1>1 DEF DeliveryInv, DeliveryTypeOK, WorkerType
  <2>2. CASE worker'[w] = worker[w]
    <3>1. worker'[w].version < version'
      BY <1>0, <1>1, <2>1, <2>2 DEF WorkerOK, DeliveryTypeOK
    <3>2. worker'[w].pc # "submitting"
      BY <2>2 DEF RowFree
    <3> QED
      BY <1>0, <1>1, <1>4, <2>1, <2>2, <3>1, <3>2 DEF WorkerOK, Current, Acts, DeliveryTypeOK
  <2>3. CASE worker'[w] = Idle
    BY <1>1, <1>2, <2>3 DEF WorkerOK, Current, Acts
  <2> QED BY <1>3, <2>2, <2>3
<1>10. \A w \in Workers : WorkerOK(w)'
  BY <1>9
<1> QED
  BY <1>4, <1>5, <1>6, <1>7, <1>8, <1>10 DEF DeliveryInv

(* The same for a transition of the table, taken from the task's own state.  *)
LEMMA TransitionKeeps ==
  ASSUME DeliveryInv, RowFree, NEW a \in Action, NEW reason \in WaitReason,
         Permits(state, a, reason), Move(Transition(state, a, reason, FALSE), 1),
         UNCHANGED <<revision, pull, evidence, container, github>>,
         tree' \in [head : Revision, dirty : BOOLEAN], tree'.head = tree.head,
         \/ worker' = worker
         \/ \E w \in Workers : worker[w].pc # "running" /\ worker' = [worker EXCEPT ![w] = Idle],
         a = "PUBLISHED" => Shows(pull) /\ Ready,
         a = "MERGED" => MergedAsExpected
  PROVE  DeliveryInv'
<1> DEFINE after == Transition(state, a, reason, FALSE)
<1>1. state \in EngineeringState /\ Consistent(state)
  BY DEF DeliveryInv, DeliveryTypeOK
<1>2. after \in EngineeringState /\ Consistent(after)
  BY <1>1, TransitionConsistent
<1>3. /\ after.stage \in Reviewed =>
           after.req = state.req /\ (state.stage \in Reviewed \/ a = "PUBLISHED")
      /\ after.stage = "COMPLETE" => a = "MERGED"
  BY <1>1, TransitionReviews
<1>4. state.stage \in Reviewed => Shows(pull) /\ Ready
  BY DEF DeliveryInv, StageOK
<1>5. Move(after, 1)
  OBVIOUS
<1> HIDE DEF after
<1> QED
  BY <1>2, <1>3, <1>4, <1>5, MoveKeeps

-----------------------------------------------------------------------------
(* The steps that move the task.                                           *)
LEMMA ControlKeeps ==
  ASSUME DeliveryInv, NEW a \in Commands, Control(a)
  PROVE  DeliveryInv'
<1>1. a \in Action \ {"PUBLISHED", "MERGED"}
  BY DeliveryAssumption DEF Action, StepAction
<1>2. tree' = tree /\ tree \in [head : Revision, dirty : BOOLEAN]
  BY DEF Control, DeliveryInv, DeliveryTypeOK
<1>3. "NONE" \in WaitReason
  BY DEF WaitReason
<1> QED
  BY <1>1, <1>2, <1>3, TransitionKeeps DEF Control

LEMMA ReviseKeeps ==
  ASSUME DeliveryInv, Revise
  PROVE  DeliveryInv'
<1> DEFINE paused  == PauseState(state, state.takeover)
           revised == ReviseState(paused)
<1>1. state \in EngineeringState /\ Consistent(state) /\ state.status \notin Terminal
  BY DEF Revise, DeliveryInv, DeliveryTypeOK
<1>2. {"PAUSE", "REVISE_REQUIREMENT"} \subseteq Action \ StepAction /\ "NONE" \in WaitReason
  BY DEF Action, StepAction, WaitReason
<1>3. paused = Transition(state, "PAUSE", "NONE", FALSE) /\ Permits(state, "PAUSE", "NONE")
  BY <1>1, <1>2 DEF Transition, Permits
<1>4. paused \in EngineeringState /\ Consistent(paused) /\ paused.status = "PAUSED"
  <2>1. paused.status = "PAUSED"
    BY <1>1 DEF PauseState, EngineeringState
  <2> QED BY <1>1, <1>2, <1>3, <2>1, TransitionConsistent
<1>5. /\ revised = Transition(paused, "REVISE_REQUIREMENT", "NONE", FALSE)
      /\ Permits(paused, "REVISE_REQUIREMENT", "NONE")
  BY <1>2, <1>4 DEF Transition, Permits, Terminal
<1>6. revised \in EngineeringState /\ Consistent(revised)
  BY <1>2, <1>4, <1>5, TransitionConsistent
<1>7. revised.stage \notin Reviewed
  BY <1>4 DEF ReviseState, EngineeringState, Reviewed
<1>8. tree' = tree /\ tree \in [head : Revision, dirty : BOOLEAN]
  BY DEF Revise, DeliveryInv, DeliveryTypeOK
<1>9. RowFree /\ Move(revised, 2) /\ worker' = worker
      /\ UNCHANGED <<revision, pull, evidence, container, github>>
  BY DEF Revise
<1> HIDE DEF paused, revised
<1> QED
  BY <1>6, <1>7, <1>8, <1>9, MoveKeeps DEF Reviewed

LEMMA DeveloperTurnKeeps ==
  ASSUME DeliveryInv, DeveloperTurn
  PROVE  DeliveryInv'
<1>1. state \in EngineeringState /\ Consistent(state) /\ state.status = "ACTIVE"
      /\ state.stage \in {"DEVELOPING", "FIXING"}
  BY DEF DeveloperTurn, DeliveryInv, DeliveryTypeOK
<1>2. "IMPLEMENTED" \in StepAction /\ "IMPLEMENTED" \in Action /\ "NONE" \in WaitReason
  BY DEF Action, StepAction, WaitReason
<1>3. Permits(state, "IMPLEMENTED", "NONE")
  BY <1>1, <1>2 DEF Permits, Consistent, Terminal, StepFrom
<1>4. tree' \in [head : Revision, dirty : BOOLEAN] /\ tree'.head = tree.head
  BY DEF DeveloperTurn, DeliveryInv, DeliveryTypeOK
<1>5. /\ RowFree /\ Move(Transition(state, "IMPLEMENTED", "NONE", FALSE), 1)
      /\ worker' = worker /\ UNCHANGED <<revision, pull, evidence, container, github>>
  BY DEF DeveloperTurn
<1> QED
  BY <1>2, <1>3, <1>4, <1>5, TransitionKeeps

(* A lease is held only by a task that a BLOCK may stop.                    *)
LEMMA BlockKeeps ==
  ASSUME DeliveryInv, RowFree, holder # Nobody,
         NEW reason \in WaitReason \ {"NONE"}, BlockTask(reason),
         UNCHANGED <<container, github>>,
         \/ worker' = worker
         \/ \E w \in Workers : worker[w].pc # "running" /\ worker' = [worker EXCEPT ![w] = Idle]
  PROVE  DeliveryInv'
<1>1. Consistent(state) /\ state.status = "ACTIVE"
  BY DEF DeliveryInv, DeliveryTypeOK, LeaseOK
<1>2. "BLOCK" \in Action
  BY DEF Action
<1>3. Permits(state, "BLOCK", reason)
  BY <1>1 DEF Permits, Consistent, Terminal
<1>4. tree' = tree /\ tree \in [head : Revision, dirty : BOOLEAN]
  BY DEF BlockTask, DeliveryInv, DeliveryTypeOK
<1>5. /\ Move(Transition(state, "BLOCK", reason, FALSE), 1)
      /\ UNCHANGED <<revision, pull, evidence, container, github>>
  BY DEF BlockTask
<1> QED
  BY <1>2, <1>3, <1>4, <1>5, TransitionKeeps

LEMMA RecoverKeeps ==
  ASSUME DeliveryInv, Recover
  PROVE  DeliveryInv'
<1>1. holder # Nobody
  BY DEF Recover, DeliveryInv, LeaseOK
<1>2. "MISSING_CONFIGURATION" \in WaitReason \ {"NONE"}
  BY DEF WaitReason
<1>3. /\ RowFree /\ BlockTask("MISSING_CONFIGURATION") /\ worker' = worker
      /\ UNCHANGED <<container, github>>
  BY DEF Recover
<1> QED
  BY <1>1, <1>2, <1>3, BlockKeeps

LEMMA CompleteKeeps ==
  ASSUME DeliveryInv, NEW w \in Workers, Complete(w)
  PROVE  DeliveryInv'
<1> DEFINE result == worker[w].result
           moved  == Transition(state, result, "NONE", FALSE)
<1>1. /\ RowFree /\ worker[w].pc = "recorded" /\ Leased(w)
      /\ worker' = [worker EXCEPT ![w] = Idle] /\ tree' = tree
      /\ UNCHANGED <<revision, pull, evidence, container, github>>
  BY DEF Complete
<1>0. \/ Move(moved, 1)
      \/ result = "PUBLISHED" /\ Move(Transition(moved, "REVIEW_FIX", "NONE", FALSE), 2)
  BY DEF Complete
<1>2. /\ state \in EngineeringState /\ Consistent(state)
      /\ tree \in [head : Revision, dirty : BOOLEAN]
  BY DEF DeliveryInv, DeliveryTypeOK
<1>3. CurrentOK(w)
  BY <1>1 DEF Leased, DeliveryInv, WorkerOK, Current
<1>4. state.status = "ACTIVE"
  BY <1>1, DeliveryNumbers DEF Leased, DeliveryInv, LeaseOK
<1>5. /\ result \in {"VALIDATION_FAILED", "VALIDATION_PASSED", "PUBLISHED", "MERGED",
                      "MERGE_RECHECK"}
      /\ state.stage \in StepFrom(result)
      /\ result = "PUBLISHED" => Shows(pull) /\ Ready
      /\ result = "MERGED" => MergedAsExpected
  BY <1>1, <1>3 DEF CurrentOK, Acts, StepFrom
<1>6. result \in StepAction /\ result \in Action /\ "NONE" \in WaitReason
      /\ "REVIEW_FIX" \in StepAction /\ "REVIEW_FIX" \in Action
  BY <1>5 DEF Action, StepAction, WaitReason
<1>7. Permits(state, result, "NONE")
  BY <1>2, <1>4, <1>5, <1>6 DEF Permits, Consistent, Terminal
<1>8. worker[w].pc # "running"
  BY <1>1
<1> HIDE DEF result
<1>9. CASE Move(moved, 1)
  BY <1>1, <1>2, <1>5, <1>6, <1>7, <1>8, <1>9, TransitionKeeps
<1>10. CASE result = "PUBLISHED" /\ Move(Transition(moved, "REVIEW_FIX", "NONE", FALSE), 2)
  <2> DEFINE fixed == Transition(moved, "REVIEW_FIX", "NONE", FALSE)
  <2>1. moved \in EngineeringState /\ Consistent(moved)
    BY <1>2, <1>6, <1>7, TransitionConsistent
  <2>2. moved.status = "WAITING_EXTERNAL" /\ moved.stage = "REVIEWING"
    BY <1>2, <1>6, <1>10 DEF Transition, StepState, StepTo, StepAction, EngineeringState
  <2>3. Permits(moved, "REVIEW_FIX", "NONE")
    BY <1>6, <2>1, <2>2 DEF Permits, Consistent, Terminal, StepFrom
  <2>4. fixed \in EngineeringState /\ Consistent(fixed)
    BY <1>6, <2>1, <2>3, TransitionConsistent
  <2>5. fixed.stage = "FIXING"
    BY <2>1 DEF Transition, StepState, StepTo, StepAction, EngineeringState
  <2>6. Move(fixed, 2)
    BY <1>10
  <2> HIDE DEF moved, fixed
  <2> QED
    BY <1>1, <1>2, <1>8, <2>4, <2>5, <2>6, MoveKeeps DEF Reviewed
<1> QED
  BY <1>0, <1>9, <1>10

(* GitHub's events reach a task that waits for review, and whose pull       *)
(* request therefore shows the recorded revision.                           *)
LEMMA ReviewStepsKeep ==
  ASSUME DeliveryInv, ReviewFeedback \/ Recheck
  PROVE  DeliveryInv'
<1>1. AwaitsReview /\ Keep
  BY DEF ReviewFeedback, Recheck, HeadChanged, MergedExternally, AuthorizeMerge
<1>2. /\ RowFree /\ worker' = worker /\ tree' = tree
      /\ UNCHANGED <<revision, pull, evidence, container, github>>
      /\ state.status = "WAITING_EXTERNAL" /\ state.stage = "REVIEWING" /\ ~ state.takeover
  BY <1>1 DEF AwaitsReview, Keep
<1>3. /\ state \in EngineeringState /\ Consistent(state)
      /\ tree \in [head : Revision, dirty : BOOLEAN]
      /\ Shows(pull) /\ Ready
  BY <1>2 DEF DeliveryInv, DeliveryTypeOK, StageOK, Reviewed
<1>4. /\ {"REVIEW_FIX", "MERGE_AUTHORIZED", "MERGED"} \subseteq StepAction
      /\ {"REVIEW_FIX", "MERGE_AUTHORIZED", "MERGED", "BLOCK"} \subseteq Action
      /\ {"NONE", "MERGE_CONFLICT"} \subseteq WaitReason
  BY DEF Action, StepAction, WaitReason
<1>5. /\ Permits(state, "REVIEW_FIX", "NONE") /\ Permits(state, "MERGE_AUTHORIZED", "NONE")
      /\ Permits(state, "BLOCK", "MERGE_CONFLICT")
  BY <1>2, <1>4 DEF Permits, Terminal, StepFrom
<1>6. CASE ReviewFeedback
  <2>1. Move(Transition(state, "REVIEW_FIX", "NONE", FALSE), 1)
    BY <1>6 DEF ReviewFeedback
  <2> QED BY <1>2, <1>3, <1>4, <1>5, <2>1, TransitionKeeps
<1>7. CASE HeadChanged
  <2>1. Move(Transition(state, "BLOCK", "MERGE_CONFLICT", FALSE), 1)
    BY <1>7 DEF HeadChanged
  <2> QED BY <1>2, <1>3, <1>4, <1>5, <2>1, TransitionKeeps
<1>8. CASE AuthorizeMerge
  <2>1. Move(Transition(state, "MERGE_AUTHORIZED", "NONE", FALSE), 1)
    BY <1>8 DEF AuthorizeMerge
  <2> QED BY <1>2, <1>3, <1>4, <1>5, <2>1, TransitionKeeps
<1>9. CASE MergedExternally
  <2> DEFINE merging == Transition(state, "MERGE_AUTHORIZED", "NONE", FALSE)
             merged  == Transition(merging, "MERGED", "NONE", FALSE)
  <2>1. merging \in EngineeringState /\ Consistent(merging)
    BY <1>3, <1>4, <1>5, TransitionConsistent
  <2>2. merging.status = "ACTIVE" /\ merging.stage = "MERGING" /\ merging.req = state.req
    BY <1>3 DEF Transition, StepState, StepTo, StepAction, EngineeringState
  <2>3. Permits(merging, "MERGED", "NONE")
    BY <1>4, <2>1, <2>2 DEF Permits, Consistent, Terminal, StepFrom
  <2>4. merged \in EngineeringState /\ Consistent(merged)
    BY <1>4, <2>1, <2>3, TransitionConsistent
  <2>5. merged.req = state.req
    BY <2>1, <2>2 DEF Transition, StepState, StepAction, EngineeringState
  <2>6. Move(merged, 2) /\ MergedAsExpected
    BY <1>9 DEF MergedExternally
  <2> HIDE DEF merging, merged
  <2> QED
    BY <1>2, <1>3, <2>4, <2>5, <2>6, MoveKeeps
<1> QED
  BY <1>6, <1>7, <1>8, <1>9 DEF Recheck

-----------------------------------------------------------------------------
(* The steps of one worker that leave the row, the workspace and GitHub     *)
(* alone.                                                                   *)
LEMMA WorkerStepKeeps ==
  ASSUME DeliveryInv, NEW w \in Workers, NEW v \in WorkerType,
         worker' = [worker EXCEPT ![w] = v],
         container' \in ContainerType, ContainerOK',
         UNCHANGED <<row, evidence, tree, lease, github>>, WorkerOK(w)'
  PROVE  DeliveryInv'
<1>0. /\ state' = state /\ version' = version /\ revision' = revision /\ pull' = pull
      /\ holder' = holder /\ expired' = expired /\ evidence' = evidence /\ tree' = tree
      /\ branch' = branch /\ pulls' = pulls /\ clear' = clear /\ late' = late
  BY DEF row, lease, github
<1>1. DeliveryTypeOK
  BY DEF DeliveryInv
<1>2. worker' \in [Workers -> WorkerType] /\ \A x \in Workers : x = w \/ worker'[x] = worker[x]
  BY <1>1 DEF DeliveryTypeOK
<1>3. DeliveryTypeOK'
  BY <1>0, <1>1, <1>2 DEF DeliveryTypeOK
<1>4. GithubKeeps
  BY <1>0 DEF GithubKeeps, Shows, Known, HeadOf
<1>5. MergedIsClosed' /\ tree.head <= tree'.head
  BY <1>0, <1>1 DEF DeliveryInv, MergedIsClosed, DeliveryTypeOK, Revision
<1>6. \A x \in Workers : worker'[x] = worker[x] \/ WorkerOK(x)'
  BY <1>2
<1>7. UNCHANGED <<row, evidence, lease>>
  OBVIOUS
<1> QED
  BY <1>3, <1>4, <1>5, <1>6, <1>7, QuietRowKeeps

(* A container nobody touched, or none.                                     *)
LEMMA ContainerStays ==
  ASSUME DeliveryInv, NEW w \in Workers, NEW v, worker' = [worker EXCEPT ![w] = v],
         UNCHANGED row,
         \/ worker[w].pc # "running" /\ container' = container
         \/ container' = IF container.owner = w THEN NoRun ELSE container
         \/ container' = IF container.owner = w THEN [container EXCEPT !.owner = Nobody]
                         ELSE container
  PROVE  container' \in ContainerType /\ ContainerOK'
<1>0. revision' = revision /\ revision \in Nat
  BY DeliveryNumbers DEF row, DeliveryInv, DeliveryTypeOK, Revision
<1>1. container \in ContainerType /\ ContainerOK /\ Nobody \notin Workers
  BY DeliveryNumbers DEF DeliveryInv, DeliveryTypeOK
<1>2. NoRun \in ContainerType /\ NoRun.owner = Nobody /\ NoRun.sha = 0
  BY DeliveryNumbers DEF NoRun, ContainerType, Phases, Numbers
<1>3. \A x \in Workers : x = w \/ worker'[x] = worker[x]
  BY DEF DeliveryInv, DeliveryTypeOK
<1>4. container.owner = Nobody \/ container.owner \in Workers
  BY <1>1 DEF ContainerType
<1>5. CASE container' = container /\ container.owner # w
  BY <1>0, <1>1, <1>3, <1>4, <1>5 DEF ContainerOK
<1>6. CASE container' = container /\ worker[w].pc # "running"
  BY <1>0, <1>1, <1>3, <1>4, <1>6 DEF ContainerOK
<1>7. CASE container' = NoRun
  BY <1>0, <1>2, <1>7 DEF ContainerOK
<1>8. CASE container' = [container EXCEPT !.owner = Nobody]
  <2>1. container'.owner = Nobody /\ container'.sha = container.sha
        /\ container' \in ContainerType
    BY <1>1, <1>8 DEF ContainerType
  <2> QED BY <1>0, <1>1, <2>1 DEF ContainerOK
<1> QED BY <1>5, <1>6, <1>7, <1>8

(* A worker that has given up, or died, relies on nothing but its lease.     *)
LEMMA QuitterIsFine ==
  ASSUME DeliveryInv, NEW w \in Workers, UNCHANGED <<row, lease>>,
         worker'[w] \in {Idle, Failing(w)}
  PROVE  /\ Idle \in WorkerType /\ Failing(w) \in WorkerType
         /\ WorkerOK(w)'
<1>0. version' = version /\ holder' = holder /\ version \in Nat \ {0}
  BY DEF row, lease, DeliveryInv, DeliveryTypeOK
<1>1. worker[w].version \in Nat /\ WorkerOK(w)
  BY DEF DeliveryInv, DeliveryTypeOK, WorkerType
<1>2. Idle \in WorkerType /\ Idle.pc = "idle" /\ Idle.version = 0
  BY DeliveryNumbers DEF Idle, WorkerType, Phases, Numbers, Results
<1>3. Failing(w).pc = "failing" /\ Failing(w).version = worker[w].version
  BY DEF Failing, Idle
<1>4. Failing(w) \in WorkerType
  BY <1>1, <1>2 DEF Failing, WorkerType
<1> QED
  BY <1>0, <1>1, <1>2, <1>3, <1>4 DEF WorkerOK, Current, CurrentOK, Acts

LEMMA QuitKeeps ==
  ASSUME DeliveryInv, NEW w \in Workers, NEW v \in {Idle, Failing(w)},
         worker' = [worker EXCEPT ![w] = v],
         \/ worker[w].pc # "running" /\ container' = container
         \/ container' = IF container.owner = w THEN NoRun ELSE container
         \/ container' = IF container.owner = w THEN [container EXCEPT !.owner = Nobody]
                         ELSE container,
         UNCHANGED <<row, evidence, tree, lease, github>>
  PROVE  DeliveryInv'
<1>1. worker'[w] = v /\ UNCHANGED row /\ UNCHANGED <<row, lease>>
  BY DEF DeliveryInv, DeliveryTypeOK
<1>2. v \in WorkerType /\ WorkerOK(w)'
  BY <1>1, QuitterIsFine
<1>3. container' \in ContainerType /\ ContainerOK'
  BY <1>1, ContainerStays
<1> QED
  BY <1>2, <1>3, WorkerStepKeeps

LEMMA CrashKeeps ==
  ASSUME DeliveryInv, NEW w \in Workers, Crash(w)
  PROVE  DeliveryInv'
BY QuitKeeps DEF Crash

LEMMA FailPhaseKeeps ==
  ASSUME DeliveryInv, NEW w \in Workers, FailPhase(w)
  PROVE  DeliveryInv'
BY QuitKeeps DEF FailPhase, Raise

LEMMA DropResultKeeps ==
  ASSUME DeliveryInv, NEW w \in Workers, DropResult(w)
  PROVE  DeliveryInv'
BY QuitKeeps DEF DropResult

LEMMA BlockStepKeeps ==
  ASSUME DeliveryInv, NEW w \in Workers, Block(w)
  PROVE  DeliveryInv'
<1>1. /\ RowFree /\ worker[w].pc = "failing" /\ worker' = [worker EXCEPT ![w] = Idle]
      /\ container' = container /\ UNCHANGED <<container, github>>
  BY DEF Block
<1>2. CASE holder = w /\ worker[w].version = version
  <2>1. PICK reason \in {"MISSING_CONFIGURATION", "MISSING_REQUIREMENT"} : BlockTask(reason)
    BY <1>2 DEF Block
  <2>2. reason \in WaitReason \ {"NONE"}
    BY DEF WaitReason
  <2>3. holder # Nobody /\ worker[w].pc # "running"
    BY <1>1, <1>2, DeliveryNumbers
  <2> QED BY <1>1, <2>1, <2>2, <2>3, BlockKeeps
<1>3. CASE ~ (holder = w /\ worker[w].version = version)
  <2>1. UNCHANGED <<row, evidence, tree, lease, github>>
    BY <1>1, <1>3 DEF Block
  <2> QED BY <1>1, <2>1, QuitKeeps
<1> QED BY <1>2, <1>3

LEMMA LoadKeeps ==
  ASSUME DeliveryInv, NEW w \in Workers, Load(w)
  PROVE  DeliveryInv'
<1>1. /\ worker[w].pc = "claimed" /\ worker[w].phase \in {"VALIDATING", "PUBLISHING"}
      /\ container' = container /\ UNCHANGED <<row, evidence, tree, lease, github>>
  BY DEF Load
<1>2. CASE worker[w].phase = "PUBLISHING" => AllPassed(revision, state.req)
  <2> DEFINE v == [worker[w] EXCEPT !.pc = "loaded", !.req = state.req, !.rev = revision]
  <2>1. worker' = [worker EXCEPT ![w] = v]
    BY <1>2 DEF Load
  <2>2. worker[w] \in WorkerType /\ WorkerOK(w) /\ state.req \in Nat /\ revision \in Numbers
        /\ worker \in [Workers -> WorkerType]
    BY DeliveryNumbers DEF DeliveryInv, DeliveryTypeOK, EngineeringState
  <2>3. v \in WorkerType
    BY <2>2 DEF WorkerType
  <2>4. worker'[w] = v
    BY <2>1, <2>2
  <2>5. /\ v.pc = "loaded" /\ v.phase = worker[w].phase /\ v.version = worker[w].version
        /\ v.rev = revision /\ v.req = state.req
    BY <2>2 DEF WorkerType
  <2>6. /\ state' = state /\ revision' = revision /\ version' = version /\ holder' = holder
        /\ evidence' = evidence /\ revision <= revision
    BY <1>1, <2>2 DEF row, lease, Numbers
  <2>7. WorkerOK(w)'
    <3> HIDE DEF v
    <3> QED
      BY <1>1, <1>2, <2>2, <2>4, <2>5, <2>6
      DEF WorkerOK, Current, CurrentOK, Acts, Ready, AllPassed, Rows
  <2>8. container' \in ContainerType /\ ContainerOK'
    BY <1>1, <2>1, ContainerStays
  <2> HIDE DEF v
  <2> QED
    BY <1>1, <2>1, <2>3, <2>7, <2>8, WorkerStepKeeps
<1>3. CASE ~ (worker[w].phase = "PUBLISHING" => AllPassed(revision, state.req))
  <2>1. worker' = [worker EXCEPT ![w] = Failing(w)]
    BY <1>3 DEF Load
  <2> QED BY <1>1, <2>1, QuitKeeps
<1> QED BY <1>2, <1>3

LEMMA StartContainerKeeps ==
  ASSUME DeliveryInv, NEW w \in Workers, StartContainer(w)
  PROVE  DeliveryInv'
<1>1. worker[w].pc = "loaded" /\ UNCHANGED <<row, evidence, tree, lease, github>>
  BY DEF StartContainer
<1>2. CASE container = NoRun
  <2> DEFINE v == [worker[w] EXCEPT !.pc = "running"]
  <2>1. /\ worker' = [worker EXCEPT ![w] = v]
        /\ container' = [op |-> worker[w].phase, owner |-> w,
                         version |-> worker[w].version, sha |-> worker[w].rev]
    BY <1>2 DEF StartContainer
  <2>2. worker[w] \in WorkerType /\ WorkerOK(w) /\ worker \in [Workers -> WorkerType]
    BY DEF DeliveryInv, DeliveryTypeOK
  <2>3. v \in WorkerType
    BY <2>2 DEF WorkerType
  <2>4. worker'[w] = v
    BY <2>1, <2>2
  <2>5. /\ v.pc = "running" /\ v.phase = worker[w].phase /\ v.version = worker[w].version
        /\ v.rev = worker[w].rev /\ v.req = worker[w].req
    BY <2>2 DEF WorkerType
  <2>6. /\ state' = state /\ revision' = revision /\ version' = version /\ holder' = holder
        /\ evidence' = evidence
    BY <1>1 DEF row, lease
  <2>7. WorkerOK(w)'
    <3> HIDE DEF v
    <3> QED
      BY <1>1, <2>2, <2>4, <2>5, <2>6
      DEF WorkerOK, Current, CurrentOK, Acts, Ready, AllPassed, Rows
  <2>8. container' \in ContainerType
    BY <2>1, <2>2 DEF ContainerType, WorkerType
  <2>9. ContainerOK'
    <3>1. worker[w].rev <= revision
      BY <1>1, <2>2 DEF WorkerOK, Acts
    <3> HIDE DEF v
    <3> QED
      BY <2>1, <2>4, <2>5, <2>6, <3>1 DEF ContainerOK
  <2> HIDE DEF v
  <2> QED
    BY <1>1, <2>1, <2>3, <2>7, <2>8, <2>9, WorkerStepKeeps
<1>3. CASE container # NoRun
  <2>1. worker' = [worker EXCEPT ![w] = Failing(w)] /\ container' = container
    BY <1>3 DEF StartContainer
  <2> QED BY <1>1, <2>1, QuitKeeps
<1> QED BY <1>2, <1>3

(* A result a worker has chosen, and what completing it will rest on.        *)
LEMMA ChosenIsFine ==
  ASSUME DeliveryInv, NEW w \in Workers, NEW result \in Results
  PROVE  /\ Chosen(w, result) \in WorkerType
         /\ Chosen(w, result).pc = "recorded"
         /\ Chosen(w, result).version = worker[w].version
         /\ Chosen(w, result).result = result
<1>1. worker[w].version \in Nat
  BY DEF DeliveryInv, DeliveryTypeOK, WorkerType
<1>2. Idle \in WorkerType
  BY DeliveryNumbers DEF Idle, WorkerType, Phases, Numbers, Results
<1>3. Chosen(w, result) \in WorkerType
  BY <1>1, <1>2 DEF Chosen, WorkerType
<1> QED BY <1>3 DEF Chosen, Idle

LEMMA DecideMergeKeeps ==
  ASSUME DeliveryInv, NEW w \in Workers, DecideMerge(w)
  PROVE  DeliveryInv'
<1>1. /\ worker[w].pc = "claimed" /\ worker[w].phase = "MERGING" /\ container' = container
      /\ UNCHANGED <<row, evidence, tree, lease, github>>
  BY DEF DecideMerge
<1>2. /\ worker[w] \in WorkerType /\ WorkerOK(w) /\ worker \in [Workers -> WorkerType]
      /\ revision \in Numbers /\ pull \in 0..MaxPull
  BY DeliveryNumbers DEF DeliveryInv, DeliveryTypeOK
<1>3. /\ state' = state /\ revision' = revision /\ version' = version /\ holder' = holder
      /\ pull' = pull /\ pulls' = pulls /\ branch' = branch
  BY <1>1 DEF row, lease, github
<1>4. ASSUME Leased(w), NEW v \in WorkerType, worker' = [worker EXCEPT ![w] = v],
             WorkerOK(w)'
      PROVE  DeliveryInv'
  BY <1>1, <1>4, ContainerStays, WorkerStepKeeps
<1>5. Leased(w) => state.stage = "MERGING" /\ holder = w /\ Current(w)
  BY <1>1, <1>2 DEF Leased, WorkerOK, Current, CurrentOK, Acts
<1>6. ASSUME Leased(w), NEW result \in {"MERGED", "MERGE_RECHECK"},
             worker' = [worker EXCEPT ![w] = Chosen(w, result)],
             result = "MERGED" => MergedAsExpected
      PROVE  DeliveryInv'
  <2>1. result \in Results
    BY DEF Results
  <2>2. /\ Chosen(w, result) \in WorkerType /\ worker'[w].pc = "recorded"
        /\ worker'[w].version = worker[w].version /\ worker'[w].result = result
    BY <1>2, <1>6, <2>1, ChosenIsFine
  <2>3. WorkerOK(w)'
    BY <1>2, <1>3, <1>5, <1>6, <2>2
    DEF WorkerOK, Current, CurrentOK, Acts, MergedAsExpected, HeadOf
  <2> QED BY <1>4, <1>6, <2>2, <2>3
<1>7. CASE Leased(w) /\ pull > 0
  <2>1. CASE MergedAsExpected /\ worker' = [worker EXCEPT ![w] = Chosen(w, "MERGED")]
    BY <1>6, <1>7, <2>1
  <2>2. CASE worker' = [worker EXCEPT ![w] = Chosen(w, "MERGE_RECHECK")]
    BY <1>6, <1>7, <2>2
  <2>3. CASE worker' = [worker EXCEPT ![w].pc = "submitting", ![w].sha = revision,
                                      ![w].pull = pull]
    <3> DEFINE v == [worker[w] EXCEPT !.pc = "submitting", !.sha = revision, !.pull = pull]
    <3>1. worker' = [worker EXCEPT ![w] = v]
      BY <2>3
    <3>2. v \in WorkerType
      BY <1>2 DEF WorkerType
    <3>3. /\ worker'[w].pc = "submitting" /\ worker'[w].version = worker[w].version
          /\ worker'[w].sha = revision /\ worker'[w].pull = pull
      BY <1>2, <2>3 DEF WorkerType
    <3>4. WorkerOK(w)'
      BY <1>2, <1>3, <1>5, <1>7, <3>3 DEF WorkerOK, Current, CurrentOK, Acts
    <3> HIDE DEF v
    <3> QED BY <1>4, <1>7, <3>1, <3>2, <3>4
  <2> QED BY <1>7, <2>1, <2>2, <2>3 DEF DecideMerge
<1>8. CASE ~ (Leased(w) /\ pull > 0)
  <2>1. worker' = [worker EXCEPT ![w] = Failing(w)]
    BY <1>8 DEF DecideMerge
  <2> QED BY <1>1, <2>1, QuitKeeps
<1> QED BY <1>7, <1>8

-----------------------------------------------------------------------------
(* The end of a container: a living controller gets the receipt of the      *)
(* revision it started with.                                                *)
LEMMA EndContainerKeeps ==
  ASSUME DeliveryInv, NEW sha \in Numbers, NEW passed \in BOOLEAN,
         EndContainer(sha, passed), UNCHANGED <<row, evidence, lease>>,
         tree' \in [head : Revision, dirty : BOOLEAN], tree.head <= tree'.head,
         branch' \in Heads, pulls' = pulls, clear' \in BOOLEAN, late' = late, GithubKeeps,
         container.op = "VALIDATING" => tree.head <= sha /\ sha <= tree'.head,
         container.op # "VALIDATING" => container.op = "PUBLISHING" /\ sha = container.sha
  PROVE  DeliveryInv'
<1>0. /\ state' = state /\ version' = version /\ revision' = revision /\ pull' = pull
      /\ holder' = holder /\ expired' = expired /\ evidence' = evidence /\ container' = NoRun
  BY DEF row, lease, EndContainer
<1>1. DeliveryTypeOK /\ ContainerOK /\ revision \in Nat /\ tree.head \in Nat
      /\ tree'.head \in Nat /\ sha \in Nat /\ 1 <= tree.head
  BY DeliveryNumbers DEF DeliveryInv, DeliveryTypeOK, Revision, Numbers
<1>2. /\ NoRun \in ContainerType /\ NoRun.owner = Nobody /\ NoRun.sha = 0
  BY DeliveryNumbers DEF NoRun, ContainerType, Phases, Numbers
<1>3. ASSUME NEW x \in Workers
      PROVE  /\ worker'[x] \in WorkerType
             /\ worker'[x] = worker[x] \/ WorkerOK(x)'
  <2>1. worker[x] \in WorkerType /\ WorkerOK(x)
    BY <1>1 DEF DeliveryInv, DeliveryTypeOK
  <2>2. CASE x # container.owner
    BY <2>1, <2>2 DEF EndContainer
  <2>3. CASE x = container.owner
    <3> DEFINE v == [worker[x] EXCEPT !.pc = "ran", !.sha = sha, !.passed = passed]
    <3>1. worker'[x] = v
      BY <2>3 DEF EndContainer
    <3>2. v \in WorkerType
      BY <1>1, <2>1 DEF WorkerType
    <3>3. /\ v.pc = "ran" /\ v.phase = worker[x].phase /\ v.version = worker[x].version
          /\ v.rev = worker[x].rev /\ v.req = worker[x].req /\ v.sha = sha
      BY <2>1 DEF WorkerType
    <3>4. /\ worker[x].pc = "running" /\ worker[x].phase = container.op
          /\ worker[x].rev = container.sha
      BY <1>1, <2>3, DeliveryNumbers DEF ContainerOK
    <3>5. revision <= tree.head
      BY DEF DeliveryInv
    <3>6. sha \in 1..tree'.head \/ container.op = "PUBLISHING"
      BY <1>1
    <3> HIDE DEF v
    <3>7. WorkerOK(x)'
      BY <1>0, <1>1, <2>1, <3>1, <3>3, <3>4, <3>5, <3>6
      DEF WorkerOK, Current, CurrentOK, Acts, Ready, AllPassed, Rows
    <3> QED BY <3>1, <3>2, <3>7
  <2> QED BY <2>2, <2>3
<1>4. worker' \in [Workers -> WorkerType]
  <2>1. worker' = [x \in Workers |-> worker'[x]]
    BY DEF EndContainer
  <2> QED BY <1>3, <2>1
<1>5. DeliveryTypeOK'
  BY <1>0, <1>1, <1>2, <1>4 DEF DeliveryTypeOK
<1>6. ContainerOK'
  BY <1>0, <1>1, <1>2 DEF ContainerOK
<1>7. MergedIsClosed'
  BY DEF DeliveryInv, MergedIsClosed
<1> QED
  BY <1>3, <1>5, <1>6, <1>7, QuietRowKeeps

LEMMA RunChecksKeeps ==
  ASSUME DeliveryInv, RunChecks
  PROVE  DeliveryInv'
<1>1. PICK passed \in BOOLEAN :
        LET head == IF passed /\ tree.dirty THEN tree.head + 1 ELSE tree.head
        IN  /\ head \in Revision
            /\ tree' = [head |-> head, dirty |-> tree.dirty /\ ~ passed]
            /\ EndContainer(head, passed)
  BY DEF RunChecks
<1> DEFINE head == IF passed /\ tree.dirty THEN tree.head + 1 ELSE tree.head
<1>2. /\ head \in Revision /\ head \in Numbers /\ EndContainer(head, passed) /\ tree'.head = head
      /\ tree' = [head |-> head, dirty |-> tree.dirty /\ ~ passed]
  BY <1>1, DeliveryNumbers
<1>3. tree.head \in Nat /\ tree.head <= head /\ head <= head
  BY DeliveryNumbers DEF DeliveryInv, DeliveryTypeOK, Revision
<1>4. /\ container.op = "VALIDATING" /\ UNCHANGED <<row, evidence, lease>>
      /\ branch' = branch /\ pulls' = pulls /\ clear' = clear /\ late' = late
      /\ revision' = revision
  BY DEF RunChecks, github, row
<1>5. branch' \in Heads /\ clear' \in BOOLEAN /\ tree.dirty \in BOOLEAN
  BY <1>4 DEF DeliveryInv, DeliveryTypeOK
<1>6. tree' \in [head : Revision, dirty : BOOLEAN]
  <2>1. (tree.dirty /\ ~ passed) \in BOOLEAN
    OBVIOUS
  <2> HIDE DEF head
  <2> QED BY <1>2, <2>1
<1>7. GithubKeeps
  BY <1>4 DEF GithubKeeps, Shows, Known, HeadOf
<1> HIDE DEF head
<1> QED
  BY <1>2, <1>3, <1>4, <1>5, <1>6, <1>7, EndContainerKeeps

(* A fast-forward can only bring the branch to the recorded revision or     *)
(* before it, so what a pull request shows stays ours or somebody else's.    *)
LEMMA PushKeeps ==
  ASSUME DeliveryInv, Push
  PROVE  DeliveryInv'
<1>1. /\ container.op = "PUBLISHING" /\ branch <= container.sha /\ branch' = container.sha
      /\ clear' = (clear /\ branch = container.sha) /\ EndContainer(container.sha, TRUE)
      /\ UNCHANGED <<row, evidence, lease>> /\ tree' = tree /\ pulls' = pulls /\ late' = late
      /\ revision' = revision
  BY DEF Push, FastForward, row
<1>2. /\ container.sha <= revision /\ container.sha \in Numbers /\ revision \in Revision
      /\ tree \in [head : Revision, dirty : BOOLEAN] /\ branch \in Heads /\ clear \in BOOLEAN
  BY DEF DeliveryInv, DeliveryTypeOK, ContainerOK, ContainerType
<1>3. branch' \in Heads
  BY <1>1, <1>2, DeliveryNumbers DEF Heads, Foreign, Numbers
<1>4. GithubKeeps
  <2>1. ASSUME NEW n \in 1..MaxPull, Shows(n) PROVE Shows(n)'
    <3>1. branch \in {revision, Foreign} => branch' = revision
      BY <1>1, <1>2, DeliveryNumbers DEF Foreign, Heads, Numbers, Revision
    <3> QED BY <1>1, <2>1, <3>1 DEF Shows, Known, HeadOf
  <2> QED BY <1>1, <2>1 DEF GithubKeeps
<1>5. /\ tree' \in [head : Revision, dirty : BOOLEAN] /\ tree.head <= tree'.head
      /\ clear' \in BOOLEAN /\ TRUE \in BOOLEAN
  BY <1>1, <1>2, DeliveryNumbers DEF Revision
<1> QED
  BY <1>1, <1>2, <1>3, <1>4, <1>5, EndContainerKeeps

LEMMA SweepKeeps ==
  ASSUME DeliveryInv, Sweep
  PROVE  DeliveryInv'
<1>1. /\ container' = NoRun /\ UNCHANGED <<row, evidence, tree, lease, github>>
      /\ worker' = [w \in Workers |-> IF w = container.owner THEN Failing(w) ELSE worker[w]]
  BY DEF Sweep
<1>2. DeliveryTypeOK /\ container.owner \in Workers \cup {Nobody} /\ Nobody \notin Workers
  BY DeliveryNumbers DEF DeliveryInv, DeliveryTypeOK, ContainerType
<1>3. CASE container.owner \in Workers
  <2> DEFINE w == container.owner
  <2>1. worker' = [worker EXCEPT ![w] = Failing(w)]
    BY <1>1, <1>2, <1>3 DEF DeliveryTypeOK
  <2>2. container' = IF container.owner = w THEN NoRun ELSE container
    BY <1>1
  <2> HIDE DEF w
  <2>3. w \in Workers
    BY <1>3 DEF w
  <2> QED BY <1>1, <2>1, <2>2, <2>3, QuitKeeps
<1>4. CASE container.owner = Nobody
  <2>1. worker' = worker
    BY <1>1, <1>2, <1>4 DEF DeliveryTypeOK
  <2>2. /\ state' = state /\ version' = version /\ revision' = revision /\ pull' = pull
        /\ holder' = holder /\ expired' = expired /\ evidence' = evidence /\ tree' = tree
        /\ branch' = branch /\ pulls' = pulls /\ clear' = clear /\ late' = late
    BY <1>1 DEF row, lease, github
  <2>3. NoRun \in ContainerType /\ NoRun.owner = Nobody /\ NoRun.sha = 0
    BY DeliveryNumbers DEF NoRun, ContainerType, Phases, Numbers
  <2>4. DeliveryTypeOK' /\ tree.head <= tree'.head
    BY <1>1, <1>2, <2>1, <2>2, <2>3, DeliveryNumbers DEF DeliveryTypeOK, Revision
  <2>5. GithubKeeps /\ MergedIsClosed'
    BY <2>2 DEF GithubKeeps, Shows, Known, HeadOf, DeliveryInv, MergedIsClosed
  <2>6. ContainerOK'
    BY <1>1, <1>2, <2>2, <2>3, DeliveryNumbers DEF ContainerOK, DeliveryTypeOK, Revision
  <2>7. \A w \in Workers : worker'[w] = worker[w]
    BY <2>1
  <2> QED BY <1>1, <2>4, <2>5, <2>6, <2>7, QuietRowKeeps
<1> QED BY <1>2, <1>3, <1>4

-----------------------------------------------------------------------------
(* GitHub and its users.                                                   *)
LEMMA MergeAtKeeps ==
  ASSUME DeliveryInv, NEW n \in OpenPulls, MergeAt(n), branch' = branch, revision' = revision
  PROVE  /\ pulls' \in [1..MaxPull -> PullType]
         /\ GithubKeeps /\ MergedIsClosed'
<1>1. /\ pulls \in [1..MaxPull -> PullType] /\ branch \in Heads
      /\ n \in 1..MaxPull /\ pulls[n].open /\ ~ pulls[n].merged
  BY DEF DeliveryInv, DeliveryTypeOK, OpenPulls, MergedIsClosed
<1> DEFINE v == [open |-> FALSE, merged |-> TRUE, head |-> branch]
<1>2. v \in PullType /\ ~ v.open /\ v.merged /\ v.head = branch
  BY <1>1 DEF PullType
<1>3. pulls' = [pulls EXCEPT ![n] = v]
  BY DEF MergeAt
<1>4. pulls'[n] = v /\ \A m \in 1..MaxPull : m = n \/ pulls'[m] = pulls[m]
  BY <1>1, <1>3
<1> HIDE DEF v
<1>5. pulls' \in [1..MaxPull -> PullType]
  BY <1>1, <1>2, <1>3
<1>6. ASSUME NEW m \in 1..MaxPull PROVE Shows(m) => Shows(m)'
  BY <1>1, <1>2, <1>4 DEF Shows, Known, HeadOf
<1>7. MergedIsClosed'
  BY <1>2, <1>4 DEF DeliveryInv, MergedIsClosed
<1> QED
  BY <1>1, <1>4, <1>5, <1>6, <1>7 DEF GithubKeeps

LEMMA GithubStepKeeps ==
  ASSUME DeliveryInv, Unrelated, branch' \in Heads, pulls' \in [1..MaxPull -> PullType],
         clear' \in BOOLEAN, late' \in Heads, GithubKeeps, MergedIsClosed'
  PROVE  DeliveryInv'
<1>1. /\ state' = state /\ version' = version /\ revision' = revision /\ pull' = pull
      /\ holder' = holder /\ expired' = expired /\ evidence' = evidence /\ tree' = tree
      /\ worker' = worker /\ container' = container /\ UNCHANGED <<row, evidence, lease>>
  BY DEF Unrelated, row, lease
<1>2. DeliveryTypeOK' /\ tree.head <= tree'.head
  BY <1>1, DeliveryNumbers DEF DeliveryInv, DeliveryTypeOK, Revision
<1>3. ContainerOK'
  BY <1>1 DEF DeliveryInv, ContainerOK
<1>4. \A w \in Workers : worker'[w] = worker[w]
  BY <1>1
<1> QED BY <1>1, <1>2, <1>3, <1>4, QuietRowKeeps

LEMMA GithubActionsKeep ==
  ASSUME DeliveryInv, Review \/ ForeignPush \/ HumanMerge \/ LateMerge
  PROVE  DeliveryInv'
<1>0. Unrelated /\ revision' = revision
  BY DEF Review, ForeignPush, HumanMerge, LateMerge, Unrelated, row
<1>1. /\ branch \in Heads /\ pulls \in [1..MaxPull -> PullType] /\ clear \in BOOLEAN
      /\ late \in Heads /\ MergedIsClosed /\ Foreign \in Heads /\ 0 \in Heads
  BY DeliveryNumbers DEF DeliveryInv, DeliveryTypeOK, Heads, Foreign
<1>2. ASSUME pulls' = pulls, branch' \in {branch, Foreign} PROVE GithubKeeps /\ MergedIsClosed'
  BY <1>0, <1>1, <1>2 DEF GithubKeeps, Shows, Known, HeadOf, MergedIsClosed
<1>3. CASE Review
  BY <1>0, <1>1, <1>2, <1>3, GithubStepKeeps DEF Review
<1>4. CASE ForeignPush
  BY <1>0, <1>1, <1>2, <1>4, GithubStepKeeps DEF ForeignPush
<1>5. CASE HumanMerge
  BY <1>0, <1>1, <1>5, MergeAtKeeps, GithubStepKeeps DEF HumanMerge
<1>6. CASE LateMerge
  <2>1. late' = 0 /\ branch' = branch /\ clear' = clear
    BY <1>6 DEF LateMerge
  <2>2. CASE pulls' = pulls
    BY <1>0, <1>1, <1>2, <2>1, <2>2, GithubStepKeeps
  <2>3. CASE \E n \in OpenPulls : MergeAt(n)
    BY <1>0, <1>1, <2>1, <2>3, MergeAtKeeps, GithubStepKeeps
  <2> QED BY <1>6, <2>2, <2>3 DEF LateMerge
<1> QED BY <1>3, <1>4, <1>5, <1>6

-----------------------------------------------------------------------------
(* A worker that talks to GitHub.                                          *)
LEMMA RequestKeeps ==
  ASSUME DeliveryInv, NEW w \in Workers, NEW v \in WorkerType,
         worker[w].pc # "running", worker' = [worker EXCEPT ![w] = v],
         UNCHANGED <<row, evidence, tree, lease, container, branch, clear>>,
         pulls' \in [1..MaxPull -> PullType], late' \in Heads, GithubKeeps, MergedIsClosed',
         WorkerOK(w)'
  PROVE  DeliveryInv'
<1>1. /\ state' = state /\ version' = version /\ revision' = revision /\ pull' = pull
      /\ holder' = holder /\ expired' = expired /\ evidence' = evidence /\ tree' = tree
      /\ branch' = branch /\ clear' = clear /\ UNCHANGED row /\ container' = container
      /\ UNCHANGED <<row, evidence, lease>>
  BY DEF row, lease
<1>2. DeliveryTypeOK
  BY DEF DeliveryInv
<1>3. worker' \in [Workers -> WorkerType] /\ \A x \in Workers : x = w \/ worker'[x] = worker[x]
  BY <1>2 DEF DeliveryTypeOK
<1>4. container' \in ContainerType /\ ContainerOK'
  BY <1>1, ContainerStays
<1>5. DeliveryTypeOK' /\ tree.head <= tree'.head
  BY <1>1, <1>2, <1>3, <1>4, DeliveryNumbers DEF DeliveryTypeOK, Revision
<1>6. \A x \in Workers : worker'[x] = worker[x] \/ WorkerOK(x)'
  BY <1>3
<1> QED BY <1>1, <1>4, <1>5, <1>6, QuietRowKeeps

LEMMA OpenPullKeeps ==
  ASSUME DeliveryInv, NEW w \in Workers, OpenPull(w)
  PROVE  DeliveryInv'
<1> DEFINE first ==
             IF OpenPulls # {} THEN CHOOSE p \in OpenPulls : TRUE
             ELSE CHOOSE p \in NewPulls : \A q \in NewPulls : p <= q
<1>1. /\ worker[w].pc = "ran" /\ worker[w].phase = "PUBLISHING"
      /\ OpenPulls = {} => NewPulls # {}
      /\ UNCHANGED <<row, evidence, tree, lease, container, branch, clear, late>>
  BY DEF OpenPull
<1>2. /\ worker \in [Workers -> WorkerType] /\ worker[w] \in WorkerType /\ WorkerOK(w)
      /\ pulls \in [1..MaxPull -> PullType] /\ MergedIsClosed /\ late \in Heads
  BY DEF DeliveryInv, DeliveryTypeOK
<1>3. /\ state' = state /\ version' = version /\ revision' = revision /\ pull' = pull
      /\ holder' = holder /\ evidence' = evidence /\ branch' = branch /\ UNCHANGED <<row, lease>>
      /\ UNCHANGED row
  BY <1>1 DEF row, lease
<1>4. first \in OpenPulls \/ first \in NewPulls
  <2>1. CASE OpenPulls # {}
    BY <2>1
  <2>2. CASE OpenPulls = {}
    <3>1. NewPulls \in SUBSET Nat /\ NewPulls # {}
      BY <1>1, <2>2, DeliveryNumbers DEF NewPulls
    <3>2. \E p \in NewPulls : \A q \in NewPulls : p <= q
      BY <3>1, SmallestExists
    <3> QED BY <2>2, <3>2
  <2> QED BY <2>1, <2>2
<1>5. CASE OpenPulls = {} /\ branch = Base
  <2>1. worker' = [worker EXCEPT ![w] = Failing(w)] /\ pulls' = pulls
    BY <1>5 DEF OpenPull
  <2>2. UNCHANGED <<row, evidence, tree, lease, github>>
    BY <1>1, <2>1 DEF github
  <2> QED BY <1>1, <2>1, <2>2, QuitKeeps
<1>6. CASE ~ (OpenPulls = {} /\ branch = Base)
  <2>0. /\ pulls' = [pulls EXCEPT ![first].open = TRUE]
        /\ worker' = [worker EXCEPT ![w] =
             IF branch = worker[w].sha THEN [worker[w] EXCEPT !.pc = "opened", !.pull = first]
             ELSE Failing(w)]
    BY <1>6 DEF OpenPull
  <2> HIDE DEF first
  <2> PICK n \in OpenPulls \cup NewPulls : n = first
    BY <1>4
  <2> DEFINE v == IF branch = worker[w].sha
                  THEN [worker[w] EXCEPT !.pc = "opened", !.pull = n] ELSE Failing(w)
  <2>1. pulls' = [pulls EXCEPT ![n].open = TRUE] /\ worker' = [worker EXCEPT ![w] = v]
    BY <2>0
  <2>2. n \in 1..MaxPull /\ ~ pulls[n].merged /\ (pulls[n].open \/ ~ Known(n))
    BY <1>2 DEF OpenPulls, NewPulls, MergedIsClosed, Known
  <2>3. /\ pulls' \in [1..MaxPull -> PullType]
        /\ pulls'[n].open /\ pulls'[n].merged = pulls[n].merged
        /\ \A m \in 1..MaxPull : m = n \/ pulls'[m] = pulls[m]
    <3> DEFINE opened == [pulls[n] EXCEPT !.open = TRUE]
    <3>1. opened \in PullType /\ opened.open /\ opened.merged = pulls[n].merged
      BY <1>2, <2>2 DEF PullType
    <3>2. pulls' = [pulls EXCEPT ![n] = opened]
      BY <2>1
    <3> HIDE DEF opened
    <3> QED BY <1>2, <2>2, <3>1, <3>2
  <2>4. ASSUME NEW m \in 1..MaxPull, Shows(m) PROVE Shows(m)'
    BY <1>3, <2>2, <2>3, <2>4 DEF Shows, Known, HeadOf
  <2>5. GithubKeeps
    BY <2>2, <2>3, <2>4 DEF GithubKeeps
  <2>6. MergedIsClosed'
    BY <1>2, <2>2, <2>3 DEF MergedIsClosed
  <2>7. v \in WorkerType
    <3>0. n \in 0..MaxPull
      BY <2>2, DeliveryNumbers
    <3>1. [worker[w] EXCEPT !.pc = "opened", !.pull = n] \in WorkerType
      BY <1>2, <3>0 DEF WorkerType
    <3>2. worker'[w] = Failing(w) => Failing(w) \in WorkerType
      BY <1>3, QuitterIsFine
    <3> QED BY <1>2, <2>1, <3>1, <3>2
  <2>8. worker'[w] = v
    BY <1>2, <2>1
  <2>9. WorkerOK(w)'
    <3>1. CASE branch = worker[w].sha
      <4>1. /\ v.pc = "opened" /\ v.phase = "PUBLISHING" /\ v.version = worker[w].version
            /\ v.rev = worker[w].rev /\ v.req = worker[w].req /\ v.pull = n
        BY <1>1, <1>2, <3>1 DEF WorkerType
      <4>2. branch = revision => Shows(n)'
        BY <1>3, <2>2, <2>3 DEF Shows, Known, HeadOf
      <4> HIDE DEF v
      <4>3. Ready' <=> Ready
        BY <1>3 DEF Ready, AllPassed, Rows
      <4>4. Current(w) => CurrentOK(w)
        BY <1>2 DEF WorkerOK
      <4>5. Current(w)' => Current(w)
        BY <1>3, <2>8, <4>1 DEF Current
      <4>6. CurrentOK(w) => CurrentOK(w)'
        <5> SUFFICES ASSUME CurrentOK(w) PROVE CurrentOK(w)'
          OBVIOUS
        <5>1. /\ holder = w /\ worker[w].phase = state.stage /\ worker[w].rev = revision
              /\ worker[w].req = state.req /\ Ready /\ worker[w].sha = revision
          BY <1>1 DEF CurrentOK, Acts
        <5>2. Shows(worker[w].pull)'
          BY <2>8, <3>1, <4>1, <4>2, <5>1 DEF Shows, Known, HeadOf
        <5> QED BY <1>1, <1>3, <2>8, <4>1, <4>3, <5>1, <5>2 DEF CurrentOK, Acts
      <4> QED
        BY <1>2, <1>3, <2>8, <4>1, <4>4, <4>5, <4>6 DEF WorkerOK, Acts
    <3>2. CASE branch # worker[w].sha
      BY <1>3, <2>8, <3>2, QuitterIsFine
    <3> QED BY <3>1, <3>2
  <2>10. worker[w].pc # "running" /\ late' \in Heads
    BY <1>1, <1>2
  <2>11. UNCHANGED <<row, evidence, tree, lease, container, branch, clear>>
    BY <1>1
  <2> HIDE DEF v
  <2> QED BY <2>1, <2>3, <2>5, <2>6, <2>7, <2>9, <2>10, <2>11, RequestKeeps
<1> QED BY <1>5, <1>6

LEMMA SubmitMergeKeeps ==
  ASSUME DeliveryInv, NEW w \in Workers, SubmitMerge(w)
  PROVE  DeliveryInv'
<1>1. /\ worker[w].pc = "submitting"
      /\ UNCHANGED <<row, evidence, tree, lease, container, branch, clear>>
  BY DEF SubmitMerge
<1>2. /\ worker \in [Workers -> WorkerType] /\ worker[w] \in WorkerType /\ WorkerOK(w)
      /\ pulls \in [1..MaxPull -> PullType] /\ MergedIsClosed /\ late \in Heads
  BY DEF DeliveryInv, DeliveryTypeOK
<1>3. /\ state' = state /\ version' = version /\ revision' = revision /\ pull' = pull
      /\ holder' = holder /\ branch' = branch /\ UNCHANGED <<row, lease>>
  BY <1>1 DEF row, lease
<1>4. /\ Current(w) /\ CurrentOK(w) /\ state.stage = "MERGING"
      /\ worker[w].sha = revision /\ worker[w].pull = pull
  BY <1>1, <1>2 DEF WorkerOK, Acts
<1>5. worker'[w] = Failing(w) => Failing(w) \in WorkerType /\ WorkerOK(w)'
  BY <1>3, QuitterIsFine
<1>6. CASE /\ Accepts(worker[w].pull, worker[w].sha) /\ MergeAt(worker[w].pull) /\ late' = late
           /\ \/ worker' = [worker EXCEPT ![w] = Chosen(w, "MERGED")]
              \/ worker' = [worker EXCEPT ![w] = Failing(w)]
  <2>1. worker[w].pull \in OpenPulls /\ branch = revision
    BY <1>2, <1>4, <1>6, DeliveryNumbers DEF Accepts, OpenPulls, WorkerType
  <2>2. pulls' \in [1..MaxPull -> PullType] /\ GithubKeeps /\ MergedIsClosed'
    BY <1>3, <1>6, <2>1, MergeAtKeeps
  <2>3. CASE worker' = [worker EXCEPT ![w] = Chosen(w, "MERGED")]
    <3>1. /\ Chosen(w, "MERGED") \in WorkerType /\ worker'[w].pc = "recorded"
          /\ worker'[w].version = worker[w].version /\ worker'[w].result = "MERGED"
      BY <1>2, <2>3, ChosenIsFine DEF Results
    <3>2. MergedAsExpected'
      BY <1>2, <1>3, <1>4, <1>6, <2>1 DEF MergeAt, MergedAsExpected, HeadOf, OpenPulls
    <3>3. WorkerOK(w)'
      BY <1>2, <1>3, <1>4, <3>1, <3>2 DEF WorkerOK, Current, CurrentOK, Acts
    <3> QED BY <1>1, <1>2, <1>6, <2>2, <2>3, <3>1, <3>3, RequestKeeps
  <2>4. CASE worker' = [worker EXCEPT ![w] = Failing(w)]
    <3>1. worker'[w] = Failing(w)
      BY <1>2, <2>4
    <3> QED BY <1>1, <1>2, <1>5, <1>6, <2>2, <2>4, <3>1, RequestKeeps
  <2> QED BY <1>6, <2>3, <2>4
<1>7. CASE /\ worker' = [worker EXCEPT ![w] = Failing(w)]
           /\ late' \in IF expired THEN {late} ELSE {late, worker[w].sha}
           /\ pulls' = pulls
  <2>1. late' \in Heads
    BY <1>2, <1>7, DeliveryNumbers DEF WorkerType, Numbers, Heads, Foreign
  <2>2. GithubKeeps /\ MergedIsClosed'
    BY <1>2, <1>3, <1>7 DEF GithubKeeps, Shows, Known, HeadOf, MergedIsClosed
  <2>3. worker'[w] = Failing(w) /\ pulls' \in [1..MaxPull -> PullType]
    BY <1>2, <1>7
  <2> QED BY <1>1, <1>5, <1>7, <2>1, <2>2, <2>3, RequestKeeps
<1> QED BY <1>6, <1>7 DEF SubmitMerge

-----------------------------------------------------------------------------
(* The steps of the one worker that may be current: the others are late or  *)
(* idle, so only what the stage stands for is at stake.                     *)
LEMMA AloneKeeps ==
  ASSUME DeliveryInv, RowFree, NEW w \in Workers, holder \in {w, Nobody},
         NEW v \in WorkerType, worker[w].pc # "running", worker' = [worker EXCEPT ![w] = v],
         UNCHANGED <<state, version, tree, container, github, expired>>,
         holder' = w, state.status = "ACTIVE",
         state.stage \in {"VALIDATING", "PUBLISHING", "MERGING"},
         revision' \in Revision, revision <= revision', revision' <= tree.head,
         pull' \in 0..MaxPull, evidence' \subseteq [sha : Numbers, req : Nat, passed : BOOLEAN],
         state.stage = "MERGING" => UNCHANGED <<revision, pull, evidence>>,
         WorkerOK(w)'
  PROVE  DeliveryInv'
<1>0. /\ state' = state /\ version' = version /\ tree' = tree /\ container' = container
      /\ expired' = expired /\ branch' = branch /\ pulls' = pulls /\ clear' = clear
      /\ late' = late
  BY DEF github
<1>1. DeliveryTypeOK
  BY DEF DeliveryInv
<1>2. worker' \in [Workers -> WorkerType] /\ \A x \in Workers : x = w \/ worker'[x] = worker[x]
  BY <1>1 DEF DeliveryTypeOK
<1>3. DeliveryTypeOK'
  BY <1>0, <1>1, <1>2 DEF DeliveryTypeOK
<1>4. LeaseOK'
  BY <1>0, DeliveryNumbers DEF LeaseOK
<1>5. StageOK'
  <2>1. CASE state.stage = "MERGING"
    BY <1>0, <2>1 DEF DeliveryInv, StageOK, Reviewed, Shows, Known, HeadOf, Ready, AllPassed, Rows
  <2>2. CASE state.stage # "MERGING"
    BY <1>0, <2>2 DEF StageOK, Reviewed
  <2> QED BY <2>1, <2>2
<1>6. MergedIsClosed' /\ revision' <= tree'.head
  BY <1>0 DEF DeliveryInv, MergedIsClosed
<1>7. ContainerOK'
  <2>1. container.owner # Nobody => container.owner \in Workers
    BY <1>1 DEF DeliveryTypeOK, ContainerType
  <2>2. container.sha <= revision'
    BY <1>1, DeliveryNumbers
    DEF DeliveryInv, ContainerOK, DeliveryTypeOK, ContainerType, Numbers, Revision
  <2> QED
    BY <1>0, <1>2, <2>1, <2>2 DEF DeliveryInv, ContainerOK
<1>8. ASSUME NEW x \in Workers, x # w PROVE WorkerOK(x)'
  <2>1. worker'[x] = worker[x] /\ WorkerOK(x) /\ worker[x] \in WorkerType
    BY <1>1, <1>2, <1>8 DEF DeliveryInv, DeliveryTypeOK
  <2>2. ~ Current(x)
    BY <1>8, <2>1, DeliveryNumbers DEF WorkerOK, CurrentOK
  <2>3. ~ Acts(x, {"submitting"})
    BY DEF RowFree, Acts
  <2>4. Acts(x, {"loaded", "running"}) => worker[x].rev <= revision'
    BY <1>1, <2>1, DeliveryNumbers DEF WorkerOK, WorkerType, DeliveryTypeOK, Numbers, Revision
  <2> QED
    BY <1>0, <2>1, <2>2, <2>3, <2>4 DEF WorkerOK, Current, Acts
<1>9. \A x \in Workers : WorkerOK(x)'
  BY <1>8
<1> QED
  BY <1>3, <1>4, <1>5, <1>6, <1>7, <1>9 DEF DeliveryInv

LEMMA ClaimKeeps ==
  ASSUME DeliveryInv, NEW w \in Workers, Claim(w)
  PROVE  DeliveryInv'
<1> DEFINE v == [Idle EXCEPT !.pc = "claimed", !.phase = state.stage, !.version = version]
<1>1. /\ RowFree /\ worker[w].pc # "running" /\ holder = Nobody /\ holder' = w
      /\ state.status = "ACTIVE" /\ state.stage \in {"VALIDATING", "PUBLISHING", "MERGING"}
      /\ worker' = [worker EXCEPT ![w] = v]
      /\ UNCHANGED <<state, version, tree, container, github, expired>>
      /\ UNCHANGED <<revision, pull, evidence>>
  BY DEF Claim, row
<1>2. DeliveryTypeOK /\ version \in Nat
  BY DEF DeliveryInv, DeliveryTypeOK
<1>3. Idle \in WorkerType
  BY DeliveryNumbers DEF Idle, WorkerType, Phases, Numbers, Results
<1>4. v \in WorkerType
  BY <1>1, <1>2, <1>3 DEF WorkerType, Phases
<1>5. v.pc = "claimed" /\ v.phase = state.stage /\ v.version = version
  BY DEF Idle
<1>6. worker'[w] = v
  BY <1>1, <1>2 DEF DeliveryTypeOK
<1> HIDE DEF v
<1>7. WorkerOK(w)'
  BY <1>1, <1>2, <1>5, <1>6 DEF WorkerOK, Current, CurrentOK, Acts
<1>8. /\ revision' \in Revision /\ revision <= revision' /\ revision' <= tree.head
      /\ pull' \in 0..MaxPull /\ evidence' \subseteq [sha : Numbers, req : Nat, passed : BOOLEAN]
  BY <1>1, <1>2, DeliveryNumbers DEF DeliveryInv, DeliveryTypeOK, Revision
<1> QED
  BY <1>1, <1>4, <1>7, <1>8, AloneKeeps

LEMMA RecordValidationKeeps ==
  ASSUME DeliveryInv, NEW w \in Workers, RecordValidation(w)
  PROVE  DeliveryInv'
<1>1. /\ RowFree /\ worker[w].pc = "ran" /\ worker[w].phase = "VALIDATING"
      /\ UNCHANGED <<state, version, pull, tree, lease, container, github>>
  BY DEF RecordValidation
<1>2. CASE worker[w].version = version
  <2>1. PICK result \in {"VALIDATION_FAILED", "VALIDATION_PASSED"} :
          worker' = [worker EXCEPT ![w] = Chosen(w, result)]
    BY <1>2 DEF RecordValidation
  <2>2. /\ evidence' = evidence \cup {[sha |-> worker[w].sha, req |-> worker[w].req,
                                       passed |-> worker[w].passed]}
        /\ revision' = worker[w].sha
    BY <1>2 DEF RecordValidation
  <2>3. /\ WorkerOK(w) /\ CurrentOK(w) /\ worker[w] \in WorkerType
        /\ worker \in [Workers -> WorkerType] /\ DeliveryTypeOK
    BY <1>2 DEF DeliveryInv, DeliveryTypeOK, WorkerOK, Current
  <2>4. holder = w /\ state.stage = "VALIDATING" /\ revision <= worker[w].sha
        /\ worker[w].sha \in 1..tree.head
    BY <1>1, <2>3 DEF WorkerOK, CurrentOK, Acts
  <2>5. state.status = "ACTIVE"
    BY <2>4, DeliveryNumbers DEF DeliveryInv, LeaseOK
  <2>6. /\ Chosen(w, result) \in WorkerType /\ worker'[w].pc = "recorded"
        /\ worker'[w].version = worker[w].version /\ worker'[w].result = result
    BY <2>1, <2>3, ChosenIsFine DEF Results
  <2>7. revision' \in Revision /\ revision <= revision' /\ revision' <= tree.head
    BY <2>2, <2>3, <2>4, DeliveryNumbers DEF DeliveryTypeOK, Revision
  <2>8. evidence' \subseteq [sha : Numbers, req : Nat, passed : BOOLEAN]
    BY <2>2, <2>3 DEF DeliveryTypeOK, WorkerType
  <2>9. holder' = w /\ expired' = expired /\ pull' \in 0..MaxPull /\ state' = state
        /\ version' = version
    BY <1>1, <2>3, <2>4 DEF lease, DeliveryTypeOK
  <2>10. WorkerOK(w)'
    BY <1>2, <2>3, <2>4, <2>6, <2>9 DEF WorkerOK, Current, CurrentOK, Acts
  <2>11. UNCHANGED <<state, version, tree, container, github, expired>>
    BY <1>1, <2>9
  <2> QED
    BY <1>1, <2>1, <2>4, <2>5, <2>6, <2>7, <2>8, <2>9, <2>10, <2>11, AloneKeeps
<1>3. CASE worker[w].version # version
  <2>1. worker' = [worker EXCEPT ![w] = Failing(w)]
        /\ UNCHANGED <<row, evidence, tree, lease, github>>
    BY <1>1, <1>3 DEF RecordValidation, row
  <2> QED BY <1>1, <2>1, QuitKeeps
<1> QED BY <1>2, <1>3

LEMMA RecordPullKeeps ==
  ASSUME DeliveryInv, NEW w \in Workers, RecordPull(w)
  PROVE  DeliveryInv'
<1>1. /\ RowFree /\ worker[w].pc = "opened"
      /\ UNCHANGED <<state, version, revision, evidence, tree, lease, container, github>>
  BY DEF RecordPull
<1>2. CASE worker[w].version = version
  <2>1. worker' = [worker EXCEPT ![w] = Chosen(w, "PUBLISHED")] /\ pull' = worker[w].pull
    BY <1>2 DEF RecordPull
  <2>2. /\ WorkerOK(w) /\ CurrentOK(w) /\ worker[w] \in WorkerType
        /\ worker \in [Workers -> WorkerType] /\ DeliveryTypeOK /\ revision <= tree.head
    BY <1>2 DEF DeliveryInv, DeliveryTypeOK, WorkerOK, Current
  <2>3. holder = w /\ state.stage = "PUBLISHING" /\ Shows(worker[w].pull) /\ Ready
    BY <1>1, <2>2 DEF CurrentOK, Acts
  <2>4. state.status = "ACTIVE"
    BY <2>3, DeliveryNumbers DEF DeliveryInv, LeaseOK
  <2>5. /\ Chosen(w, "PUBLISHED") \in WorkerType /\ worker'[w].pc = "recorded"
        /\ worker'[w].version = worker[w].version /\ worker'[w].result = "PUBLISHED"
    BY <2>1, <2>2, ChosenIsFine DEF Results
  <2>6. /\ holder' = w /\ expired' = expired /\ pull' \in 0..MaxPull /\ state' = state
        /\ version' = version /\ revision' = revision /\ evidence' = evidence
        /\ branch' = branch /\ pulls' = pulls
    BY <1>1, <2>1, <2>2, <2>3 DEF lease, github, WorkerType
  <2>7. Shows(pull)' /\ Ready'
    BY <2>1, <2>3, <2>6 DEF Shows, Known, HeadOf, Ready, AllPassed, Rows
  <2>8. WorkerOK(w)'
    BY <1>2, <2>2, <2>3, <2>5, <2>6, <2>7 DEF WorkerOK, Current, CurrentOK, Acts
  <2>9. /\ UNCHANGED <<state, version, tree, container, github, expired>>
        /\ revision' \in Revision /\ revision <= revision' /\ revision' <= tree.head
        /\ evidence' \subseteq [sha : Numbers, req : Nat, passed : BOOLEAN]
    BY <1>1, <2>2, <2>6, DeliveryNumbers DEF DeliveryTypeOK, Revision
  <2> QED
    BY <1>1, <2>1, <2>3, <2>4, <2>5, <2>6, <2>8, <2>9, AloneKeeps
<1>3. CASE worker[w].version # version
  <2>1. worker' = [worker EXCEPT ![w] = Failing(w)]
        /\ UNCHANGED <<row, evidence, tree, lease, github>>
    BY <1>1, <1>3 DEF RecordPull, row
  <2> QED BY <1>1, <2>1, QuitKeeps
<1> QED BY <1>2, <1>3

LEMMA ExpireKeeps ==
  ASSUME DeliveryInv, Expire
  PROVE  DeliveryInv'
<1>1. /\ state' = state /\ version' = version /\ revision' = revision /\ pull' = pull
      /\ evidence' = evidence /\ tree' = tree /\ holder' = holder /\ worker' = worker
      /\ container' = container /\ branch' = branch /\ pulls' = pulls /\ clear' = clear
      /\ late' = late /\ expired' = TRUE /\ holder # Nobody
  BY DEF Expire, row, github
<1>2. DeliveryTypeOK'
  BY <1>1 DEF DeliveryInv, DeliveryTypeOK
<1>3. LeaseOK'
  BY <1>1 DEF DeliveryInv, LeaseOK
<1>4. StageOK' /\ MergedIsClosed' /\ ContainerOK' /\ revision' <= tree'.head
  BY <1>1 DEF DeliveryInv, StageOK, MergedIsClosed, ContainerOK, Ready, AllPassed, Rows, Shows,
              Known, HeadOf, MergedAsExpected
<1>5. ASSUME NEW w \in Workers PROVE WorkerOK(w)'
  BY <1>1 DEF DeliveryInv, WorkerOK, Current, CurrentOK, Acts, Ready, AllPassed, Rows, Shows,
              Known, HeadOf, MergedAsExpected
<1> QED BY <1>2, <1>3, <1>4, <1>5 DEF DeliveryInv

LEMMA DeliveryStepKeeps == DeliveryInv /\ [Next]_vars => DeliveryInv'
<1> SUFFICES ASSUME DeliveryInv, [Next]_vars PROVE DeliveryInv'
  OBVIOUS
<1>1. ASSUME NEW a \in Commands, Control(a) PROVE DeliveryInv'
  BY <1>1, ControlKeeps
<1>2. CASE Revise \/ DeveloperTurn
  BY <1>2, ReviseKeeps, DeveloperTurnKeeps
<1>3. ASSUME NEW w \in Workers, WorkerStep(w) PROVE DeliveryInv'
  <2>1. CASE Load(w) \/ StartContainer(w) \/ RecordValidation(w)
    BY <2>1, LoadKeeps, StartContainerKeeps, RecordValidationKeeps
  <2>2. CASE OpenPull(w) \/ RecordPull(w)
    BY <2>2, OpenPullKeeps, RecordPullKeeps
  <2>3. CASE DecideMerge(w) \/ SubmitMerge(w)
    BY <2>3, DecideMergeKeeps, SubmitMergeKeeps
  <2>4. CASE Complete(w) \/ DropResult(w) \/ Block(w)
    BY <2>4, CompleteKeeps, DropResultKeeps, BlockStepKeeps
  <2> QED BY <1>3, <2>1, <2>2, <2>3, <2>4 DEF WorkerStep
<1>4. ASSUME NEW w \in Workers, Claim(w) \/ FailPhase(w) \/ Crash(w) PROVE DeliveryInv'
  BY <1>4, ClaimKeeps, FailPhaseKeeps, CrashKeeps
<1>5. CASE Expire \/ Recover \/ Sweep
  BY <1>5, ExpireKeeps, RecoverKeeps, SweepKeeps
<1>6. CASE RunChecks \/ Push
  BY <1>6, RunChecksKeeps, PushKeeps
<1>7. CASE ReviewFeedback \/ Recheck
  BY <1>7, ReviewStepsKeep
<1>8. CASE Review \/ ForeignPush \/ HumanMerge \/ LateMerge
  BY <1>8, GithubActionsKeep
<1>9. CASE UNCHANGED vars
  <2>1. Unrelated /\ UNCHANGED github
    BY <1>9 DEF vars, Unrelated
  <2>2. /\ revision' = revision /\ branch' = branch /\ pulls' = pulls /\ clear' = clear
        /\ late' = late
    BY <2>1 DEF Unrelated, row, github
  <2>3. GithubKeeps /\ MergedIsClosed'
    BY <2>2 DEF GithubKeeps, Shows, Known, HeadOf, DeliveryInv, MergedIsClosed
  <2> QED BY <2>1, <2>2, <2>3, GithubStepKeeps DEF DeliveryInv, DeliveryTypeOK
<1> QED
  BY <1>1, <1>2, <1>3, <1>4, <1>5, <1>6, <1>7, <1>8, <1>9 DEF Next

LEMMA DeliveryInvariant == Spec => []DeliveryInv
BY DeliveryInitOK, DeliveryStepKeeps, PTL DEF Spec

(* MERGED is delivered, whatever answers were lost and whoever merged: the   *)
(* task's pull request is merged at the recorded revision, which passed its  *)
(* checks for the requirement the task ended with (workflow.py merge_phase,  *)
(* engineering_events.py, complete()).                                      *)
THEOREM MergedWorkIsDelivered == Spec => []MergedIsDelivered
<1>1. DeliveryInv => MergedIsDelivered
  <2> SUFFICES ASSUME DeliveryInv, state.status = "MERGED"
               PROVE  /\ pull > 0 /\ pulls[pull].merged /\ pulls[pull].head = revision
                      /\ AllPassed(revision, state.req)
    BY DEF MergedIsDelivered
  <2>1. state.stage = "COMPLETE"
    BY DEF DeliveryInv, DeliveryTypeOK, Consistent
  <2>2. Shows(pull) /\ Ready /\ MergedAsExpected
    BY <2>1 DEF DeliveryInv, StageOK, Reviewed
  <2>3. pull \in 1..MaxPull /\ pulls[pull].merged /\ ~ pulls[pull].open
    BY <2>2 DEF Shows, MergedAsExpected, DeliveryInv, MergedIsClosed
  <2> QED BY <2>2, <2>3, DeliveryNumbers DEF Ready, MergedAsExpected, HeadOf
<1> QED BY <1>1, DeliveryInvariant, PTL

(* While a task is under review or merging, its pull request shows the       *)
(* recorded revision, validated for the present requirement, or a commit of  *)
(* somebody else: no late push, pull request or result moves any of them     *)
(* (validation_phase.py, publication.py, github.py, git_runner.py).          *)
THEOREM ReviewedIsValidated == Spec => []ReviewedHeadIsOurs
<1>1. DeliveryInv => ReviewedHeadIsOurs
  BY DeliveryNumbers
  DEF DeliveryInv, StageOK, Reviewed, ReviewedHeadIsOurs, Shows, Ready
<1> QED BY <1>1, DeliveryInvariant, PTL

(* A merge request leaves only for a task that is active and merging, at its *)
(* revision and pull request and with its evidence: merge_phase() keeps the  *)
(* rows locked from the check to the answer.                                *)
THEOREM SubmitsWhatIsAuthorized == Spec => SubmitsOnlyAuthorized
<1>1. ASSUME DeliveryInv, NEW w \in Workers, worker[w].pc = "submitting"
      PROVE  /\ state.status = "ACTIVE" /\ state.stage = "MERGING"
             /\ revision = worker[w].sha /\ pull = worker[w].pull
             /\ AllPassed(revision, state.req)
  <2>1. WorkerOK(w)
    BY <1>1 DEF DeliveryInv
  <2>2. /\ state.stage = "MERGING" /\ holder = w /\ worker[w].sha = revision
        /\ worker[w].pull = pull
    BY <1>1, <2>1 DEF WorkerOK, Acts, CurrentOK
  <2>3. state.status = "ACTIVE" /\ Ready
    BY <1>1, <2>2, DeliveryNumbers DEF DeliveryInv, LeaseOK, StageOK, Reviewed
  <2> QED BY <2>2, <2>3 DEF Ready
<1>2. DeliveryInv /\ [Next]_vars =>
        [\A w \in Workers :
           worker[w].pc = "submitting" /\ (pulls' # pulls \/ late' # late)
             /\ worker'[w].pc # "submitting" =>
               /\ state.status = "ACTIVE"
               /\ state.stage = "MERGING"
               /\ revision = worker[w].sha
               /\ pull = worker[w].pull
               /\ AllPassed(revision, state.req)]_vars
  BY <1>1
<1> QED
  BY <1>2, DeliveryInitOK, DeliveryStepKeeps, PTL DEF Spec, SubmitsOnlyAuthorized
=============================================================================
