------------------------------ MODULE PatchTurn ------------------------------
(***************************************************************************)
(* The patch harness: one generation of a Developer session that buys      *)
(* whole patches instead of opening a coding session.  A turn tries two    *)
(* patches at once (the fast path) or investigates, plans and composes     *)
(* units; a later turn of the generation may only apply what was bought.   *)
(* Sources: agent_runtime/infrastructure/{patch_pipeline, adaptive_patch,  *)
(* bounded_inference, patch_tools, patch_evidence, patch_preflight,        *)
(* patch_recovery, responses}, agent_runtime/domain/repair_progress.       *)
(*                                                                         *)
(* `stage` is the method of AdaptivePatchExecution or PatchPipelineHarness *)
(* that runs, `step` the await it is at.  A crash loses everything but the *)
(* history file, the workspace and what the provider charged.              *)
(***************************************************************************)
EXTENDS Integers, Sequences, FiniteSets

CONSTANTS
  PatchChecks,     \* names of developer checks
  PatchAllowance,  \* max_cost_usd of the turn
  PatchWorst,      \* bound of one request, and what it may really cost:
  PatchCharges,
  MaxCalls,        \* model calls of an adaptive turn (16)
  MaxUnits,        \* work units attempted in a turn (6)
  MaxAttempts,     \* attempts of a unit (4)
  MaxReplans,      \* token_policy.adaptive_replans
  PatchTurns,      \* bound: turns of the generation
  PatchEdits       \* bound: changes of the workspace

ASSUME PatchAssumption ==
  /\ IsFiniteSet(PatchChecks) /\ PatchChecks # {}
  /\ PatchAllowance \in Nat /\ PatchWorst \in Nat \ {0}
  /\ PatchCharges \subseteq 0..PatchWorst
  /\ {MaxCalls, MaxUnits, MaxAttempts, MaxReplans, PatchTurns, PatchEdits} \subseteq Nat

VARIABLES
  stage, step,
  saved,    \* the history file of the generation
  heard,    \* the history in memory
  ledger,   \* totals and admissions of this turn
  unit,     \* the composition in memory
  diff,     \* fingerprint of the workspace
  tested,   \* harness.checks
  receipts, \* the AIRuns of the generation's earlier turns
  charges,  \* what the provider charged, by turn
  changed   \* the governor's diff_changes in this turn

patchVars == <<stage, step, saved, heard, ledger, unit, diff, tested, receipts, charges, changed>>

NoHistory == [requests |-> 0, last |-> "none", rejected |-> FALSE,
              answered |-> FALSE, recovered |-> FALSE]
NoLedger  == [spent |-> 0, due |-> 0, calls |-> 0, uncertain |-> FALSE, cycles |-> 0]
NoUnit    == [queue |-> 0, attempted |-> 0, replans |-> 0,
              round |-> 0, previous |-> {}]
NoChecks  == [passed |-> FALSE, diff |-> -1]

PatchInit ==
  /\ stage = "none" /\ step = "idle"
  /\ saved = NoHistory /\ heard = NoHistory
  /\ ledger = NoLedger /\ unit = NoUnit
  /\ diff = 0 /\ tested = NoChecks
  /\ receipts = <<>> /\ charges = [n \in 1..PatchTurns |-> 0]
  /\ changed = 0

Turn == Len(receipts) + 1
At(st, sp) == stage = st /\ step = sp
Goto(st, sp) == stage' = st /\ step' = sp
Keeps(h) == heard' = h /\ saved' = h
Notes(kind) == Keeps([heard EXCEPT !.last = kind])

(* The receipt of the turn: an uncertain request makes the usage unknown.   *)
Report(failure, l, e, d) ==
  /\ receipts' = Append(receipts,
       [failure |-> failure, known |-> ~l.uncertain, spent |-> l.spent,
        cycles |-> l.cycles, changed |-> changed, checked |-> e, diff |-> d])
  /\ ledger' = l /\ tested' = e /\ diff' = d
  /\ Goto("none", "idle")
  /\ UNCHANGED <<unit, charges, changed>>

(* Every adaptive end is noted in the history, a fast one leaves it as is.  *)
Result == IF stage = "fast" THEN heard ELSE [heard EXCEPT !.last = "result"]
Ends(failure) == Report(failure, ledger, tested, diff) /\ Keeps(Result)

-----------------------------------------------------------------------------
(* Which generation another turn may resume without new feedback: one whose *)
(* turns were never charged, or left one rejected patch behind.             *)
Unspent(r) == r.failure = "PATCH_FAILED" /\ r.known /\ r.spent = 0 /\ r.cycles = 0
Rejected(r) ==
  /\ r.failure = "PATCH_LIMIT" /\ r.known /\ r.changed = 0
  /\ r.checked = NoChecks /\ r.cycles \in {1, 2}
CanResume == \A i \in DOMAIN receipts : Unspent(receipts[i]) \/ Rejected(receipts[i])

(* recover_saved_patch(): only for a patch whose application was rejected,  *)
(* once, and recorded before it starts.                                     *)
Recoverable(h) == h.last = "checks" /\ h.rejected /\ h.answered /\ ~h.recovered

Fresh(h) == ledger' = NoLedger /\ unit' = NoUnit /\ tested' = NoChecks /\ changed' = 0

RunTurnPatch ==
  /\ step = "idle" /\ Turn <= PatchTurns
  /\ Fresh(saved)
  /\ IF saved.requests = 0
     THEN /\ \E st \in {"fast", "survey", "explore"} : Goto(st, "prepare")
          /\ heard' = saved /\ UNCHANGED <<saved, receipts>>
     ELSE IF Recoverable(saved)
     THEN /\ Goto("recovery", "apply")
          /\ Keeps([saved EXCEPT !.recovered = TRUE, !.last = "recovery"])
          /\ UNCHANGED receipts
     ELSE /\ receipts' = Append(receipts,
               [failure |-> "PATCH_ALREADY_ATTEMPTED", known |-> TRUE, spent |-> 0,
                cycles |-> 0, changed |-> 0, checked |-> NoChecks, diff |-> diff])
          /\ heard' = saved /\ UNCHANGED <<stage, step, saved>>
  /\ UNCHANGED <<diff, charges>>

(* The turn is resumed as it is, or with a delta of the operator.           *)
ResumePatch == CanResume /\ RunTurnPatch
FollowUp == receipts # <<>> /\ ~CanResume /\ RunTurnPatch

-----------------------------------------------------------------------------
(* A BoundedStop: planning and units may be planned again while allowances  *)
(* last and all usage is known, everything else ends the turn.              *)
MayReplan(code) ==
  /\ stage \in {"plan", "unit"} /\ code \in {"PATCH_STALLED", "PATCH_BLOCKED"}
  /\ unit.replans < MaxReplans /\ unit.attempted < MaxUnits
NextPlan == [unit EXCEPT !.replans = @ + 1, !.queue = 0, !.round = 0]
Replan ==
  /\ unit' = NextPlan
  /\ Notes("replan") /\ Goto("explore", "prepare")
  /\ UNCHANGED <<ledger, tested, receipts, charges, changed>>
Stops(code, d) ==
  IF MayReplan(code) /\ ~ledger.uncertain THEN Replan /\ diff' = d
  ELSE Report(code, ledger, tested, d) /\ Keeps(Result)

(* What prepare() makes of the sources, with the preflight of their checkers. *)
Packets == {"ready", "not localized", "no checker"}
PrepareFast ==
  /\ At("fast", "prepare")
  /\ \E packet \in Packets :
       IF packet = "no checker" THEN Ends("PATCH_TOOL_FAILURE")
       ELSE IF packet = "not localized" /\ unit.round > 0 THEN Ends("PATCH_FAILED")
       ELSE /\ IF packet = "ready" THEN Goto("fast", "buy") ELSE Goto("explore", "prepare")
            /\ UNCHANGED <<heard, saved, ledger, unit, diff, tested, receipts, charges, changed>>

PrepareUnit ==
  /\ stage \in {"unit", "repair"} /\ step = "prepare"
  /\ \/ Goto(stage, "buy") /\ UNCHANGED <<heard, saved, ledger, unit, diff, tested, receipts, charges, changed>>
     \/ \E code \in {"PATCH_BLOCKED", "PATCH_TOOL_FAILURE"} : Stops(code, diff)

(* survey() of the repository before planning or investigating.             *)
Survey ==
  /\ stage \in {"survey", "explore"} /\ step = "prepare"
  /\ \/ /\ Goto(IF stage = "survey" THEN "plan" ELSE "investigate", "buy")
        /\ UNCHANGED <<heard, saved, ledger, unit, diff, tested, receipts, charges, changed>>
     \/ Ends(IF unit.replans > 0 THEN "PATCH_TOOL_FAILURE" ELSE "PATCH_BLOCKED")

(* inspect() of the sources an investigation asked for.                     *)
Inspect ==
  /\ At("investigate", "prepare")
  /\ \/ Goto("investigate", "buy") /\ UNCHANGED <<heard, saved, ledger, unit, diff, tested, receipts, charges, changed>>
     \/ Ends("PATCH_TOOL_FAILURE")

-----------------------------------------------------------------------------
(* Mutant: the admission is written to disk with the answer.                *)
AdmitsUnsaved == heard' = [heard EXCEPT !.requests = @ + 1, !.last = "request"] /\ UNCHANGED saved

(* The admission is on disk before the network is used, and the usage is    *)
(* unknown until it is read.                                                *)
Admits == Keeps([heard EXCEPT !.requests = @ + 1, !.last = "request"])

Sends ==
  /\ Admits /\ Goto(stage, "sent")
  /\ \E c \in PatchCharges :
       /\ charges' = [charges EXCEPT ![Turn] = @ + c]
       /\ ledger' = [ledger EXCEPT !.calls = @ + 1, !.uncertain = TRUE, !.due = c]
  /\ UNCHANGED <<unit, diff, tested, receipts, changed>>

Affordable == ledger.spent + PatchWorst <= PatchAllowance

FastRequest ==
  /\ At("fast", "buy")
  /\ IF Affordable THEN Sends \/ Ends("TURN_INPUT_LIMIT") ELSE Ends("BUDGET_LIMIT")

Generate ==
  /\ stage \in {"investigate", "plan", "unit", "repair"} /\ step = "buy"
  /\ IF ledger.uncertain THEN Stops("USAGE_INCOMPLETE", diff)
     ELSE IF ledger.calls >= MaxCalls THEN Stops("PATCH_LIMIT", diff)
     ELSE IF ~Affordable THEN Stops("BUDGET_LIMIT", diff)
     ELSE Sends \/ Stops("TURN_INPUT_LIMIT", diff)

(* What a request cost is known once its usage is: it is added before the   *)
(* artifact is looked at.                                                   *)
Metered == [ledger EXCEPT !.spent = @ + ledger.due, !.due = 0, !.uncertain = FALSE, !.cycles = @ + 1]
(* Mutant: a plan starts with an empty ledger.                              *)
HandedOverAfresh == NoLedger

(* What AdaptivePatchExecution takes over from the fast path.               *)
HandedOver == [Metered EXCEPT !.calls = heard.requests]

(* An answer without usage ends the turn with what is known; one that is    *)
(* not a complete artifact is charged and ends it too.                      *)
Spoiled(failure) == Report(failure, Metered, tested, diff) /\ Keeps(Result)
BadAnswer ==
  /\ step = "sent"
  /\ \/ Ends("USAGE_INCOMPLETE")
     \/ \E f \in {"RESPONSE_INCOMPLETE", "PATCH_FAILED"} : Spoiled(f)

(* Two patches at most; an answer that is no patch is handed over to a      *)
(* plan, with what it cost.                                                 *)
FastAnswer ==
  /\ At("fast", "sent")
  /\ saved' = [heard EXCEPT !.last = "usage"]
  /\ heard' = [heard EXCEPT !.last = "response", !.answered = TRUE]
  /\ \/ Goto("fast", "apply") /\ ledger' = Metered /\ UNCHANGED unit
     \/ Goto("survey", "prepare") /\ ledger' = HandedOver /\ unit' = NoUnit
  /\ UNCHANGED <<diff, tested, receipts, charges, changed>>

(* The stop that an artifact without a patch, a plan or a finding raises,   *)
(* once its usage is known.                                                 *)
Refuses(code) ==
  IF MayReplan(code)
  THEN /\ unit' = NextPlan /\ ledger' = Metered
       /\ Notes("replan") /\ Goto("explore", "prepare")
       /\ UNCHANGED <<diff, tested, receipts, charges, changed>>
  ELSE Spoiled(code)

Understood(st, sp, u) ==
  /\ Goto(st, sp) /\ ledger' = Metered /\ unit' = u /\ Notes("usage")
  /\ UNCHANGED <<diff, tested, receipts, charges, changed>>

(* Two requests: the second one has to be ready.                            *)
InvestigationAnswer ==
  /\ At("investigate", "sent")
  /\ \/ Understood("plan", "buy", unit)
     \/ unit.round = 0 /\ Understood("investigate", "prepare", [unit EXCEPT !.round = 1])
     \/ Refuses("PATCH_BLOCKED")

(* A graph of units in an order of their dependencies.                      *)
PlanAnswer ==
  /\ At("plan", "sent")
  /\ \/ \E n \in 1..MaxUnits :
          IF n > MaxUnits - unit.attempted THEN Spoiled("PATCH_LIMIT")
          ELSE Understood("unit", "prepare",
                 [unit EXCEPT !.queue = n, !.attempted = @ + 1, !.round = 0, !.previous = {}])
     \/ \E code \in {"PATCH_BLOCKED", "PATCH_FAILED"} : Refuses(code)

UnitAnswer ==
  /\ stage \in {"unit", "repair"} /\ step = "sent"
  /\ Understood(stage, "apply", unit) \/ Refuses("PATCH_BLOCKED")

-----------------------------------------------------------------------------
Edited(d) == diff' = d /\ changed' = IF d # diff THEN changed + 1 ELSE changed

(* apply(): all edits of the patch or none, against the hashes the packet   *)
(* had; a patch may also be empty.                                          *)
Leaves == {d \in {diff, diff + 1} : d <= PatchEdits}
Applies == \E d \in Leaves : Edited(d)
ApplyFast ==
  /\ At("fast", "apply")
  /\ \/ /\ Applies
        /\ Goto("fast", "check") /\ UNCHANGED <<heard, saved, unit, receipts>>
        /\ UNCHANGED <<ledger, tested, charges>>
     \/ \E rejected \in BOOLEAN :
          LET h == [heard EXCEPT !.last = "checks", !.rejected = rejected]
          IN  IF unit.round = 0
              THEN /\ Goto("fast", "prepare") /\ Keeps(h) /\ unit' = [unit EXCEPT !.round = 1]
                   /\ UNCHANGED <<ledger, diff, tested, receipts, charges, changed>>
              ELSE Report("PATCH_LIMIT", ledger, tested, diff) /\ Keeps(h)

ApplySaved ==
  /\ At("recovery", "apply")
  /\ \/ /\ Applies
        /\ Goto("recovery", "check")
        /\ UNCHANGED <<heard, saved, ledger, unit, tested, receipts, charges>>
     \/ Ends("PATCH_RECOVERY_FAILED")

(* A second rejection of a unit's patch stalls it.                          *)
Again(failing, d) ==
  /\ Goto(stage, "prepare") /\ Notes("other") /\ diff' = d
  /\ unit' = [unit EXCEPT !.round = @ + 1, !.previous = failing]
  /\ UNCHANGED <<ledger, tested, receipts, charges, changed>>
ApplyUnit ==
  /\ stage \in {"unit", "repair"} /\ step = "apply"
  /\ \/ /\ Applies
        /\ Goto(stage, "check")
        /\ UNCHANGED <<heard, saved, ledger, unit, tested, receipts, charges>>
     \/ Ends("PATCH_FAILED")
     \/ IF stage = "repair" THEN Ends("PATCH_LIMIT")
        ELSE IF unit.round >= 1 THEN Stops("PATCH_STALLED", diff)
        ELSE Again(unit.previous, diff)

(* Checks may reformat; what they say is about the workspace they leave.    *)
Seen(ok, d) == [passed |-> ok, diff |-> d]
Concludes(failure, d) == Report(failure, ledger, Seen(failure = "none", d), d)
Goes(st, u, d) ==
  /\ Goto(st, "prepare") /\ unit' = u /\ diff' = d /\ tested' = Seen(FALSE, d)
  /\ UNCHANGED <<ledger, receipts, charges, changed>>

CheckFast ==
  /\ At("fast", "check")
  /\ \E d \in Leaves :
       \/ \E f \in {"none", "PATCH_TOOL_FAILURE"} : Concludes(f, d) /\ Keeps(heard)
       \/ /\ Keeps([heard EXCEPT !.last = "checks", !.rejected = FALSE])
          /\ IF unit.round > 0 THEN Concludes("PATCH_LIMIT", d)
             ELSE Goes("fast", [unit EXCEPT !.round = 1], d)

(* The checks of a recovered patch carry no fingerprint of the workspace;   *)
(* the one named here is the workspace they ran in.                         *)
CheckSaved ==
  /\ At("recovery", "check")
  /\ \E d \in Leaves, f \in {"none", "PATCH_RECOVERY_FAILED"} : Concludes(f, d) /\ Keeps(Result)

(* repair_allowance(): only fewer failing checks earn another attempt.      *)
RepairAllowance(failing) ==
  IF unit.round + 1 >= (IF stage = "repair" THEN 1 ELSE MaxAttempts) THEN "PATCH_STALLED"
  ELSE IF unit.previous = {} \/ (failing \subseteq unit.previous /\ failing # unit.previous)
  THEN "CONTINUE"
  ELSE IF failing \subseteq unit.previous THEN "PATCH_STALLED" ELSE "PATCH_REGRESSING"

NextUnit(d) ==
  /\ IF unit.queue > 1
     THEN /\ Goto("unit", "prepare")
          /\ unit' = [unit EXCEPT !.queue = @ - 1, !.attempted = @ + 1, !.round = 0, !.previous = {}]
     ELSE Goto(IF stage = "unit" THEN "integrate" ELSE "recheck", "check") /\ unit' = [unit EXCEPT !.queue = 0]
  /\ Notes("other") /\ diff' = d
  /\ UNCHANGED <<ledger, tested, receipts, charges, changed>>

(* The checks of a unit are no evidence of the whole.                       *)
CheckUnit ==
  /\ stage \in {"unit", "repair"} /\ step = "check"
  /\ \E d \in Leaves :
       \/ Stops("PATCH_TOOL_FAILURE", d)
       \/ NextUnit(d)
       \/ \E failing \in SUBSET PatchChecks \ {{}} :
            IF RepairAllowance(failing) = "CONTINUE" THEN Again(failing, d)
            ELSE Stops(RepairAllowance(failing), d)

Repairs(d) ==
  /\ stage = "integrate" /\ Goes("repair", [unit EXCEPT !.round = 0, !.previous = {}], d)
  /\ Notes("other")

(* Mutant: an integration repair that passes its own checks completes.      *)
IntegrateUnchecked ==
  /\ stage \in {"integrate", "recheck"} /\ step = "check"
  /\ IF stage = "recheck" THEN Ends("none")
     ELSE \E d \in Leaves :
       \/ \E f \in {"none", "PATCH_TOOL_FAILURE", "PATCH_LIMIT"} : Concludes(f, d) /\ Keeps(Result)
       \/ Repairs(d)

(* The integration checks, one repair within three files, and once more.    *)
Integrate ==
  /\ stage \in {"integrate", "recheck"} /\ step = "check"
  /\ \E d \in Leaves :
       \/ \E f \in {"none", "PATCH_TOOL_FAILURE", "PATCH_LIMIT"} : Concludes(f, d) /\ Keeps(Result)
       \/ Repairs(d)

-----------------------------------------------------------------------------
(* A timeout, a cancellation or a tool that fails ends the turn.            *)
Breaks ==
  /\ step # "idle"
  /\ Ends(IF stage = "recovery" THEN "PATCH_RECOVERY_FAILED" ELSE "PATCH_FAILED")

(* The runner dies: no receipt, and the AIRun is later interrupted.         *)
PatchCrash ==
  /\ step # "idle"
  /\ receipts' = Append(receipts,
       [failure |-> "INTERRUPTED", known |-> FALSE, spent |-> 0, cycles |-> 0,
        changed |-> 0, checked |-> NoChecks, diff |-> diff])
  /\ Goto("none", "idle") /\ heard' = saved
  /\ UNCHANGED <<saved, ledger, unit, diff, tested, charges, changed>>

PatchNext ==
  \/ ResumePatch \/ FollowUp
  \/ PrepareFast \/ PrepareUnit \/ Survey \/ Inspect
  \/ FastRequest \/ Generate
  \/ BadAnswer \/ FastAnswer \/ InvestigationAnswer \/ PlanAnswer \/ UnitAnswer
  \/ ApplyFast \/ ApplySaved \/ ApplyUnit
  \/ CheckFast \/ CheckSaved \/ CheckUnit \/ Integrate
  \/ Breaks \/ PatchCrash

PatchSpec == PatchInit /\ [][PatchNext]_patchVars

-----------------------------------------------------------------------------
(* "crashes cannot silently repeat a request": at most one turn of a        *)
(* generation ever pays, whatever crashes, is resumed or followed up.       *)
BoughtOnce == Cardinality({n \in DOMAIN charges : charges[n] > 0}) <= 1

(* A receipt that says it knows its usage tells all of it, over the fast    *)
(* path, its continuation, plans and replans.                               *)
ReceiptIsHonest ==
  \A i \in DOMAIN receipts : receipts[i].known => receipts[i].spent = charges[i]

(* IMPLEMENTED is reported only with passing checks of the very workspace   *)
(* that the turn leaves behind.                                             *)
ImplementedIsChecked ==
  \A i \in DOMAIN receipts :
    receipts[i].failure = "none" =>
      receipts[i].checked = [passed |-> TRUE, diff |-> receipts[i].diff]
=============================================================================
