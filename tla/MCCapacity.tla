----------------------------- MODULE MCCapacity -----------------------------
(* What may run at once and what may be spent, for TLC: the slots of Teams  *)
(* and controllers, and the budgets.  The two share no state and are        *)
(* checked in one run: each behaviour is one of either.                     *)
EXTENDS PhaseJobs, Budget, TLC

CONSTANTS t1, t2, r1, r2, f1, f2, f3, m1, m2

(* Two tasks of one Team competing for its capacity and for global slots.   *)
TwoTeamOf     == (t1 :> m1) @@ (t2 :> m1)
TwoRequires   == (t1 :> {}) @@ (t2 :> {})
OneCapacity   == (m1 :> 1)
Reasons       == {"MISSING_CONFIGURATION"}
SlotSymmetry  == Permutations({r1, r2}) \cup Permutations({t1, t2})

(* Two tasks of one Team and one of another, and requests whose roles and   *)
(* tasks cover the pairs that may meet.                                     *)
Belongs == (f1 :> m1) @@ (f2 :> m1) @@ (f3 :> m2)
Of(k, t) == [role |-> k, task |-> t]
In(w, l) == [work |-> w, account |-> l]
Meetings ==
  { In(<<Of("DEVELOPER", f1), Of("DEVELOPER", f1)>>, NoLimit),
    In(<<Of("DEVELOPER", f1), Of("HELPER", f1)>>, NoLimit),
    In(<<Of("DEVELOPER", f1), Of("COORDINATOR", f2)>>, NoLimit),
    In(<<Of("COORDINATOR", f1), Of("DEVELOPER", f1)>>, 3),
    In(<<Of("HELPER", f1), Of("INTERPRETER", f3)>>, 3),
    In(<<Of("SUPERVISOR", f1), Of("COORDINATOR", f2)>>, 3) }

VARIABLE layer

capacityVars == <<layer, vars, budgetVars>>

CapacityInit ==
  /\ Init /\ BudgetInit
  /\ layer \in {"slots", "budget"}
  /\ layer = "slots" => work = <<Of("DEVELOPER", f1), Of("DEVELOPER", f1)>>

SlotLayer   == layer = "slots" /\ Next /\ UNCHANGED <<layer, budgetVars>>
BudgetLayer == layer = "budget" /\ BudgetNext /\ UNCHANGED <<layer, vars>>

CapacityNext == SlotLayer \/ BudgetLayer
CapacitySpec == CapacityInit /\ [][CapacityNext]_capacityVars
=============================================================================
