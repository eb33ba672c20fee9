--------------------------- MODULE LifecycleProofs ---------------------------
(***************************************************************************)
(* Facts about transition() that the proofs of the state machines rest on: *)
(* a permitted action leads from a state that EngineeringState accepts to  *)
(* another one, and which of them can raise, keep or lose the stages of    *)
(* delivery.                                                               *)
(***************************************************************************)
EXTENDS Lifecycle, TLAPS, WellFoundedInduction

(* The stages that only a validated requirement may be in.                  *)
Delivering == {"PUBLISHING", "REVIEWING", "MERGING", "COMPLETE"}

(* EngineeringState's defaults meet __post_init__.                          *)
LEMMA NewStateConsistent ==
  /\ NewState \in EngineeringState
  /\ Consistent(NewState)
  /\ NewState.stage = "INTAKE"
<1>1. NewState \in EngineeringState
  BY DEF NewState, EngineeringState, TaskStatus, Stage, WaitReason
<1> QED BY <1>1 DEF NewState, Consistent

(* A permitted step keeps the record type and meets __post_init__.          *)
LEMMA StepConsistent ==
  ASSUME NEW s \in EngineeringState, Consistent(s),
         NEW a \in StepAction, Permits(s, a, "NONE")
  PROVE  /\ StepState(s, a) \in EngineeringState
         /\ Consistent(StepState(s, a))
<1>1. /\ s.stage \in StepFrom(a)
      /\ ~ s.takeover
  BY DEF Permits, StepAction
<1>2. StepTo(a) \in Stage
  BY DEF StepTo, StepAction, Stage
<1>3. StepState(s, a) \in EngineeringState
  BY <1>2 DEF StepState, EngineeringState, TaskStatus, WaitReason
<1>4. StepTo(a) = "COMPLETE" <=> a = "MERGED"
  BY DEF StepTo, StepAction
<1>5. Consistent(StepState(s, a))
  BY <1>1, <1>4 DEF StepState, Consistent, EngineeringState
<1> QED BY <1>3, <1>5

(* So does every other action, with any reason a BLOCK may carry.           *)
LEMMA TransitionConsistent ==
  ASSUME NEW s \in EngineeringState, Consistent(s),
         NEW a \in Action, NEW reason \in WaitReason, Permits(s, a, reason)
  PROVE  /\ Transition(s, a, reason, FALSE) \in EngineeringState
         /\ Consistent(Transition(s, a, reason, FALSE))
<1> DEFINE after == Transition(s, a, reason, FALSE)
<1>1. CASE a = "CANCEL"
  <2>1. after = [s EXCEPT !.status = "CANCELLED", !.takeover = FALSE]
    BY <1>1 DEF Transition, StepAction
  <2>2. s.stage # "COMPLETE"
    BY DEF Permits, Terminal, Consistent
  <2> QED BY <2>1, <2>2 DEF EngineeringState, Consistent, TaskStatus
<1>2. CASE a \in {"PAUSE", "TAKEOVER"}
  <2>1. PICK takeover \in BOOLEAN :
          after = PauseState(s, takeover) /\ (s.takeover => takeover)
    BY <1>2 DEF Transition, StepAction, EngineeringState
  <2>2. s.stage # "COMPLETE"
    BY DEF Permits, Terminal, Consistent
  <2> QED BY <2>1, <2>2 DEF PauseState, EngineeringState, Consistent, TaskStatus, WaitReason
<1>3. CASE a = "REVISE_REQUIREMENT"
  <2>1. after = ReviseState(s) /\ s.status = "PAUSED"
    BY <1>3 DEF Transition, Permits, StepAction
  <2>2. s.req + 1 \in Nat \ {0} /\ s.req + 1 >= 1
    BY DEF EngineeringState
  <2>3. s.stage # "COMPLETE"
    BY <2>1 DEF Consistent
  <2> QED BY <2>1, <2>2, <2>3 DEF ReviseState, EngineeringState, Consistent, Stage
<1>4. CASE a \in {"RESUME", "RELEASE_TAKEOVER"}
  <2>1. after = ResumeState(s)
    BY <1>4 DEF Transition, StepAction
  <2>2. s.stage # "COMPLETE"
    BY DEF Permits, Terminal, Consistent
  <2> QED BY <2>1, <2>2 DEF ResumeState, EngineeringState, Consistent, TaskStatus, WaitReason
<1>5. CASE a = "BLOCK"
  <2>1. after = [s EXCEPT !.status = "WAITING_HUMAN", !.wait = reason]
    BY <1>5 DEF Transition, StepAction
  <2>2. reason # "NONE" /\ ~ s.takeover /\ s.stage # "COMPLETE"
    BY <1>5 DEF Permits, Terminal, Consistent, StepAction
  <2> QED BY <2>1, <2>2 DEF EngineeringState, Consistent, TaskStatus
<1>6. CASE a = "REQUIREMENT_CHANGED"
  <2>1. after = [s EXCEPT !.status = "ACTIVE", !.stage = "FIXING", !.wait = "NONE",
                          !.req = s.req + 1]
    BY <1>6 DEF Transition, StepAction
  <2>2. ~ s.takeover
    BY <1>6 DEF Permits, StepAction
  <2>3. s.req + 1 \in Nat \ {0} /\ s.req + 1 >= 1
    BY DEF EngineeringState
  <2> QED BY <2>1, <2>2, <2>3 DEF EngineeringState, Consistent, TaskStatus, Stage, WaitReason
<1>7. CASE a \in StepAction
  <2>1. after = StepState(s, a)
    BY <1>7 DEF Transition, StepAction
  <2>2. Permits(s, a, "NONE")
    BY <1>7 DEF Permits, StepAction
  <2> QED BY <1>7, <2>1, <2>2, StepConsistent
<1> QED BY <1>1, <1>2, <1>3, <1>4, <1>5, <1>6, <1>7 DEF Action

(* No transition makes a task NEW, and only a passed validation brings one   *)
(* into delivery; a step within delivery keeps the requirement version.      *)
LEMMA TransitionDelivers ==
  ASSUME NEW s \in EngineeringState,
         NEW a \in Action, NEW reason \in WaitReason, Permits(s, a, reason)
  PROVE  LET after == Transition(s, a, reason, FALSE)
         IN  /\ after.status # "NEW"
             /\ after.stage \in Delivering =>
                  /\ after.req = s.req
                  /\ s.stage \in Delivering \/ a = "VALIDATION_PASSED"
<1> DEFINE after == Transition(s, a, reason, FALSE)
<1>1. CASE a \in StepAction
  <2>1. after = StepState(s, a)
    BY <1>1 DEF Transition, StepAction
  <2>2. s.stage \in StepFrom(a)
    BY <1>1 DEF Permits, StepAction
  <2>3. after.stage = StepTo(a) /\ after.req = s.req /\ after.status # "NEW"
    BY <2>1 DEF StepState, EngineeringState
  <2>4. StepTo(a) \in Delivering => StepFrom(a) \subseteq Delivering \/ a = "VALIDATION_PASSED"
    BY <1>1 DEF StepTo, StepFrom, StepAction, Delivering
  <2> QED BY <2>2, <2>3, <2>4
<1>2. CASE a = "CANCEL"
  BY <1>2 DEF Transition, EngineeringState, StepAction
<1>3. CASE a \in {"PAUSE", "TAKEOVER"}
  BY <1>3 DEF Transition, PauseState, EngineeringState, StepAction
<1>4. CASE a = "REVISE_REQUIREMENT"
  <2>1. after = ReviseState(s) /\ s.status = "PAUSED"
    BY <1>4 DEF Transition, Permits, StepAction
  <2> QED BY <2>1 DEF ReviseState, EngineeringState, Delivering
<1>5. CASE a \in {"RESUME", "RELEASE_TAKEOVER"}
  BY <1>5 DEF Transition, ResumeState, EngineeringState, StepAction
<1>6. CASE a = "BLOCK"
  BY <1>6 DEF Transition, EngineeringState, StepAction
<1>7. CASE a = "REQUIREMENT_CHANGED"
  BY <1>7 DEF Transition, EngineeringState, Delivering, StepAction
<1> QED BY <1>1, <1>2, <1>3, <1>4, <1>5, <1>6, <1>7 DEF Action

(* What the proofs need of numbers besides: a set of them has a least one.   *)
LEMMA SmallestExists ==
  ASSUME NEW S \in SUBSET Nat, S # {}
  PROVE  \E x \in S : \A y \in S : x <= y
<1>1. PICK x \in S : \A y \in S : <<y, x>> \notin OpToRel(<, Nat)
  BY NatLessThanWellFounded, WFMin, Zenon
<1>2. \A y \in S : <<y, x>> \in Nat \X Nat
  OBVIOUS
<1>3. \A y \in S : ~ (y < x)
  BY <1>1, <1>2, Zenon DEF OpToRel
<1> QED BY <1>3
=============================================================================
