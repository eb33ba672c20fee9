-------------------------- MODULE AdmissionProofs ---------------------------
(***************************************************************************)
(* What may start and what it may cost, for any set of tasks, Teams and    *)
(* requests: the edits of prerequisites and the claims that respect them   *)
(* (Dependencies), and the admission of paid requests (Budget). Each part  *)
(* is proved for itself; the two components share no variable.             *)
(***************************************************************************)
EXTENDS Dependencies, Budget, LifecycleProofs, FiniteSetTheorems

-----------------------------------------------------------------------------
(***************************************************************************)
(* Dependencies. Concurrent edits create no cycle, and no job executes     *)
(* with an unmet prerequisite. Both rest on what the holder of the         *)
(* admission lock has checked: DependenciesInv says that it is still true  *)
(* when the transaction commits.                                           *)
(***************************************************************************)
(* Only the holder of the lock is inside its transaction.                    *)
Exclusive ==
  /\ \A e \in Editors : editor[e].pc \in {"locked", "writing"} => admission = e
  /\ \A r \in Runners : claim[r] # NoTask => admission = r

(* A request names a task; what replace() checked holds until it saves.       *)
EditsOK ==
  \A e \in Editors :
    /\ editor[e].pc # "idle" => editor[e].task \in Tasks
    /\ editor[e].pc = "writing" =>
         /\ job[editor[e].task] # "EXECUTING"
         /\ editor[e].task \notin Reachable(editor[e].wanted)
         /\ deps[editor[e].task] = editor[e].expected

(* A selected job still has no unmet prerequisite.                           *)
ClaimsOK == \A r \in Runners : claim[r] # NoTask => Unmet(claim[r]) = {}

DependenciesInv ==
  /\ DependenciesTypeOK
  /\ Exclusive
  /\ EditsOK
  /\ ClaimsOK
  /\ NoCycle
  /\ PrerequisitesMerged

-----------------------------------------------------------------------------
(* The reachable tasks contain the requested ones and are closed.             *)
LEMMA ReachableContains ==
  ASSUME DependenciesTypeOK, NEW wanted \in SUBSET Tasks
  PROVE  /\ Reachable(wanted) \subseteq Tasks
         /\ wanted \subseteq Reachable(wanted)
         /\ \A t \in Reachable(wanted) : deps[t] \subseteq Reachable(wanted)
<1>1. Reachable(wanted) \subseteq Tasks /\ wanted \subseteq Reachable(wanted)
  BY DEF Reachable
<1>2. ASSUME NEW t \in Reachable(wanted), NEW p \in deps[t]
      PROVE  p \in Reachable(wanted)
  <2>1. t \in Tasks /\ p \in Tasks
    BY <1>1 DEF DependenciesTypeOK
  <2>2. ASSUME NEW C \in SUBSET Tasks, wanted \subseteq C, ClosedUnderDeps(C)
        PROVE  p \in C
    <3>1. t \in C
      BY <2>2 DEF Reachable
    <3> QED BY <2>2, <3>1 DEF ClosedUnderDeps
  <2> QED BY <2>1, <2>2 DEF Reachable
<1> QED BY <1>1, <1>2

(* Saving prerequisites from which the task cannot be reached closes no        *)
(* cycle: a cycle through the task would leave, among the reachable tasks,      *)
(* one that was there before.                                                 *)
LEMMA SaveKeepsNoCycle ==
  ASSUME DependenciesTypeOK, NoCycle, NEW task \in Tasks, NEW wanted \in SUBSET Tasks,
         task \notin Reachable(wanted), deps' = [deps EXCEPT ![task] = wanted]
  PROVE  NoCycle'
<1> DEFINE R == Reachable(wanted)
<1>1. /\ R \subseteq Tasks /\ wanted \subseteq R
      /\ \A t \in R : deps[t] \subseteq R
  BY ReachableContains
<1>2. task \notin R
  OBVIOUS
<1>3. deps'[task] = wanted /\ \A t \in Tasks \ {task} : deps'[t] = deps[t]
  BY DEF DependenciesTypeOK
<1> HIDE DEF R
<1> SUFFICES ASSUME NEW S \in (SUBSET Tasks) \ {{}}, \A t \in S : deps'[t] \cap S # {}
             PROVE  FALSE
  BY DEF NoCycle
<1>4. CASE task \notin S
  <2>1. \A t \in S : deps[t] \cap S # {}
    BY <1>3, <1>4
  <2> QED BY <2>1 DEF NoCycle
<1>5. CASE task \in S
  <2>1. PICK p \in S : p \in wanted
    BY <1>3, <1>5
  <2>2. S \cap R \in (SUBSET Tasks) \ {{}}
    BY <1>1, <2>1
  <2>3. ASSUME NEW t \in S \cap R PROVE deps[t] \cap (S \cap R) # {}
    <3>1. deps'[t] = deps[t]
      BY <1>2, <1>3
    <3>2. PICK q \in S : q \in deps[t]
      BY <3>1
    <3>3. q \in R
      BY <1>1, <3>2
    <3> QED BY <3>2, <3>3
  <2> QED BY <2>2, <2>3 DEF NoCycle
<1> QED BY <1>4, <1>5

(* The graph, and everything read from it, depends on deps alone.              *)
LEMMA SameGraph ==
  ASSUME UNCHANGED deps
  PROVE  /\ NoCycle => NoCycle'
         /\ \A wanted \in SUBSET Tasks : Reachable(wanted)' = Reachable(wanted)
BY DEF NoCycle, Reachable, ClosedUnderDeps

-----------------------------------------------------------------------------
(* Steps that change neither the graph, nor a status, nor a job.               *)
LEMMA SameTasks ==
  ASSUME DependenciesInv, UNCHANGED <<deps, status, job>>
  PROVE  /\ NoCycle' /\ PrerequisitesMerged'
         /\ \A t \in Tasks : Unmet(t)' = Unmet(t)
         /\ \A wanted \in SUBSET Tasks : Reachable(wanted)' = Reachable(wanted)
<1>1. \A t \in Tasks : Unmet(t)' = Unmet(t)
  BY DEF Unmet
<1> QED BY <1>1, SameGraph DEF DependenciesInv, PrerequisitesMerged

(* A request advances or ends without touching a task.                        *)
LEMMA EditorStep ==
  ASSUME DependenciesInv, NEW e \in Editors, NEW CONSTANT draft \in EditorRow,
         editor' = [editor EXCEPT ![e] = draft], UNCHANGED <<deps, status, job, claim>>,
         admission' \in Editors \cup Runners \cup {Free},
         draft.pc # "idle" => draft.task \in Tasks,
         draft.pc = "writing" => /\ job[draft.task] # "EXECUTING"
                               /\ draft.task \notin Reachable(draft.wanted)
                               /\ deps[draft.task] = draft.expected,
         draft.pc \in {"locked", "writing"} => admission' = e,
         admission' # admission => admission \in {Free, e}
  PROVE  DependenciesInv'
<1>1. editor'[e] = draft /\ \A f \in Editors \ {e} : editor'[f] = editor[f]
  BY DEF DependenciesInv, DependenciesTypeOK
<1>2. DependenciesTypeOK'
  BY DEF DependenciesInv, DependenciesTypeOK
<1>3. Exclusive'
  <2>1. \A f \in Editors \ {e} : editor[f].pc \in {"locked", "writing"} =>
          admission = f /\ admission # Free /\ admission # e
    BY DependenciesAssumption DEF DependenciesInv, Exclusive
  <2>2. \A r \in Runners : claim[r] # NoTask =>
          admission = r /\ admission # Free /\ admission # e
    BY DependenciesAssumption DEF DependenciesInv, Exclusive
  <2> QED BY <1>1, <2>1, <2>2 DEF Exclusive
<1>4. EditsOK'
  <2>1. draft.wanted \in SUBSET Tasks /\ \A f \in Editors : editor[f].wanted \in SUBSET Tasks
    BY DEF DependenciesInv, DependenciesTypeOK, EditorRow
  <2>2. Reachable(draft.wanted)' = Reachable(draft.wanted)
        /\ \A f \in Editors \ {e} : Reachable(editor[f].wanted)' = Reachable(editor[f].wanted)
    BY <1>1, <2>1, SameTasks DEF Reachable, ClosedUnderDeps
  <2> QED BY <1>1, <2>2 DEF DependenciesInv, EditsOK, Reachable, ClosedUnderDeps
<1>5. ClaimsOK'
  BY SameTasks DEF DependenciesInv, DependenciesTypeOK, ClaimsOK
<1> QED BY <1>2, <1>3, <1>4, <1>5, SameTasks DEF DependenciesInv

LEMMA OpenFormInv ==
  ASSUME DependenciesInv, NEW e \in Editors, NEW t \in Tasks, NEW wanted \in SUBSET Tasks,
         OpenForm(e, t, wanted)
  PROVE  DependenciesInv'
<1>1. deps[t] \in SUBSET Tasks
  BY DEF DependenciesInv, DependenciesTypeOK
<1>2. PICK draft \in EditorRow :
        /\ draft = [pc |-> "form", task |-> t, expected |-> deps[t], wanted |-> wanted]
        /\ draft.pc = "form" /\ draft.task = t
  <2>1. [pc |-> "form", task |-> t, expected |-> deps[t], wanted |-> wanted] \in EditorRow
    BY <1>1 DEF EditorRow
  <2> QED BY <2>1
<1>3. /\ editor' = [editor EXCEPT ![e] = draft]
      /\ UNCHANGED <<deps, status, job, claim, admission>>
  BY <1>2 DEF OpenForm
<1>4. admission' \in Editors \cup Runners \cup {Free}
  BY <1>3 DEF DependenciesInv, DependenciesTypeOK
<1> QED BY <1>2, <1>3, <1>4, EditorStep

LEMMA LockEditInv ==
  ASSUME DependenciesInv, NEW e \in Editors, LockEdit(e)
  PROVE  DependenciesInv'
<1>1. PICK draft : draft = [editor[e] EXCEPT !.pc = "locked"]
  OBVIOUS
<1>2. draft \in EditorRow /\ draft.pc = "locked" /\ draft.task = editor[e].task
  BY <1>1 DEF DependenciesInv, DependenciesTypeOK, EditorRow
<1>3. draft.task \in Tasks
  BY <1>2 DEF LockEdit, DependenciesInv, EditsOK
<1>4. /\ editor' = [editor EXCEPT ![e] = draft]
      /\ UNCHANGED <<deps, status, job, claim>>
      /\ admission = Free /\ admission' = e
  BY <1>1 DEF LockEdit
<1> QED BY <1>2, <1>3, <1>4, EditorStep

LEMMA AdmitInv ==
  ASSUME DependenciesInv, NEW e \in Editors, Admit(e)
  PROVE  DependenciesInv'
<1>1. PICK draft : draft = [editor[e] EXCEPT !.pc = "writing"]
  OBVIOUS
<1>2. /\ draft \in EditorRow /\ draft.pc = "writing" /\ draft.task = editor[e].task
      /\ draft.wanted = editor[e].wanted /\ draft.expected = editor[e].expected
  BY <1>1 DEF DependenciesInv, DependenciesTypeOK, EditorRow
<1>3. draft.task \in Tasks
  BY <1>2 DEF Admit, DependenciesInv, EditsOK
<1>4. /\ editor' = [editor EXCEPT ![e] = draft]
      /\ UNCHANGED <<deps, status, job, claim, admission>>
  BY <1>1 DEF Admit
<1>5. admission = e /\ admission' \in Editors \cup Runners \cup {Free}
  BY <1>4 DEF Admit, DependenciesInv, Exclusive, DependenciesTypeOK
<1>6. /\ job[draft.task] # "EXECUTING"
      /\ draft.task \notin Reachable(draft.wanted)
      /\ deps[draft.task] = draft.expected
  BY <1>2 DEF Admit, Editable
<1> QED BY <1>2, <1>3, <1>4, <1>5, <1>6, EditorStep

LEMMA GiveUpInv ==
  ASSUME DependenciesInv, NEW e \in Editors, GiveUp(e)
  PROVE  DependenciesInv'
<1>1. PICK draft : draft = Away
  OBVIOUS
<1>2. draft \in EditorRow /\ draft.pc = "idle"
  BY <1>1 DEF Away, EditorRow
<1>3. /\ editor' = [editor EXCEPT ![e] = draft]
      /\ UNCHANGED <<deps, status, job, claim>>
      /\ admission' = IF admission = e THEN Free ELSE admission
  BY <1>1 DEF GiveUp
<1>4. admission' \in Editors \cup Runners \cup {Free}
  BY <1>3 DEF DependenciesInv, DependenciesTypeOK
<1> QED BY <1>2, <1>3, <1>4, EditorStep

(* The edit: the holder of the lock rewrites the prerequisites of a task that   *)
(* does not execute and that nobody is about to claim.                        *)
LEMMA SaveInv ==
  ASSUME DependenciesInv, NEW e \in Editors, Save(e)
  PROVE  DependenciesInv'
<1>1. PICK t \in Tasks : t = editor[e].task
  BY DEF Save, DependenciesInv, EditsOK
<1>2. PICK wanted \in SUBSET Tasks : wanted = editor[e].wanted
  BY DEF DependenciesInv, DependenciesTypeOK, EditorRow
<1>3. /\ t \notin Reachable(wanted) /\ job[t] # "EXECUTING" /\ admission = e
  BY <1>1, <1>2 DEF Save, DependenciesInv, EditsOK, Exclusive
<1>4. /\ deps' = [deps EXCEPT ![t] = wanted] /\ UNCHANGED <<status, job, claim>>
      /\ editor' = [editor EXCEPT ![e] = Away] /\ admission' = Free
  BY <1>1, <1>2, <1>3 DEF Save
<1>5. /\ deps'[t] = wanted /\ \A u \in Tasks \ {t} : deps'[u] = deps[u]
      /\ editor'[e] = Away /\ \A f \in Editors \ {e} : editor'[f] = editor[f]
  BY <1>4 DEF DependenciesInv, DependenciesTypeOK
<1>6. DependenciesTypeOK'
  <2>1. Away \in EditorRow
    BY DEF Away, EditorRow
  <2> QED BY <1>4, <2>1 DEF DependenciesInv, DependenciesTypeOK
<1>7. /\ \A f \in Editors \ {e} : editor[f].pc \notin {"locked", "writing"}
      /\ \A r \in Runners : claim[r] = NoTask
  BY <1>3, DependenciesAssumption DEF DependenciesInv, Exclusive
<1>8. Exclusive'
  BY <1>4, <1>5, <1>7 DEF Exclusive, Away
<1>9. EditsOK'
  BY <1>5, <1>7 DEF DependenciesInv, EditsOK, Away
<1>10. ClaimsOK'
  BY <1>4, <1>7 DEF ClaimsOK
<1>11. NoCycle'
  BY <1>3, <1>4, SaveKeepsNoCycle DEF DependenciesInv
<1>12. PrerequisitesMerged'
  BY <1>3, <1>4, <1>5 DEF DependenciesInv, PrerequisitesMerged, Unmet
<1> QED BY <1>6, <1>8, <1>9, <1>10, <1>11, <1>12 DEF DependenciesInv

-----------------------------------------------------------------------------
LEMMA EditsUntouched ==
  ASSUME DependenciesInv, UNCHANGED <<deps, editor>>,
         \A e \in Editors : editor[e].pc = "writing" =>
           job'[editor[e].task] = job[editor[e].task]
  PROVE  EditsOK'
<1>1. \A e \in Editors : Reachable(editor[e].wanted)' = Reachable(editor[e].wanted)
  BY DEF Reachable, ClosedUnderDeps
<1> QED BY <1>1 DEF DependenciesInv, EditsOK

LEMMA SelectInv ==
  ASSUME DependenciesInv, NEW r \in Runners, NEW t \in Tasks, Select(r, t)
  PROVE  DependenciesInv'
<1>1. /\ UNCHANGED <<deps, status, job, editor>> /\ admission = Free /\ admission' = r
      /\ Unmet(t) = {} /\ claim' = [claim EXCEPT ![r] = t]
  BY DEF Select, Claimable
<1>2. claim'[r] = t /\ \A q \in Runners \ {r} : claim'[q] = claim[q]
  BY <1>1 DEF DependenciesInv, DependenciesTypeOK
<1>3. DependenciesTypeOK'
  BY <1>1 DEF DependenciesInv, DependenciesTypeOK
<1>4. /\ \A e \in Editors : editor[e].pc \notin {"locked", "writing"}
      /\ \A q \in Runners : claim[q] = NoTask
  BY <1>1, DependenciesAssumption DEF DependenciesInv, Exclusive
<1>5. Exclusive'
  BY <1>1, <1>2, <1>4 DEF Exclusive
<1>6. EditsOK'
  BY <1>1, EditsUntouched
<1>7. ClaimsOK'
  BY <1>1, <1>2, <1>4, SameTasks DEF ClaimsOK
<1> QED BY <1>1, <1>3, <1>5, <1>6, <1>7, SameTasks DEF DependenciesInv

LEMMA EndClaimInv ==
  ASSUME DependenciesInv, NEW r \in Runners, EndClaim(r)
  PROVE  /\ claim[r] \in Tasks /\ Unmet(claim[r]) = {} /\ admission = r
         /\ claim' \in [Runners -> Tasks \cup {NoTask}]
         /\ admission' \in Editors \cup Runners \cup {Free}
         /\ \A q \in Runners : claim'[q] = NoTask
         /\ \A e \in Editors : editor[e].pc \notin {"locked", "writing"}
<1>1. claim[r] # NoTask /\ claim' = [claim EXCEPT ![r] = NoTask]
      /\ admission' = IF admission = r THEN Free ELSE admission
  BY DEF EndClaim
<1>2. claim[r] \in Tasks /\ Unmet(claim[r]) = {} /\ admission = r
  BY <1>1 DEF DependenciesInv, DependenciesTypeOK, ClaimsOK, Exclusive
<1>3. \A q \in Runners \ {r} : claim[q] = NoTask
  BY <1>2 DEF DependenciesInv, Exclusive
<1>4. \A e \in Editors : editor[e].pc \notin {"locked", "writing"}
  BY <1>2, DependenciesAssumption DEF DependenciesInv, Exclusive
<1>5. \A q \in Runners : claim'[q] = NoTask
  BY <1>1, <1>3 DEF DependenciesInv, DependenciesTypeOK
<1> QED BY <1>1, <1>2, <1>4, <1>5 DEF DependenciesInv, DependenciesTypeOK

LEMMA CommitClaimInv ==
  ASSUME DependenciesInv, NEW r \in Runners, CommitClaim(r)
  PROVE  DependenciesInv'
<1>1. EndClaim(r) /\ UNCHANGED <<deps, status, editor>>
      /\ job' = [job EXCEPT ![claim[r]] = "EXECUTING"]
  BY DEF CommitClaim
<1>2. DependenciesTypeOK'
  BY <1>1, EndClaimInv DEF DependenciesInv, DependenciesTypeOK, JobState
<1>3. Exclusive' /\ ClaimsOK'
  BY <1>1, EndClaimInv DEF Exclusive, ClaimsOK
<1>4. EditsOK'
  BY <1>1, EndClaimInv, EditsUntouched
<1>5. PrerequisitesMerged'
  BY <1>1, EndClaimInv DEF DependenciesInv, DependenciesTypeOK, PrerequisitesMerged, Unmet
<1> QED BY <1>1, <1>2, <1>3, <1>4, <1>5, SameGraph DEF DependenciesInv

LEMMA AbandonClaimInv ==
  ASSUME DependenciesInv, NEW r \in Runners, AbandonClaim(r)
  PROVE  DependenciesInv'
<1>1. EndClaim(r) /\ UNCHANGED <<deps, status, job, editor>>
  BY DEF AbandonClaim
<1>2. DependenciesTypeOK'
  BY <1>1, EndClaimInv DEF DependenciesInv, DependenciesTypeOK
<1>3. Exclusive' /\ ClaimsOK'
  BY <1>1, EndClaimInv DEF Exclusive, ClaimsOK
<1>4. EditsOK'
  BY <1>1, EditsUntouched
<1> QED BY <1>1, <1>2, <1>3, <1>4, SameTasks DEF DependenciesInv

(* A task that moves was not merged before, so it is nobody's met prerequisite,  *)
(* and its next job is not yet executing.                                      *)
LEMMA TransitInv ==
  ASSUME DependenciesInv, NEW t \in Tasks, Transit(t)
  PROVE  DependenciesInv'
<1>1. PICK s \in Statuses :
        /\ status' = [status EXCEPT ![t] = s]
        /\ job' = [job EXCEPT ![t] = IF s \in Runnable THEN "QUEUED" ELSE "NONE"]
  BY DEF Transit
<1>2. /\ UNCHANGED <<deps, editor, claim, admission>>
      /\ status[t] # "MERGED"
      /\ \A e \in Editors : editor[e].pc = "writing" => editor[e].task # t
      /\ \A r \in Runners : claim[r] # t
  BY DEF Transit, Finished
<1>3. /\ job'[t] \in {"QUEUED", "NONE"}
      /\ \A u \in Tasks \ {t} : status'[u] = status[u] /\ job'[u] = job[u]
  BY <1>1 DEF DependenciesInv, DependenciesTypeOK
<1>4. DependenciesTypeOK'
  BY <1>1, <1>2 DEF DependenciesInv, DependenciesTypeOK, JobState
<1>5. Exclusive'
  BY <1>2 DEF DependenciesInv, Exclusive
<1>6. EditsOK'
  BY <1>2, <1>3, EditsUntouched DEF DependenciesInv, EditsOK
<1>7. ASSUME NEW u \in Tasks, Unmet(u) = {} PROVE Unmet(u)' = {}
  <2>1. t \notin deps[u] /\ deps[u] \subseteq Tasks
    BY <1>2, <1>7 DEF Unmet, DependenciesInv, DependenciesTypeOK
  <2> QED BY <1>2, <1>3, <1>7, <2>1 DEF Unmet
<1>8. ClaimsOK'
  BY <1>2, <1>7 DEF DependenciesInv, DependenciesTypeOK, ClaimsOK
<1>9. PrerequisitesMerged'
  BY <1>3, <1>7 DEF DependenciesInv, PrerequisitesMerged
<1> QED BY <1>2, <1>4, <1>5, <1>6, <1>8, <1>9, SameGraph DEF DependenciesInv

-----------------------------------------------------------------------------
LEMMA DependenciesInit == Init => DependenciesInv
<1> SUFFICES ASSUME Init PROVE DependenciesInv
  OBVIOUS
<1>1. DependenciesTypeOK
  BY DependenciesAssumption DEF Init, DependenciesTypeOK, JobState, EditorRow, Away
<1>2. Exclusive /\ EditsOK /\ ClaimsOK
  BY DEF Init, Exclusive, EditsOK, ClaimsOK, Away
<1>3. NoCycle /\ PrerequisitesMerged
  BY DEF Init, NoCycle, PrerequisitesMerged
<1> QED BY <1>1, <1>2, <1>3 DEF DependenciesInv

LEMMA DependenciesStep == DependenciesInv /\ [Next]_vars => DependenciesInv'
<1> SUFFICES ASSUME DependenciesInv, [Next]_vars PROVE DependenciesInv'
  OBVIOUS
<1>1. CASE \E e \in Editors : \/ \E t \in Tasks : \E wanted \in SUBSET Tasks : OpenForm(e, t, wanted)
                              \/ LockEdit(e) \/ Admit(e) \/ GiveUp(e) \/ Save(e)
  BY <1>1, OpenFormInv, LockEditInv, AdmitInv, GiveUpInv, SaveInv
<1>2. CASE \E r \in Runners : (\E t \in Tasks : Select(r, t)) \/ CommitClaim(r) \/ AbandonClaim(r)
  BY <1>2, SelectInv, CommitClaimInv, AbandonClaimInv
<1>3. CASE \E t \in Tasks : Transit(t)
  BY <1>3, TransitInv
<1>4. CASE UNCHANGED vars
  <2>1. UNCHANGED <<deps, status, job, editor, claim, admission>>
    BY <1>4 DEF vars
  <2>2. DependenciesTypeOK' /\ Exclusive'
    BY <2>1 DEF DependenciesInv, DependenciesTypeOK, Exclusive
  <2>3. EditsOK'
    BY <2>1, EditsUntouched
  <2>4. ClaimsOK'
    BY <2>1, SameTasks DEF DependenciesInv, DependenciesTypeOK, ClaimsOK
  <2> QED BY <2>1, <2>2, <2>3, <2>4, SameTasks DEF DependenciesInv
<1> QED BY <1>1, <1>2, <1>3, <1>4 DEF Next

(* However many requests edit prerequisites while any number of controllers       *)
(* claim jobs, the graph stays free of cycles and nothing executes before its      *)
(* prerequisites are merged.                                                     *)
THEOREM PrerequisitesAreSound == Spec => [](NoCycle /\ PrerequisitesMerged)
<1>1. DependenciesInv => NoCycle /\ PrerequisitesMerged
  BY DEF DependenciesInv
<1> QED BY <1>1, DependenciesInit, DependenciesStep, PTL DEF Spec

(* No save overwrites prerequisites that its user had not seen.                   *)
THEOREM EditsAreNotLost == Spec => NoLostEdit
<1> DEFINE Seen == \A t \in Tasks : deps'[t] # deps[t] =>
                     \E e \in Editors : /\ editor[e].task = t
                                        /\ editor[e].expected = deps[t]
                                        /\ editor[e].wanted = deps'[t]
<1>1. DependenciesInv /\ [Next]_vars => [Seen]_vars
  <2> SUFFICES ASSUME DependenciesInv, Next, NEW t \in Tasks, deps'[t] # deps[t]
               PROVE  \E e \in Editors : /\ editor[e].task = t
                                         /\ editor[e].expected = deps[t]
                                         /\ editor[e].wanted = deps'[t]
    OBVIOUS
  <2>1. PICK e \in Editors : Save(e)
    BY DEF Next, OpenForm, LockEdit, Admit, GiveUp, Select, CommitClaim, AbandonClaim, Transit
  <2>2. deps' = [deps EXCEPT ![editor[e].task] = editor[e].wanted]
    BY <2>1 DEF Save
  <2>3. editor[e].task = t /\ deps'[t] = editor[e].wanted
    BY <2>2 DEF DependenciesInv, DependenciesTypeOK
  <2>4. deps[t] = editor[e].expected
    BY <2>1, <2>3 DEF Save, DependenciesInv, EditsOK
  <2> QED BY <2>3, <2>4
<1> QED BY <1>1, DependenciesInit, DependenciesStep, PTL DEF Spec, NoLostEdit

(* The half of it that the graph does not show: a task whose job executes has     *)
(* only merged prerequisites, whatever was added while it was claimed.           *)
THEOREM RunningTasksAreUnblocked == Spec => []PrerequisitesMerged
BY PrerequisitesAreSound, PTL

-----------------------------------------------------------------------------
(***************************************************************************)
(* Sums. MapThenSumSet adds the elements of a finite set in an order       *)
(* CHOOSE picks. The lemmas say that the order does not matter, and how    *)
(* two sums compare; each goes by a least counterexample, a smallest       *)
(* subset for which it would fail.                                         *)
(***************************************************************************)
(* Induction over a finite set, for a set of its subsets.                   *)
LEMMA FiniteInduction ==
  ASSUME NEW S, IsFiniteSet(S), NEW Good \in SUBSET SUBSET S, {} \in Good,
         \A T \in Good : \A x \in S \ T : T \union {x} \in Good
  PROVE  S \in Good
<1> SUFFICES ASSUME S \notin Good PROVE FALSE
  OBVIOUS
<1> DEFINE left == {Cardinality(S \ T) : T \in Good}
<1>1. \A T \in Good : IsFiniteSet(S \ T) /\ Cardinality(S \ T) \in Nat
  BY FS_Difference, FS_CardinalityType
<1>2. left \in SUBSET Nat /\ left # {}
  <2>1. \A T \in Good : Cardinality(S \ T) \in Nat
    BY <1>1, Zenon
  <2>2. Cardinality(S \ {}) \in left
    BY Zenon
  <2> QED BY <2>1, <2>2
<1>3. PICK n \in left : \A k \in left : n <= k
  BY <1>2, SmallestExists, Zenon
<1>4. PICK T \in Good : n = Cardinality(S \ T)
  BY <1>3
<1>5. PICK x : x \in S \ T
  BY <1>4, Zenon
<1>6. S \ (T \union {x}) = (S \ T) \ {x}
  OBVIOUS
<1>7. Cardinality((S \ T) \ {x}) = Cardinality(S \ T) - 1
  BY <1>1, <1>4, <1>5, FS_RemoveElement
<1>8. T \union {x} \in Good
  BY <1>4, <1>5, Zenon
<1>9. Cardinality(S \ T) - 1 \in left
  BY <1>6, <1>7, <1>8, Zenon
<1> HIDE DEF left
<1>10. n \in Nat /\ n - 1 \in left
  BY <1>1, <1>4, <1>9, Zenon
<1> QED BY <1>3, <1>10

(* The partial sums that MapThenSumSet computes over the subsets of S.      *)
Picked(s) == CHOOSE x \in s : TRUE
PartialSums(g, F, S) ==
  g = [s \in SUBSET S |-> IF s = {} THEN 0 ELSE F[Picked(s)] + g[s \ {Picked(s)}]]

LEMMA PickedIsIn == \A s : s # {} => Picked(s) \in s
BY Zenon DEF Picked

LEMMA PartialSumsExist ==
  ASSUME NEW S, IsFiniteSet(S), NEW F
  PROVE  \E g : PartialSums(g, F, S)
<1> DEFINE Upto(n) == {s \in SUBSET S : Cardinality(s) <= n}
           Step(h, n) == [s \in Upto(n) |-> IF s = {} THEN 0 ELSE F[Picked(s)] + h[s \ {Picked(s)}]]
           Bad == {n \in Nat : ~ \E h : h = Step(h, n)}
<1>1. \A s \in SUBSET S : IsFiniteSet(s) /\ Cardinality(s) \in Nat /\ (Cardinality(s) = 0 <=> s = {})
  BY FS_Subset, FS_CardinalityType, FS_EmptySet
<1>2. \A s \in SUBSET S : s # {} =>
        s \ {Picked(s)} \in SUBSET S /\ Cardinality(s \ {Picked(s)}) = Cardinality(s) - 1
  <2> SUFFICES ASSUME NEW s \in SUBSET S, s # {}
               PROVE  Cardinality(s \ {Picked(s)}) = Cardinality(s) - 1
    OBVIOUS
  <2>1. Picked(s) \in s
    BY PickedIsIn, Zenon
  <2> QED BY <1>1, <2>1, FS_RemoveElement
<1>3. Bad = {}
  <2> SUFFICES ASSUME Bad # {} PROVE FALSE
    OBVIOUS
  <2>1. Bad \in SUBSET Nat
    OBVIOUS
  <2>2. PICK n \in Bad : \A k \in Bad : n <= k
    BY <2>1, SmallestExists, Zenon
  <2>3. CASE n = 0
    <3> DEFINE h == [s \in Upto(n) |-> 0]
    <3>1. \A s \in Upto(n) : s = {}
      BY <1>1, <2>3
    <3>2. h = Step(h, n)
      BY <3>1
    <3> HIDE DEF h, Step
    <3> QED BY <2>2, <3>2
  <2>4. CASE n # 0
    <3>1. n - 1 \in Nat /\ n - 1 \notin Bad /\ n \in Nat
      <4> HIDE DEF Bad
      <4> QED BY <2>1, <2>2, <2>4
    <3>2. PICK h : h = Step(h, n - 1)
      BY <3>1
    <3> DEFINE g == Step(h, n)
    <3>3. \A s \in Upto(n - 1) : s \in Upto(n) /\ g[s] = h[s]
      <4> SUFFICES ASSUME NEW s \in Upto(n - 1) PROVE s \in Upto(n) /\ g[s] = h[s]
        OBVIOUS
      <4>1. s \in Upto(n)
        BY <1>1, <3>1
      <4> DEFINE value == IF s = {} THEN 0 ELSE F[Picked(s)] + h[s \ {Picked(s)}]
      <4>2. g[s] = value
        BY <4>1
      <4>3. Step(h, n - 1)[s] = value
        OBVIOUS
      <4> HIDE DEF g, Upto, Step, value
      <4> QED BY <3>2, <4>1, <4>2, <4>3
    <3>4. \A s \in Upto(n) : s # {} => s \ {Picked(s)} \in Upto(n - 1)
      BY <1>1, <1>2, <3>1
    <3>5. \A s \in Upto(n) : s # {} => g[s \ {Picked(s)}] = h[s \ {Picked(s)}]
      BY <3>3, <3>4, Zenon
    <3> HIDE DEF Upto
    <3>6. g = Step(g, n)
      <4>1. \A s \in Upto(n) : (IF s = {} THEN 0 ELSE F[Picked(s)] + h[s \ {Picked(s)}])
                             = (IF s = {} THEN 0 ELSE F[Picked(s)] + g[s \ {Picked(s)}])
        <5> HIDE DEF g
        <5> QED BY <3>5, Zenon
      <4> DEFINE gg == g
      <4>2. gg = g OBVIOUS
      <4> HIDE DEF gg
      <4>3. Step(h, n) = Step(gg, n)
        BY <4>1, <4>2, Zenon
      <4> QED BY <4>2, <4>3, Zenon
    <3> HIDE DEF g, Step
    <3> QED BY <2>2, <3>6
  <2> QED BY <2>3, <2>4
<1>4. Upto(Cardinality(S)) = SUBSET S /\ Cardinality(S) \in Nat
  BY FS_Subset, FS_CardinalityType
<1>5. PICK h : h = Step(h, Cardinality(S))
  BY <1>3, <1>4
<1>6. PartialSums(h, F, S)
  BY <1>4, <1>5, Zenon DEF PartialSums
<1> QED BY <1>6

(* Only the values that are summed matter.                                  *)
LEMMA PartialSumsAgree ==
  ASSUME NEW S, IsFiniteSet(S), NEW T \in SUBSET S, NEW F, NEW G, NEW g, NEW h,
         PartialSums(g, F, S), PartialSums(h, G, T), \A x \in T : F[x] = G[x]
  PROVE  \A s \in SUBSET T : g[s] = h[s]
<1> DEFINE Bad == {s \in SUBSET T : g[s] # h[s]}
           sizes == {Cardinality(s) : s \in Bad}
<1> SUFFICES ASSUME Bad # {} PROVE FALSE
  OBVIOUS
<1>1. \A s \in SUBSET S : IsFiniteSet(s) /\ Cardinality(s) \in Nat
  BY FS_Subset, FS_CardinalityType
<1>2. sizes \in SUBSET Nat /\ sizes # {}
  BY <1>1
<1>3. PICK n \in sizes : \A k \in sizes : n <= k
  BY <1>2, SmallestExists, Zenon
<1>4. PICK s \in Bad : n = Cardinality(s)
  BY <1>3
<1>5. /\ g[s] = IF s = {} THEN 0 ELSE F[Picked(s)] + g[s \ {Picked(s)}]
      /\ h[s] = IF s = {} THEN 0 ELSE G[Picked(s)] + h[s \ {Picked(s)}]
  BY <1>4 DEF PartialSums
<1>6. s # {}
  BY <1>4, <1>5
<1>7. Picked(s) \in s
  BY <1>6, PickedIsIn, Zenon
<1>8. Cardinality(s \ {Picked(s)}) = Cardinality(s) - 1
  BY <1>1, <1>4, <1>7, FS_RemoveElement
<1>9. s \ {Picked(s)} \notin Bad
  <2>1. Cardinality(s) \in Nat
    BY <1>1, <1>4
  <2>2. Cardinality(s) - 1 \notin sizes
    <3> HIDE DEF sizes
    <3> QED BY <1>3, <1>4, <2>1
  <2> QED BY <1>8, <2>2, Zenon
<1>10. g[s \ {Picked(s)}] = h[s \ {Picked(s)}]
  BY <1>4, <1>9
<1> QED BY <1>4, <1>5, <1>6, <1>7, <1>10

SumOf(F, S) == MapThenSumSet(LAMBDA x : F[x], S)

LEMMA SumIsPartial ==
  ASSUME NEW S, IsFiniteSet(S), NEW F
  PROVE  \E g : PartialSums(g, F, S) /\ SumOf(F, S) = g[S]
<1> DEFINE g == CHOOSE iter : iter = [s \in SUBSET S |->
                  IF s = {} THEN 0
                  ELSE F[CHOOSE x \in s : TRUE] + iter[s \ {CHOOSE x \in s : TRUE}]]
<1>1. SumOf(F, S) = g[S]
  BY Zenon DEF SumOf, MapThenSumSet, MapThenFoldSet
<1>2. PICK h : PartialSums(h, F, S)
  BY PartialSumsExist, Zenon
<1>3. h = [s \in SUBSET S |-> IF s = {} THEN 0
             ELSE F[CHOOSE x \in s : TRUE] + h[s \ {CHOOSE x \in s : TRUE}]]
  BY <1>2, Zenon DEF PartialSums, Picked
<1>4. g = [s \in SUBSET S |-> IF s = {} THEN 0
             ELSE F[CHOOSE x \in s : TRUE] + g[s \ {CHOOSE x \in s : TRUE}]]
  BY <1>3, Zenon
<1>5. PartialSums(g, F, S)
  BY <1>4, Zenon DEF PartialSums, Picked
<1> QED BY <1>1, <1>5

LEMMA PartialSumsType ==
  ASSUME NEW S, IsFiniteSet(S), NEW F, NEW g, PartialSums(g, F, S), \A x \in S : F[x] \in Int
  PROVE  \A s \in SUBSET S : g[s] \in Int
<1> DEFINE Bad == {s \in SUBSET S : g[s] \notin Int}
           sizes == {Cardinality(s) : s \in Bad}
<1> SUFFICES ASSUME Bad # {} PROVE FALSE
  OBVIOUS
<1>1. \A s \in SUBSET S : IsFiniteSet(s) /\ Cardinality(s) \in Nat
  BY FS_Subset, FS_CardinalityType
<1>2. sizes \in SUBSET Nat /\ sizes # {}
  BY <1>1
<1>3. PICK n \in sizes : \A k \in sizes : n <= k
  BY <1>2, SmallestExists, Zenon
<1>4. PICK s \in Bad : n = Cardinality(s)
  BY <1>3
<1>5. g[s] = IF s = {} THEN 0 ELSE F[Picked(s)] + g[s \ {Picked(s)}]
  BY <1>4 DEF PartialSums
<1>6. s # {} /\ Picked(s) \in s
  BY <1>4, <1>5, PickedIsIn
<1>8. Cardinality(s \ {Picked(s)}) = Cardinality(s) - 1
  BY <1>1, <1>4, <1>6, FS_RemoveElement
<1>9. s \ {Picked(s)} \notin Bad
  <2>1. Cardinality(s) \in Nat
    BY <1>1, <1>4
  <2>2. Cardinality(s) - 1 \notin sizes
    <3> HIDE DEF sizes
    <3> QED BY <1>3, <1>4, <2>1
  <2> QED BY <1>8, <2>2, Zenon
<1> QED BY <1>4, <1>5, <1>6, <1>9

(* The order in which MapThenSumSet picks does not matter.                  *)
LEMMA PartialSumsCommute ==
  ASSUME NEW S, IsFiniteSet(S), NEW F, NEW g, PartialSums(g, F, S), \A x \in S : F[x] \in Int
  PROVE  \A s \in SUBSET S : \A x \in s : g[s] = F[x] + g[s \ {x}]
<1> DEFINE Bad == {s \in SUBSET S : \E x \in s : g[s] # F[x] + g[s \ {x}]}
           sizes == {Cardinality(s) : s \in Bad}
<1> SUFFICES ASSUME Bad # {} PROVE FALSE
  OBVIOUS
<1>1. \A s \in SUBSET S : IsFiniteSet(s) /\ Cardinality(s) \in Nat
  BY FS_Subset, FS_CardinalityType
<1>2. sizes \in SUBSET Nat /\ sizes # {}
  BY <1>1
<1>3. PICK n \in sizes : \A k \in sizes : n <= k
  BY <1>2, SmallestExists, Zenon
<1>4. PICK s \in Bad : n = Cardinality(s)
  BY <1>3
<1>5. PICK x \in s : g[s] # F[x] + g[s \ {x}]
  BY <1>4
<1> DEFINE p == Picked(s)
<1>6. p \in s
  BY <1>5, PickedIsIn, Zenon
<1> HIDE DEF p
<1>7. g[s] = F[p] + g[s \ {p}]
  BY <1>4, <1>5 DEF PartialSums, p
<1>8. p # x
  BY <1>5, <1>7
<1>9. Cardinality(s \ {p}) = Cardinality(s) - 1 /\ Cardinality(s \ {x}) = Cardinality(s) - 1
  BY <1>1, <1>4, <1>5, <1>6, FS_RemoveElement
<1>10. s \ {p} \notin Bad /\ s \ {x} \notin Bad
  <2>1. Cardinality(s) \in Nat
    BY <1>1, <1>4
  <2>2. Cardinality(s) - 1 \notin sizes
    <3> HIDE DEF sizes
    <3> QED BY <1>3, <1>4, <2>1
  <2> QED BY <1>9, <2>2, Zenon
<1>11. g[s \ {p}] = F[x] + g[(s \ {p}) \ {x}] /\ g[s \ {x}] = F[p] + g[(s \ {x}) \ {p}]
  BY <1>4, <1>5, <1>6, <1>8, <1>10
<1>12. (s \ {p}) \ {x} = (s \ {x}) \ {p} /\ (s \ {p}) \ {x} \in SUBSET S
  BY <1>4
<1>13. g[(s \ {p}) \ {x}] \in Int /\ F[p] \in Int /\ F[x] \in Int
  BY <1>4, <1>5, <1>6, <1>12, PartialSumsType
<1> DEFINE z == g[(s \ {p}) \ {x}]
<1>14. g[s \ {p}] = F[x] + z /\ g[s \ {x}] = F[p] + z /\ z \in Int
  BY <1>11, <1>12, <1>13, Zenon
<1> HIDE DEF z
<1> QED BY <1>5, <1>7, <1>13, <1>14

(* A sum: its type, one more element, and how two of them compare.          *)
LEMMA SumType ==
  ASSUME NEW S, IsFiniteSet(S), NEW F, \A x \in S : F[x] \in Int
  PROVE  SumOf(F, S) \in Int
<1>1. PICK g : PartialSums(g, F, S) /\ SumOf(F, S) = g[S]
  BY SumIsPartial, Zenon
<1>2. S \in SUBSET S
  OBVIOUS
<1> QED BY <1>1, <1>2, PartialSumsType, Zenon

LEMMA SumAgrees ==
  ASSUME NEW S, IsFiniteSet(S), NEW F, NEW G, \A x \in S : F[x] = G[x]
  PROVE  SumOf(F, S) = SumOf(G, S)
<1>1. PICK g : PartialSums(g, F, S) /\ SumOf(F, S) = g[S]
  BY SumIsPartial, Zenon
<1>2. PICK h : PartialSums(h, G, S) /\ SumOf(G, S) = h[S]
  BY SumIsPartial, Zenon
<1>3. S \in SUBSET S
  OBVIOUS
<1>4. \A s \in SUBSET S : g[s] = h[s]
  BY <1>1, <1>2, <1>3, PartialSumsAgree
<1> QED BY <1>1, <1>2, <1>3, <1>4, Zenon

LEMMA SumOfNone == ASSUME NEW F PROVE SumOf(F, {}) = 0
<1>1. PICK g : PartialSums(g, F, {}) /\ SumOf(F, {}) = g[{}]
  BY SumIsPartial, FS_EmptySet, Zenon
<1> QED BY <1>1 DEF PartialSums

LEMMA SumAdd ==
  ASSUME NEW S, IsFiniteSet(S), NEW x, x \notin S, NEW F, \A y \in S \union {x} : F[y] \in Int
  PROVE  SumOf(F, S \union {x}) = SumOf(F, S) + F[x]
<1> DEFINE U == S \union {x}
<1>1. IsFiniteSet(U) /\ S \in SUBSET U /\ U \in SUBSET U /\ x \in U /\ U \ {x} = S
  BY FS_AddElement
<1> HIDE DEF U
<1>2. PICK g : PartialSums(g, F, U) /\ SumOf(F, U) = g[U]
  BY <1>1, SumIsPartial, Zenon
<1>3. PICK h : PartialSums(h, F, S) /\ SumOf(F, S) = h[S]
  BY SumIsPartial, Zenon
<1>4. g[S] = h[S]
  <2>1. \A s \in SUBSET S : g[s] = h[s]
    BY <1>1, <1>2, <1>3, PartialSumsAgree
  <2> QED BY <2>1
<1>5. \A y \in U : F[y] \in Int
  BY DEF U
<1>6. g[U] = F[x] + g[S]
  BY <1>1, <1>2, <1>5, PartialSumsCommute
<1>7. g[S] \in Int /\ F[x] \in Int
  BY <1>1, <1>2, <1>5, PartialSumsType
<1> QED BY <1>2, <1>3, <1>4, <1>6, <1>7 DEF U

(* What is smaller where both count, and counts for nothing elsewhere.      *)
LEMMA SumCover ==
  ASSUME NEW S, NEW T, IsFiniteSet(S), IsFiniteSet(T), NEW F, NEW G,
         \A x \in S : F[x] \in Int, \A x \in T : G[x] \in Int,
         \A x \in S \intersect T : F[x] <= G[x],
         \A x \in S \ T : F[x] <= 0, \A x \in T \ S : G[x] >= 0
  PROVE  SumOf(F, S) <= SumOf(G, T)
<1> DEFINE U == S \union T
           Good == {V \in SUBSET U : SumOf(F, V \intersect S) <= SumOf(G, V \intersect T)}
<1>1. IsFiniteSet(U)
  BY FS_Union
<1>2. {} \in Good
  BY SumOfNone
<1>3. \A V \in Good : \A x \in U \ V : V \union {x} \in Good
  <2> SUFFICES ASSUME NEW V \in Good, NEW x \in U \ V
               PROVE  SumOf(F, (V \union {x}) \intersect S) <= SumOf(G, (V \union {x}) \intersect T)
    OBVIOUS
  <2> DEFINE A == V \intersect S  B == V \intersect T
  <2>1. /\ IsFiniteSet(A) /\ IsFiniteSet(B) /\ x \notin A /\ x \notin B
        /\ \A y \in A : y \in S
        /\ \A y \in B : y \in T
        /\ SumOf(F, A) <= SumOf(G, B)
    BY FS_Intersection
  <2>2. /\ (V \union {x}) \intersect S = IF x \in S THEN A \union {x} ELSE A
        /\ (V \union {x}) \intersect T = IF x \in T THEN B \union {x} ELSE B
    OBVIOUS
  <2> HIDE DEF A, B
  <2>3. SumOf(F, A) \in Int /\ SumOf(G, B) \in Int
    <3>1. \A y \in A : F[y] \in Int
      BY <2>1
    <3>2. \A y \in B : G[y] \in Int
      BY <2>1
    <3> QED BY <2>1, <3>1, <3>2, SumType
  <2>4. x \in S => SumOf(F, A \union {x}) = SumOf(F, A) + F[x]
    <3> SUFFICES ASSUME x \in S PROVE SumOf(F, A \union {x}) = SumOf(F, A) + F[x]
      OBVIOUS
    <3>1. \A y \in A \union {x} : F[y] \in Int
      BY <2>1
    <3> QED BY <2>1, <3>1, SumAdd, Zenon
  <2>5. x \in T => SumOf(G, B \union {x}) = SumOf(G, B) + G[x]
    <3> SUFFICES ASSUME x \in T PROVE SumOf(G, B \union {x}) = SumOf(G, B) + G[x]
      OBVIOUS
    <3>1. \A y \in B \union {x} : G[y] \in Int
      BY <2>1
    <3> QED BY <2>1, <3>1, SumAdd, Zenon
  <2>6. CASE x \in S /\ x \in T
    <3>1. F[x] <= G[x] /\ F[x] \in Int /\ G[x] \in Int
      BY <2>6
    <3>2. (V \union {x}) \intersect S = A \union {x} /\ (V \union {x}) \intersect T = B \union {x}
      BY <2>2, <2>6
    <3>3. /\ SumOf(F, (V \union {x}) \intersect S) = SumOf(F, A) + F[x]
          /\ SumOf(G, (V \union {x}) \intersect T) = SumOf(G, B) + G[x]
      BY <2>4, <2>5, <2>6, <3>2, Zenon
    <3> QED BY <2>1, <2>3, <3>1, <3>3
  <2>7. CASE x \in S /\ x \notin T
    <3>1. F[x] <= 0 /\ F[x] \in Int
      BY <2>7
    <3>2. (V \union {x}) \intersect S = A \union {x} /\ (V \union {x}) \intersect T = B
      BY <2>2, <2>7
    <3>3. /\ SumOf(F, (V \union {x}) \intersect S) = SumOf(F, A) + F[x]
          /\ SumOf(G, (V \union {x}) \intersect T) = SumOf(G, B)
      BY <2>4, <2>7, <3>2, Zenon
    <3> QED BY <2>1, <2>3, <3>1, <3>3
  <2>8. CASE x \notin S
    <3>1. x \in T /\ G[x] >= 0 /\ G[x] \in Int
      BY <2>8
    <3>2. (V \union {x}) \intersect S = A /\ (V \union {x}) \intersect T = B \union {x}
      BY <2>2, <2>8, <3>1
    <3>3. /\ SumOf(F, (V \union {x}) \intersect S) = SumOf(F, A)
          /\ SumOf(G, (V \union {x}) \intersect T) = SumOf(G, B) + G[x]
      BY <2>5, <3>1, <3>2, Zenon
    <3> QED BY <2>1, <2>3, <3>1, <3>3
  <2> QED BY <2>6, <2>7, <2>8
<1> HIDE DEF Good
<1>4. Good \in SUBSET SUBSET U
  BY DEF Good
<1>5. U \in Good
  BY <1>1, <1>2, <1>3, <1>4, FiniteInduction, Zenon
<1>6. U \intersect S = S /\ U \intersect T = T
  OBVIOUS
<1> QED BY <1>5, <1>6 DEF Good

-----------------------------------------------------------------------------
(***************************************************************************)
(* Budget, the types and the rows. What each transaction makes of a row.   *)
(***************************************************************************)
Places == {"idle", "checked", "admitting", "reserved", "paid", "gone"}
RowType == [status : RunStatus, cost : Nat \union {Unknown}, reserve : Nat, lost : BOOLEAN,
            turn : BOOLEAN, month : Nat]
LeaseType == [job : Nat, state : {"none", "live", "expired"}]

BudgetType ==
  /\ Requests \in SUBSET Runs
  /\ work \in [Requests -> [role : Roles, task : FundedTasks]]
  /\ account \in Nat \union {NoLimit}
  /\ row \in [Runs -> RowType]
  /\ pc \in [Runs -> Places]
  /\ plan \in [Runs -> Nat] /\ jobOf \in [Runs -> Nat] /\ charge \in [Runs -> Nat]
  /\ container \in [Runs -> BOOLEAN]
  /\ leaseOf \in [FundedTasks -> LeaseType]
  /\ native \in [FundedTasks -> {"READY", "RUNNING", "BLOCKED"}]
  /\ suspended \in [FundedTasks -> {"no", "blocked", "stopped"}]
  /\ month \in Nat

LEMMA TotalIsSum ==
  ASSUME NEW S, IsFiniteSet(S), NEW F, \A r \in S : F[r] = BudgetCost(r)
  PROVE  Total(S) = SumOf(F, S)
<1> DEFINE h == CHOOSE iter : iter = [s \in SUBSET S |->
                  IF s = {} THEN 0
                  ELSE BudgetCost(CHOOSE x \in s : TRUE) + iter[s \ {CHOOSE x \in s : TRUE}]]
<1>1. Total(S) = h[S]
  BY Zenon DEF Total, MapThenSumSet, MapThenFoldSet
<1>2. PICK g : PartialSums(g, F, S) /\ SumOf(F, S) = g[S]
  BY SumIsPartial, Zenon
<1>3. \A s \in SUBSET S : s # {} => F[Picked(s)] = BudgetCost(Picked(s))
  <2> SUFFICES ASSUME NEW s \in SUBSET S, s # {} PROVE F[Picked(s)] = BudgetCost(Picked(s))
    OBVIOUS
  <2>1. Picked(s) \in S
    BY PickedIsIn
  <2> QED BY <2>1
<1>4. g = [s \in SUBSET S |-> IF s = {} THEN 0 ELSE BudgetCost(Picked(s)) + g[s \ {Picked(s)}]]
  BY <1>2, <1>3 DEF PartialSums
<1>5. h = [s \in SUBSET S |-> IF s = {} THEN 0 ELSE BudgetCost(Picked(s)) + h[s \ {Picked(s)}]]
  BY <1>4, Zenon DEF Picked
<1> HIDE DEF h
<1>6. PartialSums(h, F, S)
  BY <1>3, <1>5 DEF PartialSums
<1>7. S \in SUBSET S
  OBVIOUS
<1>8. \A s \in SUBSET S : g[s] = h[s]
  BY <1>2, <1>6, <1>7, PartialSumsAgree
<1> QED BY <1>1, <1>2, <1>7, <1>8, Zenon

LEMMA EngineeringIsSum ==
  ASSUME NEW S, IsFiniteSet(S), NEW F, \A r \in S : F[r] = EngineeringCost(r)
  PROVE  MapThenSumSet(EngineeringCost, S) = SumOf(F, S)
<1> DEFINE h == CHOOSE iter : iter = [s \in SUBSET S |->
                  IF s = {} THEN 0
                  ELSE EngineeringCost(CHOOSE x \in s : TRUE) + iter[s \ {CHOOSE x \in s : TRUE}]]
<1>1. MapThenSumSet(EngineeringCost, S) = h[S]
  BY Zenon DEF MapThenSumSet, MapThenFoldSet
<1>2. PICK g : PartialSums(g, F, S) /\ SumOf(F, S) = g[S]
  BY SumIsPartial, Zenon
<1>3. \A s \in SUBSET S : s # {} => F[Picked(s)] = EngineeringCost(Picked(s))
  <2> SUFFICES ASSUME NEW s \in SUBSET S, s # {} PROVE F[Picked(s)] = EngineeringCost(Picked(s))
    OBVIOUS
  <2>1. Picked(s) \in S
    BY PickedIsIn
  <2> QED BY <2>1
<1>4. g = [s \in SUBSET S |->
             IF s = {} THEN 0 ELSE EngineeringCost(Picked(s)) + g[s \ {Picked(s)}]]
  BY <1>2, <1>3 DEF PartialSums
<1>5. h = [s \in SUBSET S |->
             IF s = {} THEN 0 ELSE EngineeringCost(Picked(s)) + h[s \ {Picked(s)}]]
  BY <1>4, Zenon DEF Picked
<1> HIDE DEF h
<1>6. PartialSums(h, F, S)
  BY <1>3, <1>5 DEF PartialSums
<1>7. S \in SUBSET S
  OBVIOUS
<1>8. \A s \in SUBSET S : g[s] = h[s]
  BY <1>2, <1>6, <1>7, PartialSumsAgree
<1> QED BY <1>1, <1>2, <1>7, <1>8, Zenon

LEMMA SpentIsSum == ASSUME NEW S PROVE Spent(S) = SumOf(charge, S)
BY Zenon DEF Spent, SumOf

-----------------------------------------------------------------------------
LEMMA KnownCosts ==
  ASSUME BudgetType
  PROVE  \A r \in Requests : /\ BudgetCost(r) # Unknown => BudgetCost(r) \in Nat
                             /\ EngineeringCost(r) # Unknown => EngineeringCost(r) \in Nat
BY DEF BudgetType, RowType, BudgetCost, EngineeringCost

LEMMA FiniteRows ==
  ASSUME BudgetType
  PROVE  \A S \in SUBSET Requests : IsFiniteSet(S)
<1>1. \A S \in SUBSET Requests : S \in SUBSET Runs
  BY DEF BudgetType
<1> QED BY <1>1, BudgetAssumption, FS_Subset

LEMMA TotalType ==
  ASSUME BudgetType, NEW S \in SUBSET Requests, AllKnown(S)
  PROVE  Total(S) \in Nat
<1> DEFINE F == [r \in S |-> BudgetCost(r)]
           Z == [r \in S |-> 0]
<1>1. IsFiniteSet(S)
  BY FiniteRows
<1>2. \A r \in S : F[r] \in Nat
  BY KnownCosts DEF AllKnown
<1>3. Total(S) = SumOf(F, S)
  BY <1>1, TotalIsSum
<1>4. SumOf(F, S) \in Int
  BY <1>1, <1>2, SumType
<1>5. SumOf(Z, {}) <= SumOf(F, S)
  BY <1>1, <1>2, SumCover, FS_EmptySet
<1> HIDE DEF F, Z
<1> QED BY <1>3, <1>4, <1>5, SumOfNone

LEMMA EngineeringTotalType ==
  ASSUME BudgetType, NEW S \in SUBSET Requests, \A r \in S : EngineeringCost(r) # Unknown
  PROVE  MapThenSumSet(EngineeringCost, S) \in Int
<1> DEFINE F == [r \in S |-> EngineeringCost(r)]
<1>1. IsFiniteSet(S)
  BY FiniteRows
<1>2. \A r \in S : F[r] \in Int
  BY KnownCosts
<1>3. MapThenSumSet(EngineeringCost, S) = SumOf(F, S)
  BY <1>1, EngineeringIsSum
<1>4. SumOf(F, S) \in Int
  BY <1>1, <1>2, SumType
<1> QED BY <1>3, <1>4

LEMMA PlansType ==
  ASSUME BudgetType, NEW r \in Requests,
         \/ CheckDeveloper(r) \/ CheckHelper(r)
         \/ SupervisorRequest(r) \/ InterpreterRequest(r) \/ CoordinatorRequest(r)
  PROVE  \E amount \in Nat, j \in Nat : Plan(r, amount, j) /\ j <= leaseOf[Task(r)].job
<1>1. Task(r) \in FundedTasks /\ leaseOf[Task(r)].job \in Nat
  BY DEF BudgetType, Task, LeaseType
<1>2. ASSUME CheckDeveloper(r)
      PROVE  \E amount \in Nat : Plan(r, amount, leaseOf[Task(r)].job)
  <2> DEFINE t == Task(r)
  <2>1. OfTask(t) \in SUBSET Requests /\ OfTeam(FundedBy[t]) \in SUBSET Requests
    BY DEF OfTask, OfTeam, Rows
  <2>2. AllKnown(OfTeam(FundedBy[t])) /\ OfTask(t) \in SUBSET OfTeam(FundedBy[t])
    BY <1>2 DEF CheckDeveloper, Team, OfTask, OfTeam
  <2>3. Total(OfTask(t)) \in Nat /\ Total(OfTeam(FundedBy[t])) \in Nat
    BY <2>1, <2>2, TotalType DEF AllKnown
  <2>4. DeveloperAllowance(t) \in Int /\ DeveloperAllowance(t) >= MinimumTurn
    BY <1>2, <2>3, BudgetAssumption DEF DeveloperAllowance, Smaller, CheckDeveloper
  <2>5. DeveloperAllowance(t) \in Nat
    BY <2>4, BudgetAssumption
  <2> QED BY <1>2, <2>5 DEF CheckDeveloper
<1>3. ASSUME CheckHelper(r)
      PROVE  \E amount \in Nat : Plan(r, amount, leaseOf[Task(r)].job)
  <2> DEFINE t == Task(r)
             helpers == {q \in OfTask(t) : Role(q) = "HELPER"}
  <2>1. OfTask(t) \in SUBSET Requests /\ helpers \in SUBSET Requests
    BY DEF OfTask, Rows
  <2>2. \A q \in OfTask(t) : EngineeringCost(q) # Unknown
    BY <1>3 DEF CheckHelper, SettledButCoordination
  <2>3. /\ MapThenSumSet(EngineeringCost, OfTask(t)) \in Int
        /\ MapThenSumSet(EngineeringCost, helpers) \in Int
    BY <2>1, <2>2, EngineeringTotalType
  <2>4. HelperAllowance(t) \in Int /\ HelperAllowance(t) > 0
    BY <1>3, <2>3, BudgetAssumption DEF HelperAllowance, Smaller, CheckHelper
  <2>5. HelperAllowance(t) \in Nat
    BY <2>4
  <2> QED BY <1>3, <2>5 DEF CheckHelper
<1>4. ASSUME SupervisorRequest(r)
      PROVE  \E amount \in Nat : Plan(r, amount, leaseOf[Task(r)].job)
  BY <1>4, BudgetAssumption DEF SupervisorRequest
<1>5. ASSUME InterpreterRequest(r) \/ CoordinatorRequest(r)
      PROVE  \E amount \in Nat : Plan(r, amount, 0)
  BY <1>5, BudgetAssumption DEF InterpreterRequest, CoordinatorRequest
<1> QED BY <1>1, <1>2, <1>3, <1>4, <1>5

(* The row an ended request has.                                            *)
LEMMA EndedRow ==
  ASSUME BudgetType, NEW r \in Runs, NEW s \in RunStatus, NEW c \in Nat \union {Unknown}
  PROVE  LET after == Ended(r, s, c)
         IN  /\ after \in [Runs -> RowType]
             /\ \A q \in Runs : q # r => after[q] = row[q]
             /\ after[r].status = s /\ after[r].cost = c /\ after[r].reserve = row[r].reserve
             /\ after[r].month = row[r].month /\ after[r].lost = row[r].lost
<1>1. row[r] \in RowType /\ row \in [Runs -> RowType]
  BY DEF BudgetType
<1> DEFINE v == row[r]
           u == [v EXCEPT !.status = s]
           w == [u EXCEPT !.cost = c]
<1>2. /\ u \in RowType /\ u.status = s /\ u.reserve = v.reserve /\ u.month = v.month /\ u.lost = v.lost
  BY <1>1 DEF RowType
<1>3. /\ w \in RowType /\ w.status = s /\ w.cost = c /\ w.reserve = v.reserve /\ w.month = v.month
      /\ w.lost = v.lost
  <2> HIDE DEF u
  <2> QED BY <1>2 DEF RowType
<1>4. Ended(r, s, c) = [row EXCEPT ![r] = w]
  BY <1>1 DEF Ended
<1> HIDE DEF w, v
<1> QED BY <1>1, <1>3, <1>4 DEF v

(* What an end of a request does to its row and its session.                *)
LEMMA ConcludeRows ==
  ASSUME BudgetType, NEW r \in Requests, Conclude(r)
  PROVE  /\ Returns(r)
         /\ \/ row' = row
            \/ row' = Ended(r, "ENDED", row[r].cost)
            \/ Receipt(r)
BY DEF Conclude, FinishDeveloper, FinishHelper, FinishSupervisor, FinishRequest,
       FailDeveloper, FailHelper, FailSupervisor, FailInterpreter, FailCoordinator, GivesUp

LEMMA ReceiptRow ==
  ASSUME BudgetType, NEW r \in Requests, Receipt(r)
  PROVE  /\ row' \in [Runs -> RowType]
         /\ \A q \in Runs : q # r => row'[q] = row[q]
         /\ row'[r].status = "ENDED" /\ row'[r].cost \in {charge[r], Unknown}
         /\ row'[r].reserve = row[r].reserve /\ row'[r].month = row[r].month
         /\ row'[r].lost = row[r].lost
<1>1. r \in Runs /\ charge[r] \in Nat
  BY DEF BudgetType
<1>2. PICK c \in {charge[r], Unknown} : row' = [Ended(r, "ENDED", c) EXCEPT ![r].turn = TRUE]
  BY DEF Receipt
<1>3. c \in Nat \union {Unknown} /\ "ENDED" \in RunStatus
  BY <1>1 DEF RunStatus
<1> DEFINE e == Ended(r, "ENDED", c)
           x == [e[r] EXCEPT !.turn = TRUE]
<1>4. /\ e \in [Runs -> RowType]
      /\ \A q \in Runs : q # r => e[q] = row[q]
      /\ e[r].status = "ENDED" /\ e[r].cost = c /\ e[r].reserve = row[r].reserve
      /\ e[r].month = row[r].month /\ e[r].lost = row[r].lost
  BY <1>1, <1>3, EndedRow
<1> HIDE DEF e
<1>5. /\ x \in RowType /\ x.status = e[r].status /\ x.cost = e[r].cost
      /\ x.reserve = e[r].reserve /\ x.month = e[r].month /\ x.lost = e[r].lost
  <2>1. e[r] \in RowType
    BY <1>1, <1>4
  <2> QED BY <2>1 DEF RowType
<1>6. row' = [e EXCEPT ![r] = x]
  BY <1>2 DEF e
<1> HIDE DEF x
<1> QED BY <1>1, <1>2, <1>4, <1>5, <1>6

LEMMA BudgetTypeInit == BudgetInit => BudgetType
<1> SUFFICES ASSUME BudgetInit PROVE BudgetType
  OBVIOUS
<1>1. PICK s \in Scenarios : work = s.work /\ account = s.account
  BY DEF BudgetInit
<1>2. PICK R \in SUBSET Runs : work \in [R -> [role : Roles, task : FundedTasks]]
  BY <1>1, BudgetAssumption
<1>3. account \in Nat \union {NoLimit}
  BY <1>1, BudgetAssumption
<1> QED BY <1>2, <1>3 DEF BudgetInit, BudgetType, Requests, NoRow, RowType, RunStatus, LeaseType, Places

LEMMA BudgetTypeStep == BudgetType /\ [BudgetNext]_budgetVars => BudgetType'
<1> SUFFICES ASSUME BudgetType, [BudgetNext]_budgetVars PROVE BudgetType'
  OBVIOUS
<1> USE DEF BudgetType, Requests
<1>1. ASSUME UNCHANGED budgetVars PROVE BudgetType'
  BY <1>1 DEF budgetVars
<1>2. ASSUME NEW r \in Requests,
             \/ CheckDeveloper(r) \/ CheckHelper(r)
             \/ SupervisorRequest(r) \/ InterpreterRequest(r) \/ CoordinatorRequest(r)
      PROVE  BudgetType'
  <2>1. PICK amount \in Nat, j \in Nat : Plan(r, amount, j)
    BY <1>2, PlansType
  <2> QED BY <2>1 DEF Plan, Places
<1>3. ASSUME NEW r \in Requests, ReadTotals(r) PROVE BudgetType'
  BY <1>3 DEF ReadTotals, Places
<1>4. ASSUME NEW r \in Requests, Insert(r) PROVE BudgetType'
  <2>1. Task(r) \in FundedTasks
    BY DEF Task
  <2>2. row' \in [Runs -> RowType]
    <3>1. [NoRow EXCEPT !.status = "RUNNING", !.reserve = plan[r], !.month = month] \in RowType
      BY DEF NoRow, RowType, RunStatus
    <3> QED BY <1>4, <3>1 DEF Insert
  <2>3. native' \in [FundedTasks -> {"READY", "RUNNING", "BLOCKED"}]
    BY <1>4, <2>1 DEF Insert
  <2> QED BY <1>4, <2>2, <2>3 DEF Insert, Places
<1>5. ASSUME NEW r \in Requests, Withdraw(r) PROVE BudgetType'
  <2>1. row' \in [Runs -> RowType]
    <3>1. 0 \in Nat \union {Unknown} /\ "ENDED" \in RunStatus
      BY DEF RunStatus
    <3>2. row' = row \/ row' = Ended(r, "ENDED", 0)
      BY <1>5 DEF Withdraw
    <3>3. CASE row' = Ended(r, "ENDED", 0)
      BY <3>1, <3>3, EndedRow
    <3> QED BY <3>2, <3>3
  <2>2. native' \in [FundedTasks -> {"READY", "RUNNING", "BLOCKED"}]
    BY <1>5 DEF Withdraw, Parks
  <2> QED BY <1>5, <2>1, <2>2 DEF Withdraw, Places
<1>6. ASSUME NEW r \in Requests, RunTurn(r) \/ RunConsultation(r) \/ RunRequest(r) PROVE BudgetType'
  <2>1. Call(r)
    BY <1>6 DEF RunTurn, RunConsultation, RunRequest
  <2>2. charge' \in [Runs -> Nat]
    BY <2>1 DEF Call, RowType
  <2>3. container' \in [Runs -> BOOLEAN]
    BY <2>1 DEF Call, Native
  <2> QED BY <2>1, <2>2, <2>3 DEF Call, Places
<1>7. ASSUME NEW r \in Requests, Conclude(r) PROVE BudgetType'
  <2>1. Returns(r)
    BY <1>7, ConcludeRows
  <2>2. row' \in [Runs -> RowType]
    <3>1. row[r].cost \in Nat \union {Unknown} /\ charge[r] \in Nat /\ "ENDED" \in RunStatus
      BY DEF RowType, RunStatus
    <3>2. CASE row' = Ended(r, "ENDED", row[r].cost)
      BY <3>1, <3>2, EndedRow
    <3>3. CASE Receipt(r)
      BY <3>3, ReceiptRow
    <3> QED BY <1>7, <3>2, <3>3, ConcludeRows
  <2>3. native' \in [FundedTasks -> {"READY", "RUNNING", "BLOCKED"}]
    BY <1>7 DEF Conclude, FinishDeveloper, FinishHelper, FinishSupervisor, FinishRequest, Parks,
         FailDeveloper, FailHelper, FailSupervisor, FailInterpreter, FailCoordinator
  <2> QED BY <2>1, <2>2, <2>3 DEF Returns, Places
<1>8. ASSUME NEW r \in Requests, Die(r) PROVE BudgetType'
  BY <1>8 DEF Die, Places
<1> DEFINE Interrupted(S) == Interrupts(S) \in [Runs -> RowType]
<1>9. \A S : Interrupts(S) \in [Runs -> RowType]
  BY DEF Interrupts, RowType, RunStatus
<1>10. \A t, S : BlocksSession(t, S) \in [FundedTasks -> {"READY", "RUNNING", "BLOCKED"}]
  BY DEF BlocksSession
<1>11. ASSUME NEW r \in Requests, Sweep(r) PROVE BudgetType'
  <2>1. row' \in [Runs -> RowType] /\ native' \in [FundedTasks -> {"READY", "RUNNING", "BLOCKED"}]
    BY <1>9, <1>10, <1>11 DEF Sweep
  <2> QED BY <1>11, <2>1 DEF Sweep
<1>12. ASSUME NEW r \in Requests, InterruptStale(r) PROVE BudgetType'
  <2>1. row' \in [Runs -> RowType]
    <3>1. row[r].cost \in Nat \union {Unknown} /\ "INTERRUPTED" \in RunStatus
      BY DEF RowType, RunStatus
    <3> QED BY <1>12, <3>1, EndedRow DEF InterruptStale
  <2> QED BY <1>12, <2>1 DEF InterruptStale
<1>13. ASSUME NEW r \in Requests, ReconcileCost(r) PROVE BudgetType'
  BY <1>13 DEF ReconcileCost, RowType
<1>14. ASSUME NEW t \in FundedTasks,
             ClaimFor(t) \/ CompleteJob(t) \/ ExpireLease(t) \/ Suspend(t) \/ Resume(t)
       PROVE  BudgetType'
  <2>1. leaseOf' \in [FundedTasks -> LeaseType]
    BY <1>14 DEF ClaimFor, CompleteJob, ExpireLease, Suspend, Resume, LeaseType
  <2>2. suspended' \in [FundedTasks -> {"no", "blocked", "stopped"}]
    BY <1>14 DEF ClaimFor, CompleteJob, ExpireLease, Suspend, Resume
  <2> QED BY <1>14, <2>1, <2>2 DEF ClaimFor, CompleteJob, ExpireLease, Suspend, Resume
<1>15. ASSUME NEW t \in FundedTasks, RecoverExpired(t) PROVE BudgetType'
  <2>1. row' \in [Runs -> RowType] /\ native' \in [FundedTasks -> {"READY", "RUNNING", "BLOCKED"}]
    BY <1>9, <1>10, <1>15 DEF RecoverExpired
  <2>2. leaseOf' \in [FundedTasks -> LeaseType]
    BY <1>15 DEF RecoverExpired, LeaseType
  <2> QED BY <1>15, <2>1, <2>2 DEF RecoverExpired
<1>16. ASSUME NewMonth PROVE BudgetType'
  BY <1>16 DEF NewMonth
<1> HIDE DEF BudgetType, Requests
<1> QED BY <1>1, <1>2, <1>3, <1>4, <1>5, <1>6, <1>7, <1>8, <1>11, <1>12, <1>13, <1>14, <1>15,
       <1>16, Zenon DEF BudgetNext

(* The steps that neither plan a request nor admit one.                     *)
Proceeds ==
  \/ \E r \in Requests :
       \/ Insert(r) \/ Withdraw(r) \/ RunTurn(r) \/ RunConsultation(r) \/ RunRequest(r)
       \/ Conclude(r) \/ Die(r) \/ Sweep(r) \/ InterruptStale(r) \/ ReconcileCost(r)
  \/ \E t \in FundedTasks : ClaimFor(t) \/ CompleteJob(t) \/ ExpireLease(t) \/ Suspend(t)
                              \/ Resume(t) \/ RecoverExpired(t)
  \/ NewMonth
  \/ UNCHANGED budgetVars

LEMMA BudgetSteps ==
  ASSUME BudgetType, [BudgetNext]_budgetVars
  PROVE  \/ \E r \in Requests, amount \in Nat, j \in Nat :
              /\ \/ CheckDeveloper(r) \/ CheckHelper(r)
                 \/ SupervisorRequest(r) \/ InterpreterRequest(r) \/ CoordinatorRequest(r)
              /\ Plan(r, amount, j) /\ j <= leaseOf[Task(r)].job
         \/ \E r \in Requests : ReadTotals(r)
         \/ Proceeds
<1>1. \/ \E r \in Requests :
           \/ CheckDeveloper(r) \/ CheckHelper(r)
           \/ SupervisorRequest(r) \/ InterpreterRequest(r) \/ CoordinatorRequest(r)
      \/ \E r \in Requests : ReadTotals(r)
      \/ Proceeds
  BY Zenon DEF BudgetNext, Proceeds
<1> QED BY <1>1, PlansType, Zenon

(* The requests made and the account's limit are data; only a month's end   *)
(* changes the month.                                                       *)
Undisturbed == work' = work /\ account' = account /\ month' = month

LEMMA WorkStays ==
  ASSUME [BudgetNext]_budgetVars
  PROVE  work' = work /\ account' = account /\ (NewMonth \/ month' = month)
<1>1. ASSUME NEW r \in Requests, Conclude(r) PROVE Undisturbed
  BY <1>1 DEF Undisturbed, Conclude, FinishDeveloper, FinishHelper, FinishSupervisor, FinishRequest,
       FailDeveloper, FailHelper, FailSupervisor, FailInterpreter, FailCoordinator, Returns
<1>2. ASSUME NEW r \in Requests,
             \/ CheckDeveloper(r) \/ CheckHelper(r)
             \/ SupervisorRequest(r) \/ InterpreterRequest(r) \/ CoordinatorRequest(r)
             \/ ReadTotals(r) \/ Insert(r) \/ Withdraw(r)
             \/ RunTurn(r) \/ RunConsultation(r) \/ RunRequest(r)
             \/ Die(r) \/ Sweep(r) \/ InterruptStale(r) \/ ReconcileCost(r)
      PROVE  work' = work /\ account' = account /\ (NewMonth \/ month' = month)
  BY <1>2 DEF Undisturbed, CheckDeveloper, CheckHelper, SupervisorRequest, InterpreterRequest,
       CoordinatorRequest, ReadTotals, Insert, Withdraw, RunTurn, RunConsultation, RunRequest, Die, Sweep,
       InterruptStale, ReconcileCost, Plan, Call
<1>3. ASSUME NEW t \in FundedTasks,
             \/ ClaimFor(t) \/ CompleteJob(t) \/ ExpireLease(t)
             \/ Suspend(t) \/ Resume(t) \/ RecoverExpired(t)
      PROVE  Undisturbed
  BY <1>3 DEF Undisturbed, ClaimFor, CompleteJob, ExpireLease, Suspend, Resume, RecoverExpired
<1>4. UNCHANGED budgetVars => Undisturbed
  BY DEF budgetVars, Undisturbed
<1>5. NewMonth => work' = work /\ account' = account
  BY DEF NewMonth
<1> QED BY <1>1, <1>2, <1>3, <1>4, <1>5, Zenon DEF BudgetNext, Undisturbed

LEMMA ProceedsPlaces ==
  ASSUME BudgetType, Proceeds
  PROVE  /\ jobOf' = jobOf
         /\ \A q \in Requests : /\ InProgress(q)' => InProgress(q)
                                /\ pc'[q] \in {"idle", "checked", "admitting"} => pc'[q] = pc[q]
                                /\ pc[q] = "idle" => pc'[q] = "idle"
<1> USE DEF BudgetType, InProgress
<1>1. ASSUME NEW r \in Requests, Conclude(r) PROVE pc' = [pc EXCEPT ![r] = "gone"] /\ jobOf' = jobOf
  BY <1>1, ConcludeRows DEF Returns
<1>2. ASSUME NEW r \in Requests,
             \/ Insert(r) \/ Withdraw(r) \/ RunTurn(r) \/ RunConsultation(r) \/ RunRequest(r)
             \/ Die(r)
      PROVE  /\ jobOf' = jobOf /\ pc[r] \in {"admitting", "reserved", "paid"}
             /\ \E to \in {"reserved", "paid", "gone"} : pc' = [pc EXCEPT ![r] = to]
  BY <1>2 DEF Insert, Withdraw, RunTurn, RunConsultation, RunRequest, Call, Die
<1>3. ASSUME \/ \E r \in Requests : Sweep(r) \/ InterruptStale(r) \/ ReconcileCost(r)
             \/ \E t \in FundedTasks : ClaimFor(t) \/ CompleteJob(t) \/ ExpireLease(t) \/ Suspend(t)
                                         \/ Resume(t) \/ RecoverExpired(t)
             \/ NewMonth
             \/ UNCHANGED budgetVars
      PROVE  pc' = pc /\ jobOf' = jobOf
  BY <1>3 DEF Sweep, InterruptStale, ReconcileCost, ClaimFor, CompleteJob, ExpireLease, Suspend,
       Resume, RecoverExpired, NewMonth, budgetVars
<1>4. ASSUME NEW r \in Requests, Conclude(r) PROVE pc[r] = "paid"
  BY <1>4, ConcludeRows DEF Returns
<1>5. ASSUME NEW r \in Requests, jobOf' = jobOf, pc[r] \in {"admitting", "reserved", "paid"},
             NEW to \in {"reserved", "paid", "gone"}, pc' = [pc EXCEPT ![r] = to]
      PROVE  \A q \in Requests : /\ InProgress(q)' => InProgress(q)
                                 /\ pc'[q] \in {"idle", "checked", "admitting"} => pc'[q] = pc[q]
                                 /\ pc[q] = "idle" => pc'[q] = "idle"
  BY <1>5
<1>6. ASSUME NEW r \in Requests,
             \/ Insert(r) \/ Withdraw(r) \/ RunTurn(r) \/ RunConsultation(r) \/ RunRequest(r)
             \/ Conclude(r) \/ Die(r)
      PROVE  /\ jobOf' = jobOf /\ pc[r] \in {"admitting", "reserved", "paid"}
             /\ \E to \in {"reserved", "paid", "gone"} : pc' = [pc EXCEPT ![r] = to]
  <2>1. CASE Conclude(r)
    BY <1>1, <1>4, <2>1
  <2> QED BY <1>2, <1>6, <2>1
<1>7. CASE \E r \in Requests :
             \/ Insert(r) \/ Withdraw(r) \/ RunTurn(r) \/ RunConsultation(r) \/ RunRequest(r)
             \/ Conclude(r) \/ Die(r)
  BY <1>5, <1>6, <1>7
<1>8. CASE pc' = pc /\ jobOf' = jobOf
  BY <1>8
<1> QED BY <1>3, <1>7, <1>8, Zenon DEF Proceeds

-----------------------------------------------------------------------------
Developer(r) == Role(r) = "DEVELOPER"
Together(p, q) == p # q /\ Task(p) = Task(q)
Open(r) == row[r].status = "RUNNING"
Unsettled(r) == row[r].status # "NONE" /\ row[r].cost = Unknown

(* The native requests of one job come one after another, and the Task row  *)
(* keeps the job of a Developer that is being admitted.                     *)
OneByOne ==
  /\ \A r \in Requests : jobOf[r] <= leaseOf[Task(r)].job
  /\ \A p, q \in Requests : Together(p, q) /\ Native(p) /\ Native(q) /\ InProgress(p) /\ InProgress(q)
        => jobOf[p] # jobOf[q]
  /\ \A r \in Requests : Developer(r) /\ Holds(r) =>
        jobOf[r] = leaseOf[Task(r)].job /\ leaseOf[Task(r)].state # "none"

(* A Developer that may still be admitted, or works, has seen every other   *)
(* Developer's cost.                                                        *)
SeesCosts ==
  /\ \A r \in Requests : Developer(r) /\ Open(r) => row[r].cost = Unknown
  /\ \A p, q \in Requests : Together(p, q) /\ Developer(p) /\ Developer(q) =>
        /\ Open(q) => ~ Unsettled(p)
        /\ pc[q] \in {"checked", "admitting"} /\ jobOf[q] = leaseOf[Task(q)].job => ~ Unsettled(p)

AloneAtWork ==
  /\ \A p, q \in Requests : Together(p, q) /\ Native(p) /\ Native(q) => ~ (Open(p) /\ Open(q))
  /\ \A t \in FundedTasks :
       native[t] = "RUNNING" <=> \E r \in Requests : Task(r) = t /\ Developer(r) /\ Open(r)

LEMMA SameRequests ==
  ASSUME work' = work
  PROVE  /\ Requests' = Requests
         /\ \A r : /\ Role(r)' = Role(r) /\ Task(r)' = Task(r) /\ Native(r)' = Native(r)
                   /\ Developer(r)' = Developer(r) /\ OwnsJob(r)' = OwnsJob(r) /\ Team(r)' = Team(r)
         /\ \A p, q : Together(p, q)' = Together(p, q)
BY DEF Requests, Role, Task, Native, Developer, OwnsJob, Team, Together

LEMMA OneByOneStep == BudgetType /\ OneByOne /\ [BudgetNext]_budgetVars => OneByOne'
<1> SUFFICES ASSUME BudgetType, OneByOne, [BudgetNext]_budgetVars PROVE OneByOne'
  OBVIOUS
<1>w. work' = work
  BY WorkStays
<1>t. /\ Requests \in SUBSET Runs
      /\ \A r \in Requests : Task(r) \in FundedTasks
      /\ jobOf \in [Runs -> Nat] /\ pc \in [Runs -> Places] /\ leaseOf \in [FundedTasks -> LeaseType]
  BY DEF BudgetType, Task
<1>1. ASSUME NEW r \in Requests, NEW amount \in Nat, NEW j \in Nat,
             \/ CheckDeveloper(r) \/ CheckHelper(r)
             \/ SupervisorRequest(r) \/ InterpreterRequest(r) \/ CoordinatorRequest(r),
             Plan(r, amount, j), j <= leaseOf[Task(r)].job
      PROVE  OneByOne'
  <2>1. /\ pc[r] = "idle" /\ pc' = [pc EXCEPT ![r] = "checked"]
        /\ jobOf' = [jobOf EXCEPT ![r] = j] /\ leaseOf' = leaseOf
    BY <1>1 DEF Plan, CheckDeveloper, CheckHelper, SupervisorRequest, InterpreterRequest,
         CoordinatorRequest, MayPlan
  <2>2. Native(r) => j = leaseOf[Task(r)].job /\ MayPlan(r)
    <3> SUFFICES ASSUME Native(r) PROVE j = leaseOf[Task(r)].job /\ MayPlan(r)
      OBVIOUS
    <3>1. CheckDeveloper(r) \/ CheckHelper(r)
      BY <1>1 DEF Native, SupervisorRequest, InterpreterRequest, CoordinatorRequest
    <3>2. MayPlan(r) /\ jobOf' = [jobOf EXCEPT ![r] = leaseOf[Task(r)].job]
      BY <3>1 DEF CheckDeveloper, CheckHelper, Plan
    <3>3. jobOf'[r] = j /\ jobOf'[r] = leaseOf[Task(r)].job
      BY <1>t, <2>1, <3>2
    <3> QED BY <3>2, <3>3
  <2>3. \A q \in Requests : q # r =>
          InProgress(q)' = InProgress(q) /\ Holds(q)' = Holds(q) /\ jobOf'[q] = jobOf[q]
    BY <1>t, <2>1 DEF InProgress, Holds
  <2>4. \A q \in Requests : Together(r, q) /\ Native(r) /\ Native(q) /\ InProgress(q) => jobOf[q] # j
    BY <2>2 DEF MayPlan, Together
  <2>5. ~ Holds(r)' /\ jobOf'[r] = j
    BY <1>t, <2>1 DEF Holds
  <2>6. (\A q \in Requests : jobOf[q] <= leaseOf[Task(q)].job)'
    BY <1>1, <1>t, <1>w, <2>1, <2>3, <2>5, SameRequests DEF OneByOne
  <2>7. (\A p, q \in Requests : Together(p, q) /\ Native(p) /\ Native(q) /\ InProgress(p) /\ InProgress(q)
          => jobOf[p] # jobOf[q])'
    <3>1. \A p, q \in Requests : Together(p, q) /\ Native(p) /\ Native(q) /\ InProgress(p)' /\ InProgress(q)'
             => jobOf'[p] # jobOf'[q]
      BY <2>3, <2>4, <2>5 DEF OneByOne, Together
    <3> QED BY <1>w, <3>1, SameRequests
  <2>8. (\A q \in Requests : Developer(q) /\ Holds(q) =>
          jobOf[q] = leaseOf[Task(q)].job /\ leaseOf[Task(q)].state # "none")'
    BY <1>w, <2>1, <2>3, <2>5, SameRequests DEF OneByOne
  <2> QED BY <2>6, <2>7, <2>8 DEF OneByOne
<1>2. ASSUME NEW r \in Requests, ReadTotals(r) PROVE OneByOne'
  <2>1. /\ jobOf' = jobOf /\ leaseOf' = leaseOf
        /\ \A q \in Requests : (InProgress(q)' => InProgress(q)) /\ (q # r => Holds(q)' = Holds(q))
        /\ Developer(r) /\ Holds(r)' => Leased(r)
    BY <1>2, <1>t DEF ReadTotals, InProgress, Holds, Developer
  <2>2. Leased(r) => jobOf[r] = leaseOf[Task(r)].job /\ leaseOf[Task(r)].state # "none"
    BY DEF Leased
  <2>3. \A q \in Requests : Developer(q) /\ Holds(q)' =>
          jobOf[q] = leaseOf[Task(q)].job /\ leaseOf[Task(q)].state # "none"
    BY <2>1, <2>2 DEF OneByOne
  <2> QED BY <1>w, <2>1, <2>3, SameRequests DEF OneByOne
<1>3. ASSUME Proceeds PROVE OneByOne'
  <2>1. /\ jobOf' = jobOf
        /\ \A q \in Requests : (InProgress(q)' => InProgress(q)) /\ (Holds(q)' => Holds(q))
    BY <1>3, ProceedsPlaces DEF Holds
  <2>2. ASSUME leaseOf' = leaseOf PROVE OneByOne'
    BY <1>w, <2>1, <2>2, SameRequests DEF OneByOne
  <2>3. ASSUME NEW t \in FundedTasks,
               ClaimFor(t) \/ CompleteJob(t) \/ ExpireLease(t) \/ Suspend(t) \/ RecoverExpired(t)
        PROVE  OneByOne'
    <3>1. /\ \A u \in FundedTasks : u # t => leaseOf'[u] = leaseOf[u]
          /\ leaseOf'[t].job >= leaseOf[t].job
          /\ leaseOf'[t].state = "none" \/ leaseOf[t].state = "none" \/
             (leaseOf'[t].job = leaseOf[t].job /\ leaseOf'[t].state # "none")
      BY <1>t, <2>3 DEF ClaimFor, CompleteJob, ExpireLease, Suspend, RecoverExpired, LeaseType
    <3>2. leaseOf'[t].state = "none" =>
            \A r \in Requests : Task(r) = t /\ Developer(r) => ~ Holds(r)
      <4>1. CASE ClaimFor(t) \/ ExpireLease(t)
        BY <1>t, <4>1 DEF ClaimFor, ExpireLease, LeaseType
      <4>2. CASE CompleteJob(t)
        BY <4>2 DEF CompleteJob, OneByOne, OwnsJob, Developer, InProgress, Holds
      <4>3. CASE Suspend(t) \/ RecoverExpired(t)
        BY <4>3 DEF Suspend, RecoverExpired, TaskFree
      <4> QED BY <2>3, <4>1, <4>2, <4>3
    <3>3. \A r \in Requests : jobOf[r] <= leaseOf'[Task(r)].job
      <4> SUFFICES ASSUME NEW r \in Requests PROVE jobOf[r] <= leaseOf'[Task(r)].job
        OBVIOUS
      <4>1. jobOf[r] <= leaseOf[Task(r)].job /\ jobOf[r] \in Nat /\ leaseOf[Task(r)].job \in Nat
        BY <1>t DEF OneByOne, LeaseType
      <4>2. leaseOf'[t].job \in Nat
        BY <1>t, <2>3 DEF ClaimFor, CompleteJob, ExpireLease, Suspend, RecoverExpired, LeaseType
      <4> QED BY <1>t, <3>1, <4>1, <4>2
    <3>4. \A r \in Requests : Developer(r) /\ Holds(r) =>
            jobOf[r] = leaseOf'[Task(r)].job /\ leaseOf'[Task(r)].state # "none"
      BY <1>t, <3>1, <3>2 DEF OneByOne
    <3> QED BY <1>w, <2>1, <3>3, <3>4, SameRequests DEF OneByOne
  <2>4. \/ leaseOf' = leaseOf
        \/ \E t \in FundedTasks :
             ClaimFor(t) \/ CompleteJob(t) \/ ExpireLease(t) \/ Suspend(t) \/ RecoverExpired(t)
    <3>1. ASSUME NEW r \in Requests, Conclude(r) PROVE leaseOf' = leaseOf
      BY <3>1, ConcludeRows DEF Returns
    <3> QED BY <1>3, <3>1 DEF Proceeds, Insert, Withdraw, RunTurn, RunConsultation, RunRequest, Call,
              Die, Sweep, InterruptStale, ReconcileCost, Resume, NewMonth, budgetVars
  <2> QED BY <2>2, <2>3, <2>4
<1> QED BY <1>1, <1>2, <1>3, BudgetSteps, Zenon

-----------------------------------------------------------------------------
(***************************************************************************)
(* Budget, the sessions. A Developer session follows its run.              *)
(*                                                                         *)
(* Three facts carry each other: the native requests of one job come one   *)
(* after another (OneByOne); a Developer that may still be admitted for    *)
(* the current job has seen the cost of every earlier one (SeesCosts), so  *)
(* that none of them runs or may yet be billed; and runs and sessions      *)
(* agree (AloneAtWork).                                                    *)
(***************************************************************************)
LEMMA InterruptsRows ==
  ASSUME BudgetType, NEW S, NEW q \in Runs
  PROVE  LET a == Interrupts(S)[q]
         IN  /\ a.status = IF q \in S THEN "INTERRUPTED" ELSE row[q].status
             /\ a.cost = row[q].cost /\ a.reserve = row[q].reserve /\ a.month = row[q].month
<1>1. row[q] \in RowType
  BY DEF BudgetType
<1> QED BY <1>1 DEF Interrupts, RowType

LEMMA InsertedRow ==
  ASSUME BudgetType, NEW r \in Requests, Insert(r)
  PROVE  /\ \A q \in Requests : q # r => row'[q] = row[q]
         /\ ~ Insertable(r) => row' = row
         /\ Insertable(r) => /\ row'[r].status = "RUNNING" /\ row'[r].cost = Unknown
                             /\ row'[r].reserve = plan[r] /\ row'[r].month = month
<1> DEFINE n == [NoRow EXCEPT !.status = "RUNNING", !.reserve = plan[r], !.month = month]
<1>1. n.status = "RUNNING" /\ n.cost = Unknown /\ n.reserve = plan[r] /\ n.month = month
  BY DEF NoRow
<1>2. IF Insertable(r) THEN row' = [row EXCEPT ![r] = n] ELSE row' = row
  BY DEF Insert
<1>3. Requests \in SUBSET Runs /\ row \in [Runs -> RowType]
  BY DEF BudgetType
<1> HIDE DEF n
<1> QED BY <1>1, <1>2, <1>3

(* How an action changes the row of a request that ends.                    *)
LEMMA ConcludedRow ==
  ASSUME BudgetType, NEW r \in Requests, Conclude(r)
  PROVE  /\ \A q \in Requests : q # r => row'[q] = row[q]
         /\ \/ row'[r] = row[r]
            \/ /\ row'[r].status = "ENDED" /\ row'[r].reserve = row[r].reserve
               /\ row'[r].month = row[r].month
               /\ row'[r].cost = row[r].cost \/ row'[r].cost \in {charge[r], Unknown}
<1>1. r \in Runs /\ Requests \in SUBSET Runs /\ "ENDED" \in RunStatus
      /\ row[r].cost \in Nat \union {Unknown}
  BY DEF BudgetType, RunStatus, RowType
<1>2. CASE row' = row
  BY <1>2
<1>3. CASE row' = Ended(r, "ENDED", row[r].cost)
  <2> DEFINE c == row[r].cost
  <2>1. c \in Nat \union {Unknown} /\ row' = Ended(r, "ENDED", c)
    BY <1>1, <1>3
  <2> HIDE DEF c
  <2>2. /\ \A q \in Runs : q # r => row'[q] = row[q]
        /\ row'[r].status = "ENDED" /\ row'[r].cost = c /\ row'[r].reserve = row[r].reserve
        /\ row'[r].month = row[r].month
    BY <1>1, <2>1, EndedRow
  <2> QED BY <1>1, <2>2 DEF c
<1>4. CASE Receipt(r)
  BY <1>1, <1>4, ReceiptRow
<1> QED BY <1>2, <1>3, <1>4, ConcludeRows

LEMMA WithdrawnRow ==
  ASSUME BudgetType, NEW r \in Requests, Withdraw(r)
  PROVE  /\ \A q \in Requests : q # r => row'[q] = row[q]
         /\ Open(r) => /\ row'[r].status = "ENDED" /\ row'[r].cost = 0
                       /\ row'[r].reserve = row[r].reserve /\ row'[r].month = row[r].month
         /\ ~ Open(r) => row' = row
<1>1. r \in Runs /\ Requests \in SUBSET Runs /\ "ENDED" \in RunStatus /\ 0 \in Nat \union {Unknown}
  BY DEF BudgetType, RunStatus
<1>2. IF Open(r) THEN row' = Ended(r, "ENDED", 0) ELSE row' = row
  BY DEF Withdraw, Open
<1> QED BY <1>1, <1>2, EndedRow

LEMMA StaleRow ==
  ASSUME BudgetType, NEW r \in Requests, InterruptStale(r)
  PROVE  /\ \A q \in Requests : q # r => row'[q] = row[q]
         /\ row'[r].status = "INTERRUPTED" /\ row'[r].cost = row[r].cost
         /\ row'[r].reserve = row[r].reserve /\ row'[r].month = row[r].month
<1>1. r \in Runs /\ Requests \in SUBSET Runs /\ "INTERRUPTED" \in RunStatus
      /\ row[r].cost \in Nat \union {Unknown}
  BY DEF BudgetType, RunStatus, RowType
<1>2. row' = Ended(r, "INTERRUPTED", row[r].cost)
  BY DEF InterruptStale
<1> DEFINE c == row[r].cost
<1>3. c \in Nat \union {Unknown} /\ row' = Ended(r, "INTERRUPTED", c)
  BY <1>1, <1>2
<1> HIDE DEF c
<1>4. /\ \A q \in Runs : q # r => row'[q] = row[q]
      /\ row'[r].status = "INTERRUPTED" /\ row'[r].cost = c /\ row'[r].reserve = row[r].reserve
      /\ row'[r].month = row[r].month
  BY <1>1, <1>3, EndedRow
<1> QED BY <1>1, <1>4 DEF c

LEMMA ReconciledRow ==
  ASSUME BudgetType, NEW r \in Requests, ReconcileCost(r)
  PROVE  /\ \A q \in Requests : q # r => row'[q] = row[q]
         /\ row'[r].status = row[r].status /\ row'[r].cost = charge[r]
         /\ row'[r].reserve = row[r].reserve /\ row'[r].month = row[r].month
<1>1. row[r] \in RowType /\ Requests \in SUBSET Runs /\ row \in [Runs -> RowType]
  BY DEF BudgetType
<1> DEFINE w == [row[r] EXCEPT !.cost = charge[r]]
<1>2. w.status = row[r].status /\ w.cost = charge[r] /\ w.reserve = row[r].reserve
      /\ w.month = row[r].month
  BY <1>1 DEF RowType
<1>3. row' = [row EXCEPT ![r] = w]
  BY DEF ReconcileCost
<1> HIDE DEF w
<1> QED BY <1>1, <1>2, <1>3

(* Whom recovery and the sweep interrupt.                                   *)
LEMMA LostRuns ==
  ASSUME NEW t, NEW j, NEW q \in OfJob(t, j)
  PROVE  q \in Requests /\ Task(q) = t /\ OwnsJob(q) /\ Open(q)
BY DEF OfJob, OfTask, Rows, Open

LEMMA RowsOnlyClose ==
  ASSUME BudgetType, SeesCosts, Proceeds
  PROVE  \A q \in Requests :
           /\ Open(q)' => Open(q) \/ (Insert(q) /\ Insertable(q))
           /\ Developer(q) /\ Unsettled(q)' => Unsettled(q) \/ (Insert(q) /\ Insertable(q))
           /\ Developer(q) /\ Open(q)' => row'[q].cost = Unknown
<1> USE DEF Open, Unsettled
<1> DEFINE Fine(q) ==
      /\ Open(q)' => Open(q) \/ (Insert(q) /\ Insertable(q))
      /\ Developer(q) /\ Unsettled(q)' => Unsettled(q) \/ (Insert(q) /\ Insertable(q))
      /\ Developer(q) /\ Open(q)' => row'[q].cost = Unknown
<1>1. \A q \in Requests : row'[q] = row[q] => Fine(q)
  BY DEF SeesCosts
<1>2. ASSUME NEW r \in Requests, Insert(r) PROVE \A q \in Requests : Fine(q)
  BY <1>1, <1>2, InsertedRow
<1>3. ASSUME NEW r \in Requests, Withdraw(r) PROVE \A q \in Requests : Fine(q)
  <2>1. CASE ~ Open(r)
    BY <1>1, <1>3, <2>1, WithdrawnRow
  <2>2. CASE Open(r)
    <3>1. row'[r].status = "ENDED" /\ \A q \in Requests : q # r => row'[q] = row[q]
      BY <1>3, <2>2, WithdrawnRow
    <3>2. Developer(r) => Unsettled(r)
      BY <2>2 DEF SeesCosts
    <3> QED BY <1>1, <3>1, <3>2
  <2> QED BY <2>1, <2>2
<1>4. ASSUME NEW r \in Requests, Conclude(r) PROVE \A q \in Requests : Fine(q)
  <2>1. Developer(r) /\ row'[r] # row[r] => Unsettled(r)
    <3> SUFFICES ASSUME Developer(r), row' # row PROVE Unsettled(r)
      OBVIOUS
    <3>1. Billable(r) \/ Open(r)
      BY <1>4 DEF Conclude, FinishDeveloper, FinishHelper, FinishSupervisor, FinishRequest, Developer,
           FailDeveloper, FailHelper, FailSupervisor, FailInterpreter, FailCoordinator
    <3> QED BY <3>1 DEF Billable, LateReceipt, SeesCosts
  <2> QED BY <1>1, <1>4, <2>1, ConcludedRow
<1>5. ASSUME NEW r \in Requests, InterruptStale(r) PROVE \A q \in Requests : Fine(q)
  <2>1. ~ Developer(r) /\ row'[r].status # "RUNNING"
    BY <1>5, StaleRow DEF InterruptStale, OwnsJob, Developer
  <2> QED BY <1>1, <1>5, <2>1, StaleRow
<1>6. ASSUME NEW r \in Requests, ReconcileCost(r) PROVE \A q \in Requests : Fine(q)
  <2>1. row[r].status # "RUNNING" /\ row[r].status # "NONE" /\ row[r].cost = Unknown
    BY <1>6 DEF ReconcileCost
  <2> QED BY <1>1, <1>6, <2>1, ReconciledRow
<1>7. ASSUME NEW t, NEW j, row' = Interrupts(OfJob(t, j)) PROVE \A q \in Requests : Fine(q)
  <2> SUFFICES ASSUME NEW q \in Requests PROVE Fine(q)
    OBVIOUS
  <2>1. q \in Runs
    BY DEF BudgetType
  <2>2. /\ row'[q].status = IF q \in OfJob(t, j) THEN "INTERRUPTED" ELSE row[q].status
        /\ row'[q].cost = row[q].cost
    BY <1>7, <2>1, InterruptsRows
  <2>3. q \in OfJob(t, j) => row[q].status = "RUNNING"
    BY LostRuns
  <2> QED BY <2>2, <2>3 DEF SeesCosts
<1>8. ASSUME row' = row PROVE \A q \in Requests : Fine(q)
  BY <1>1, <1>8
<1>9. \/ \E r \in Requests :
            Insert(r) \/ Withdraw(r) \/ Conclude(r) \/ InterruptStale(r) \/ ReconcileCost(r)
      \/ \E t, j : row' = Interrupts(OfJob(t, j))
      \/ row' = row
  BY DEF Proceeds, RunTurn, RunConsultation, RunRequest, Call, Die, Sweep, RecoverExpired, NewMonth,
         ClaimFor, CompleteJob, ExpireLease, Suspend, Resume, budgetVars
<1> HIDE DEF Fine
<1>10. \A q \in Requests : Fine(q)
  BY <1>2, <1>3, <1>4, <1>5, <1>6, <1>7, <1>8, <1>9, Zenon
<1> QED BY <1>10 DEF Fine

(* The job of a lease only grows.                                           *)
LEMMA JobsGrow ==
  ASSUME BudgetType, Proceeds, NEW t \in FundedTasks
  PROVE  leaseOf'[t].job \in Nat /\ leaseOf'[t].job >= leaseOf[t].job /\ leaseOf[t].job \in Nat
<1>1. leaseOf \in [FundedTasks -> LeaseType]
  BY DEF BudgetType
<1>2. ASSUME NEW u \in FundedTasks,
             ClaimFor(u) \/ CompleteJob(u) \/ ExpireLease(u) \/ Suspend(u) \/ RecoverExpired(u)
      PROVE  leaseOf'[t].job \in Nat /\ leaseOf'[t].job >= leaseOf[t].job
  BY <1>1, <1>2 DEF ClaimFor, CompleteJob, ExpireLease, Suspend, RecoverExpired, LeaseType
<1>3. ASSUME NEW r \in Requests, Conclude(r) PROVE leaseOf' = leaseOf
  BY <1>3, ConcludeRows DEF Returns
<1>4. \/ leaseOf' = leaseOf
      \/ \E u \in FundedTasks :
           ClaimFor(u) \/ CompleteJob(u) \/ ExpireLease(u) \/ Suspend(u) \/ RecoverExpired(u)
  BY <1>3 DEF Proceeds, Insert, Withdraw, RunTurn, RunConsultation, RunRequest, Call,
              Die, Sweep, InterruptStale, ReconcileCost, Resume, NewMonth, budgetVars
<1> QED BY <1>1, <1>2, <1>4 DEF LeaseType

LEMMA SeesCostsStep == BudgetType /\ OneByOne /\ SeesCosts /\ [BudgetNext]_budgetVars => SeesCosts'
<1> SUFFICES ASSUME BudgetType, OneByOne, SeesCosts, [BudgetNext]_budgetVars PROVE SeesCosts'
  OBVIOUS
<1>w. work' = work
  BY WorkStays
<1>t. /\ Requests \in SUBSET Runs
      /\ \A r \in Requests : Task(r) \in FundedTasks
      /\ jobOf \in [Runs -> Nat] /\ pc \in [Runs -> Places] /\ leaseOf \in [FundedTasks -> LeaseType]
  BY DEF BudgetType, Task
<1>1. ASSUME NEW r \in Requests, NEW amount \in Nat, NEW j \in Nat,
             \/ CheckDeveloper(r) \/ CheckHelper(r)
             \/ SupervisorRequest(r) \/ InterpreterRequest(r) \/ CoordinatorRequest(r),
             Plan(r, amount, j)
      PROVE  SeesCosts'
  <2>1. row' = row /\ leaseOf' = leaseOf
        /\ \A q \in Requests : q # r => pc'[q] = pc[q] /\ jobOf'[q] = jobOf[q]
    BY <1>1, <1>t DEF Plan
  <2>2. Developer(r) => \A p \in Requests : Together(p, r) /\ Developer(p) => ~ Unsettled(p)
    <3> SUFFICES ASSUME Developer(r), NEW p \in Requests, Together(p, r), Developer(p), Unsettled(p)
                 PROVE  FALSE
      OBVIOUS
    <3>1. CheckDeveloper(r)
      BY <1>1 DEF Developer, CheckHelper, SupervisorRequest, InterpreterRequest, CoordinatorRequest
    <3>2. p \in OfTask(Task(r)) /\ ~ Coordinating(p)
      BY DEF OfTask, Rows, Together, Unsettled, Coordinating, Developer
    <3> QED BY <3>1, <3>2 DEF CheckDeveloper, SettledButCoordination, EngineeringCost, Unsettled
  <2>3. \A p, q \in Requests : Together(p, q) /\ Developer(p) /\ Developer(q) =>
          (pc'[q] \in {"checked", "admitting"} /\ jobOf'[q] = leaseOf[Task(q)].job => ~ Unsettled(p))
    BY <2>1, <2>2 DEF SeesCosts
  <2> QED BY <1>w, <2>1, <2>3, SameRequests DEF SeesCosts, Open, Unsettled
<1>2. ASSUME NEW r \in Requests, ReadTotals(r) PROVE SeesCosts'
  <2>1. /\ row' = row /\ leaseOf' = leaseOf /\ jobOf' = jobOf
        /\ \A q \in Requests : pc'[q] \in {"checked", "admitting"} => pc[q] \in {"checked", "admitting"}
    BY <1>2, <1>t DEF ReadTotals
  <2> QED BY <1>w, <2>1, SameRequests DEF SeesCosts, Open, Unsettled
<1>3. ASSUME Proceeds PROVE SeesCosts'
  <2>1. jobOf' = jobOf /\ \A q \in Requests : pc'[q] \in {"checked", "admitting"} => pc'[q] = pc[q]
    BY <1>3, ProceedsPlaces
  <2>2. \A q \in Requests : Developer(q) /\ Open(q)' => row'[q].cost = Unknown
    BY <1>3, RowsOnlyClose
  <2>3. ASSUME NEW p \in Requests, NEW q \in Requests, Together(p, q), Developer(p), Developer(q),
               Unsettled(p)'
        PROVE  /\ ~ Open(q)'
               /\ ~ (pc'[q] \in {"checked", "admitting"} /\ jobOf'[q] = leaseOf'[Task(q)].job)
    <3>1. Unsettled(p) \/ (Insert(p) /\ Insertable(p))
      BY <1>3, <2>3, RowsOnlyClose
    <3>2. ASSUME Open(q)' PROVE FALSE
      <4>1. Open(q) \/ (Insert(q) /\ Insertable(q))
        BY <1>3, <3>2, RowsOnlyClose
      <4>2. CASE Unsettled(p) /\ Open(q)
        BY <2>3, <4>2 DEF SeesCosts
      <4>3. CASE Insert(p) /\ Insertable(p) /\ Open(q)
        <5>1. q \in OfTask(Task(p)) /\ Role(q) # "COORDINATOR"
          BY <2>3, <4>3 DEF OfTask, Rows, Open, Together, Developer
        <5> QED BY <2>3, <4>3, <5>1 DEF Insertable, DeveloperMayStart, Developer, Open
      <4>4. CASE Insert(q) /\ Insertable(q)
        <5>1. row'[p] = row[p]
          BY <2>3, <4>4, InsertedRow DEF Together
        <5>2. Holds(q) /\ pc[q] = "admitting"
          BY <4>4 DEF Insert, Holds
        <5>3. jobOf[q] = leaseOf[Task(q)].job
          BY <2>3, <5>2 DEF OneByOne
        <5> QED BY <2>3, <5>1, <5>2, <5>3 DEF SeesCosts, Unsettled
      <4> QED BY <3>1, <4>1, <4>2, <4>3, <4>4
    <3>3. ASSUME pc'[q] \in {"checked", "admitting"}, jobOf'[q] = leaseOf'[Task(q)].job PROVE FALSE
      <4>1. pc[q] \in {"checked", "admitting"} /\ jobOf[q] = leaseOf'[Task(q)].job
        BY <2>1, <3>3
      <4>2. jobOf[q] = leaseOf[Task(q)].job
        BY <1>3, <1>t, <4>1, JobsGrow DEF OneByOne
      <4>3. CASE Unsettled(p)
        BY <2>3, <4>1, <4>2, <4>3 DEF SeesCosts
      <4>4. CASE Insert(p)
        <5>1. Holds(p) /\ InProgress(p) /\ InProgress(q)
          BY <4>1, <4>4 DEF Insert, Holds, InProgress
        <5>2. jobOf[p] = leaseOf[Task(p)].job
          BY <2>3, <5>1 DEF OneByOne
        <5> QED BY <2>3, <4>2, <5>1, <5>2 DEF OneByOne, Native, Developer, Together
      <4> QED BY <3>1, <4>3, <4>4
    <3> QED BY <3>2, <3>3
  <2>4. \A p, q \in Requests : Together(p, q) /\ Developer(p) /\ Developer(q) =>
          /\ (Open(q)') => ~ (Unsettled(p)')
          /\ pc'[q] \in {"checked", "admitting"} /\ jobOf'[q] = leaseOf'[Task(q)].job
                => ~ (Unsettled(p)')
    BY <2>3
  <2> QED BY <1>w, <2>2, <2>4, SameRequests DEF SeesCosts
<1> QED BY <1>1, <1>2, <1>3, BudgetSteps, Zenon

LEMMA OpenAlone ==
  ASSUME BudgetType, OneByOne, SeesCosts, AloneAtWork, [BudgetNext]_budgetVars
  PROVE  \A p, q \in Requests : Together(p, q) /\ Native(p) /\ Native(q) => ~ (Open(p)' /\ Open(q)')
<1>1. CASE row' = row
  BY <1>1 DEF AloneAtWork, Open
<1>2. ASSUME Proceeds
      PROVE  \A p, q \in Requests :
               Together(p, q) /\ Native(p) /\ Native(q) => ~ (Open(p)' /\ Open(q)')
  <2>1. ASSUME NEW p \in Requests, NEW q \in Requests, Together(p, q), Native(p), Native(q),
               Insert(p), Insertable(p), Open(q)
        PROVE  FALSE
    <3>1. q \in OfTask(Task(p)) /\ Role(q) # "COORDINATOR" /\ row[q].status = "RUNNING"
      BY <2>1 DEF OfTask, Rows, Open, Together, Native
    <3> QED BY <2>1, <3>1 DEF Insertable, DeveloperMayStart, HelperMayStart, Native
  <2>2. ASSUME NEW p \in Requests, NEW q \in Requests, Together(p, q), Insert(p), Open(q)'
        PROVE  Open(q)
    BY <2>2, InsertedRow DEF Open, Together
  <2>3. \A q \in Requests : Open(q)' => Open(q) \/ (Insert(q) /\ Insertable(q))
    BY <1>2, RowsOnlyClose
  <2>4. \A p, q \in Requests : Together(p, q) => Together(q, p)
    BY DEF Together
  <2> QED BY <2>1, <2>2, <2>3, <2>4 DEF AloneAtWork
<1>3. row' = row \/ Proceeds
  BY BudgetSteps DEF Plan, ReadTotals
<1> QED BY <1>1, <1>2, <1>3

LEMMA SessionsShow ==
  ASSUME BudgetType, OneByOne, SeesCosts, AloneAtWork, [BudgetNext]_budgetVars
  PROVE  \A t \in FundedTasks :
           native'[t] = "RUNNING" <=> \E r \in Requests : Task(r) = t /\ Developer(r) /\ Open(r)'
<1> DEFINE Right(t) == native'[t] = "RUNNING" <=> \E r \in Requests : Task(r) = t /\ Developer(r) /\ Open(r)'
<1>t. /\ native \in [FundedTasks -> {"READY", "RUNNING", "BLOCKED"}]
      /\ \A r \in Requests : Task(r) \in FundedTasks
  BY DEF BudgetType, Task
<1>1. ASSUME NEW t \in FundedTasks, native'[t] = native[t],
             \A r \in Requests : Task(r) = t /\ Developer(r) => (Open(r)' <=> Open(r))
      PROVE  Right(t)
  BY <1>1 DEF AloneAtWork
<1>2. ASSUME NEW r \in Requests, Developer(r), \A q \in Requests : q # r => row'[q] = row[q],
             \/ Open(r) \/ Unsettled(r), ~ Open(r)',
             NEW s \in {"READY", "BLOCKED"}, native' = Parks(r, s)
      PROVE  \A t \in FundedTasks : Right(t)
  <2>1. \A t \in FundedTasks : t # Task(r) => Right(t)
    BY <1>1, <1>2, <1>t DEF Parks, Developer, Open
  <2>2. \A q \in Requests : q # r /\ Task(q) = Task(r) /\ Developer(q) => ~ (Open(q)')
    BY <1>2 DEF AloneAtWork, SeesCosts, Together, Native, Developer, Open
  <2>3. native'[Task(r)] # "RUNNING"
    BY <1>2, <1>t DEF Parks, Developer
  <2> QED BY <1>2, <2>1, <2>2, <2>3
<1>3. ASSUME NEW r \in Requests, native' = native, ~ Developer(r),
             \A q \in Requests : q # r => row'[q] = row[q]
      PROVE  \A t \in FundedTasks : Right(t)
  BY <1>1, <1>3 DEF Open
<1>4. ASSUME row' = row, native' = native PROVE \A t \in FundedTasks : Right(t)
  BY <1>1, <1>4 DEF Open
<1>5. ASSUME NEW r \in Requests, Insert(r) PROVE \A t \in FundedTasks : Right(t)
  <2>1. CASE ~ Insertable(r)
    BY <1>4, <1>5, <2>1 DEF Insert
  <2>2. CASE Insertable(r) /\ ~ Developer(r)
    BY <1>3, <1>5, <2>2, InsertedRow DEF Insert, Developer
  <2>3. CASE Insertable(r) /\ Developer(r)
    <3>1. native' = [native EXCEPT ![Task(r)] = "RUNNING"]
      BY <1>5, <2>3 DEF Insert, Developer
    <3>2. Open(r)' /\ \A q \in Requests : q # r => row'[q] = row[q]
      BY <1>5, <2>3, InsertedRow DEF Open
    <3>3. \A t \in FundedTasks : t # Task(r) => Right(t)
      BY <1>1, <3>1, <3>2 DEF Open
    <3>4. native'[Task(r)] = "RUNNING"
      BY <1>t, <3>1
    <3> QED BY <2>3, <3>2, <3>3, <3>4
  <2> QED BY <2>1, <2>2, <2>3
<1>6. ASSUME NEW r \in Requests, Withdraw(r) PROVE \A t \in FundedTasks : Right(t)
  <2>1. CASE ~ Open(r)
    BY <1>4, <1>6, <2>1 DEF Withdraw, Open
  <2>2. CASE Open(r)
    <3>1. /\ \A q \in Requests : q # r => row'[q] = row[q]
          /\ ~ (Open(r)') /\ native' = Parks(r, "BLOCKED")
      BY <1>6, <2>2, WithdrawnRow DEF Withdraw, Open
    <3>2. ~ Developer(r) => native' = native
      BY <3>1 DEF Parks, Developer
    <3> QED BY <1>2, <1>3, <2>2, <3>1, <3>2
  <2> QED BY <2>1, <2>2
<1>7. ASSUME NEW r \in Requests, Conclude(r) PROVE \A t \in FundedTasks : Right(t)
  <2>1. \A q \in Requests : q # r => row'[q] = row[q]
    BY <1>7, ConcludedRow
  <2>2. CASE ~ Developer(r)
    <3>1. native' = native
      BY <1>7, <2>2 DEF Conclude, FinishDeveloper, FinishHelper, FinishSupervisor, FinishRequest, Developer,
           FailDeveloper, FailHelper, FailSupervisor, FailInterpreter, FailCoordinator
    <3> QED BY <1>3, <2>1, <2>2, <3>1
  <2>3. CASE Developer(r)
    <3>1. FinishDeveloper(r) \/ FailDeveloper(r)
      BY <1>7, <2>3 DEF Conclude, FinishHelper, FinishSupervisor, FinishRequest, Developer,
           FailHelper, FailSupervisor, FailInterpreter, FailCoordinator
    <3>2. \/ row' = row /\ native' = native
          \/ /\ Open(r) \/ Unsettled(r)
             /\ Receipt(r) \/ GivesUp(r)
             /\ \E s \in {"READY", "BLOCKED"} : native' = Parks(r, s)
      BY <3>1 DEF FinishDeveloper, FailDeveloper, Billable, LateReceipt, Open, Unsettled
    <3>3. Receipt(r) \/ GivesUp(r) => ~ (Open(r)')
      <4>1. Receipt(r) => row'[r].status = "ENDED"
        BY ReceiptRow
      <4>2. GivesUp(r) => row'[r].status = "ENDED"
        <5> DEFINE c == row[r].cost
        <5>1. r \in Runs /\ c \in Nat \union {Unknown} /\ "ENDED" \in RunStatus
          BY DEF BudgetType, RowType, RunStatus
        <5>2. GivesUp(r) => row' = Ended(r, "ENDED", c)
          BY DEF GivesUp
        <5> HIDE DEF c
        <5> QED BY <5>1, <5>2, EndedRow
      <4> QED BY <4>1, <4>2 DEF Open
    <3> QED BY <1>2, <1>4, <2>1, <2>3, <3>2, <3>3
  <2> QED BY <2>2, <2>3
<1>8. ASSUME NEW u \in FundedTasks, NEW j, row' = Interrupts(OfJob(u, j)),
             native' = BlocksSession(u, OfJob(u, j))
      PROVE  \A t \in FundedTasks : Right(t)
  <2> DEFINE lost == OfJob(u, j)
  <2>1. \A q \in lost : q \in Requests /\ Task(q) = u /\ Open(q)
    BY LostRuns
  <2>2. \A q \in Requests : (Open(q)') <=> Open(q) /\ q \notin lost
    <3> SUFFICES ASSUME NEW q \in Requests PROVE (Open(q)') <=> Open(q) /\ q \notin lost
      OBVIOUS
    <3>1. q \in Runs
      BY DEF BudgetType
    <3>2. row'[q].status = IF q \in lost THEN "INTERRUPTED" ELSE row[q].status
      BY <1>8, <3>1, InterruptsRows
    <3> QED BY <3>2 DEF Open
  <2> HIDE DEF lost
  <2>3. CASE \E d \in lost : Developer(d)
    <3>1. PICK d \in lost : Developer(d)
      BY <2>3
    <3>2. \A q \in Requests : Task(q) = u /\ Developer(q) => ~ (Open(q)')
      BY <2>1, <2>2, <3>1 DEF AloneAtWork, Together, Native, Developer
    <3>3. native' = [native EXCEPT ![u] = "BLOCKED"]
      BY <1>8, <2>3 DEF BlocksSession, Developer, lost
    <3>4. \A t \in FundedTasks : t # u => Right(t)
      BY <1>1, <2>1, <2>2, <3>3
    <3>5. native'[u] # "RUNNING"
      BY <1>t, <3>3
    <3> QED BY <3>2, <3>4, <3>5
  <2>4. CASE ~ \E d \in lost : Developer(d)
    <3>1. native' = native
      BY <1>8, <2>4 DEF BlocksSession, Developer, lost
    <3> QED BY <1>1, <2>2, <2>4, <3>1
  <2> QED BY <2>3, <2>4
<1>9. ASSUME NEW r \in Requests, InterruptStale(r) PROVE \A t \in FundedTasks : Right(t)
  <2>1. ~ Developer(r) /\ native' = native
    BY <1>9 DEF InterruptStale, OwnsJob, Developer
  <2> QED BY <1>3, <1>9, <2>1, StaleRow
<1>10. ASSUME NEW r \in Requests, ReconcileCost(r) PROVE \A t \in FundedTasks : Right(t)
  <2>1. native' = native /\ \A q \in Requests : (Open(q)') <=> Open(q)
    BY <1>10, ReconciledRow DEF ReconcileCost, Open
  <2> QED BY <1>1, <2>1
<1>11. \/ row' = row /\ native' = native
       \/ \E r \in Requests :
            Insert(r) \/ Withdraw(r) \/ Conclude(r) \/ InterruptStale(r) \/ ReconcileCost(r)
       \/ \E u \in FundedTasks, j \in Nat :
            row' = Interrupts(OfJob(u, j)) /\ native' = BlocksSession(u, OfJob(u, j))
  <2>1. ASSUME NEW r \in Requests, Sweep(r)
        PROVE  \E u \in FundedTasks, j \in Nat :
                 row' = Interrupts(OfJob(u, j)) /\ native' = BlocksSession(u, OfJob(u, j))
    <3>1. Task(r) \in FundedTasks /\ jobOf[r] \in Nat
      BY DEF BudgetType, Task
    <3> QED BY <2>1, <3>1 DEF Sweep
  <2>2. ASSUME NEW t \in FundedTasks, RecoverExpired(t)
        PROVE  \E u \in FundedTasks, j \in Nat :
                 row' = Interrupts(OfJob(u, j)) /\ native' = BlocksSession(u, OfJob(u, j))
    <3>1. leaseOf[t].job \in Nat
      BY DEF BudgetType, LeaseType
    <3> QED BY <2>2, <3>1 DEF RecoverExpired
  <2>3. Proceeds =>
          \/ row' = row /\ native' = native
          \/ \E r \in Requests :
               Insert(r) \/ Withdraw(r) \/ Conclude(r) \/ InterruptStale(r) \/ ReconcileCost(r) \/ Sweep(r)
          \/ \E t \in FundedTasks : RecoverExpired(t)
    BY DEF Proceeds, RunTurn, RunConsultation, RunRequest, Call, Die, NewMonth,
           ClaimFor, CompleteJob, ExpireLease, Suspend, Resume, budgetVars
  <2>4. (row' = row /\ native' = native) \/ Proceeds
    BY BudgetSteps DEF Plan, ReadTotals
  <2> QED BY <2>1, <2>2, <2>3, <2>4, Zenon
<1> HIDE DEF Right
<1>12. \A t \in FundedTasks : Right(t)
  BY <1>4, <1>5, <1>6, <1>7, <1>8, <1>9, <1>10, <1>11, Zenon
<1> QED BY <1>12 DEF Right

LEMMA AloneAtWorkStep ==
  BudgetType /\ OneByOne /\ SeesCosts /\ AloneAtWork /\ [BudgetNext]_budgetVars => AloneAtWork'
<1> SUFFICES ASSUME BudgetType, OneByOne, SeesCosts, AloneAtWork, [BudgetNext]_budgetVars
             PROVE  AloneAtWork'
  OBVIOUS
<1>1. work' = work
  BY WorkStays
<1> QED BY <1>1, OpenAlone, SessionsShow, SameRequests DEF AloneAtWork

SessionInv == BudgetType /\ OneByOne /\ SeesCosts /\ AloneAtWork

LEMMA SessionInvInit == BudgetInit => SessionInv
<1> SUFFICES ASSUME BudgetInit PROVE SessionInv
  OBVIOUS
<1>1. BudgetType
  BY BudgetTypeInit
<1>2. \A r \in Requests : r \in Runs /\ Task(r) \in FundedTasks
  BY <1>1 DEF BudgetType, Task
<1>3. \A r \in Requests : pc[r] = "idle" /\ row[r].status = "NONE" /\ jobOf[r] = 0 /\ leaseOf[Task(r)].job = 0
  BY <1>2 DEF BudgetInit, NoRow
<1>4. \A t \in FundedTasks : native[t] # "RUNNING"
  BY DEF BudgetInit
<1> QED
  BY <1>1, <1>3, <1>4
  DEF SessionInv, OneByOne, SeesCosts, AloneAtWork, Open, Unsettled, InProgress, Holds

LEMMA SessionInvariant == BudgetSpec => []SessionInv
<1>1. SessionInv /\ [BudgetNext]_budgetVars => SessionInv'
  BY BudgetTypeStep, OneByOneStep, SeesCostsStep, AloneAtWorkStep DEF SessionInv
<1> QED BY <1>1, SessionInvInit, PTL DEF BudgetSpec

(* For any number of requests, jobs, Teams and months: a session is RUNNING *)
(* exactly while one Developer run of its task is, and no helper runs       *)
(* beside it (recover(), sweep(), finish_run(), fail_run()).                *)
THEOREM SessionsFollowRuns == BudgetSpec => []SessionFollowsItsRun
<1>1. SessionInv => SessionFollowsItsRun
  <2> SUFFICES ASSUME SessionInv, NEW t \in FundedTasks
               PROVE  LET running(k) == {r \in OfTask(t) : row[r].status = "RUNNING" /\ Role(r) = k}
                      IN  /\ native[t] = "RUNNING" <=> running("DEVELOPER") # {}
                          /\ Cardinality(running("DEVELOPER") \cup running("HELPER")) <= 1
    BY DEF SessionFollowsItsRun
  <2> DEFINE running(k) == {r \in OfTask(t) : row[r].status = "RUNNING" /\ Role(r) = k}
             both == running("DEVELOPER") \union running("HELPER")
  <2>1. \A r : r \in running("DEVELOPER") <=> r \in Requests /\ Task(r) = t /\ Developer(r) /\ Open(r)
    BY DEF OfTask, Rows, Developer, Open
  <2>2. \A p, q \in both : p = q
    BY DEF SessionInv, AloneAtWork, OfTask, Rows, Open, Native, Together
  <2>3. both = {} \/ \E p : both = {p}
    BY <2>2
  <2> HIDE DEF both
  <2>4. Cardinality(both) <= 1
    <3>1. CASE both = {}
      BY <3>1, FS_EmptySet
    <3>2. ASSUME NEW p, both = {p} PROVE Cardinality(both) <= 1
      <4>1. Cardinality({p}) = 1
        BY FS_Singleton, Zenon
      <4> QED BY <3>2, <4>1
    <3> QED BY <2>3, <3>1, <3>2
  <2> QED BY <2>1, <2>4 DEF SessionInv, AloneAtWork, both
<1> QED BY <1>1, SessionInvariant, PTL

-----------------------------------------------------------------------------
(***************************************************************************)
(* Budget, the limits. What providers charged stays within every limit.    *)
(*                                                                         *)
(* Charges are learned late, partly or never, so the invariant bounds what *)
(* a request may still come to cost: its plan while it is being admitted,  *)
(* its reservation until the call, then the charge. A row whose cost is    *)
(* known tells all of it (CostsCovered), and admissions that share a limit *)
(* exclude each other (OneAdmission), which is also what holds when the    *)
(* month ends in the middle of one. Only an admission raises an exposure,  *)
(* and what it checked covers all others of its limit.                     *)
(***************************************************************************)
(* What request r can still make the program pay, or has made it pay, and   *)
(* the month it counts for.                                                 *)
Exposure(r) ==
  IF Holds(r) THEN plan[r] ELSE IF pc[r] = "reserved" THEN row[r].reserve ELSE charge[r]
BilledTo(r) == IF Holds(r) THEN month ELSE row[r].month
ExposureIn(r, k) == IF BilledTo(r) = k THEN Exposure(r) ELSE 0

(* A row that tells its cost tells all of it, and a running one reserves    *)
(* what may be charged.                                                     *)
Covered(r) ==
  /\ pc[r] \in {"idle", "checked", "admitting"} => row[r].status = "NONE"
  /\ pc[r] \in {"reserved", "paid"} => row[r].status # "NONE"
  /\ pc[r] = "reserved" \/ row[r].status = "NONE" => charge[r] = 0
  /\ row[r].status # "NONE" => charge[r] <= row[r].reserve
  /\ row[r].status = "RUNNING" => row[r].cost = Unknown
  /\ row[r].status \notin {"NONE", "RUNNING"} /\ row[r].cost # Unknown =>
       pc[r] # "reserved" /\ row[r].cost = charge[r]
  /\ row[r].month <= month
CostsCovered == \A r \in Requests : Covered(r)

(* Admissions that share a limit exclude each other.                        *)
OneAdmission ==
  /\ \A p, q \in Requests : p # q /\ Holds(p) /\ Holds(q) => account = NoLimit /\ Team(p) # Team(q)
  /\ \A r \in Requests : Holds(r) => plan[r] <= MonthLimit /\ (account # NoLimit => plan[r] <= account)

Exposures == [r \in Requests |-> Exposure(r)]
ExposuresIn(k) == [r \in Requests |-> ExposureIn(r, k)]
ForTask(t) == {r \in Requests : Task(r) = t}
ForTeam(m) == {r \in Requests : Team(r) = m}

WithinLimits ==
  /\ \A t \in FundedTasks : SumOf(Exposures, ForTask(t)) <= TaskLimit
  /\ \A m \in FundedTeams : /\ SumOf(Exposures, ForTeam(m)) <= TeamLimit
                            /\ \A k \in Nat : SumOf(ExposuresIn(k), ForTeam(m)) <= MonthLimit
  /\ account # NoLimit => \A k \in Nat : SumOf(ExposuresIn(k), Requests) <= account

LimitsInv == BudgetType /\ CostsCovered /\ OneAdmission /\ WithinLimits

LEMMA RequestTypes ==
  ASSUME BudgetType
  PROVE  \A r \in Requests :
           /\ r \in Runs /\ Task(r) \in FundedTasks /\ Team(r) \in FundedTeams
           /\ plan[r] \in Nat /\ charge[r] \in Nat /\ row[r] \in RowType /\ pc[r] \in Places
           /\ row[r].reserve \in Nat /\ row[r].month \in Nat /\ row[r].cost \in Nat \union {Unknown}
BY BudgetAssumption DEF BudgetType, Task, Team, RowType

LEMMA ExposureTypes ==
  ASSUME BudgetType
  PROVE  \A r \in Requests : /\ Exposure(r) \in Nat /\ BilledTo(r) \in Nat
                             /\ \A k \in Nat : ExposureIn(r, k) \in Nat
<1>1. month \in Nat
  BY DEF BudgetType
<1> QED BY <1>1, RequestTypes DEF Exposure, BilledTo, ExposureIn

LEMMA CallsOnly ==
  ASSUME BudgetType, NEW r \in Requests, RunTurn(r) \/ RunConsultation(r) \/ RunRequest(r)
  PROVE  /\ pc[r] = "reserved" /\ pc' = [pc EXCEPT ![r] = "paid"] /\ row' = row /\ plan' = plan
         /\ month' = month
         /\ \E c \in {0, row[r].reserve} : charge' = [charge EXCEPT ![r] = c]
BY DEF RunTurn, RunConsultation, RunRequest, Call

(* What one action does to a request it is not about.                       *)
LEMMA CoveredStays ==
  ASSUME BudgetType, NEW r \in Requests, Covered(r), pc'[r] = pc[r], row'[r] = row[r],
         charge'[r] = charge[r], month' \in Nat, month' >= month
  PROVE  Covered(r)'
<1>1. row[r].month \in Nat /\ month \in Nat
  BY RequestTypes DEF BudgetType
<1> QED BY <1>1 DEF Covered

LEMMA CostsCoveredStep == BudgetType /\ CostsCovered /\ [BudgetNext]_budgetVars => CostsCovered'
<1> SUFFICES ASSUME BudgetType, CostsCovered, [BudgetNext]_budgetVars PROVE CostsCovered'
  OBVIOUS
<1>w. Requests' = Requests
  BY WorkStays, SameRequests
<1>t. /\ Requests \in SUBSET Runs /\ pc \in [Runs -> Places] /\ charge \in [Runs -> Nat]
      /\ row \in [Runs -> RowType] /\ month \in Nat
  BY DEF BudgetType
<1> DEFINE All == \A q \in Requests : Covered(q)'
<1>0. ASSUME NEW r \in Requests, month' = month, Covered(r)',
             \A q \in Requests : q # r => pc'[q] = pc[q] /\ row'[q] = row[q] /\ charge'[q] = charge[q]
      PROVE  All
  BY <1>0, <1>t, CoveredStays DEF CostsCovered
<1>1. ASSUME NEW r \in Requests, NEW amount \in Nat, NEW j \in Nat,
             \/ CheckDeveloper(r) \/ CheckHelper(r)
             \/ SupervisorRequest(r) \/ InterpreterRequest(r) \/ CoordinatorRequest(r),
             Plan(r, amount, j)
      PROVE  All
  <2>1. /\ pc[r] = "idle" /\ pc' = [pc EXCEPT ![r] = "checked"]
        /\ row' = row /\ charge' = charge /\ month' = month
    BY <1>1 DEF Plan, CheckDeveloper, CheckHelper, SupervisorRequest, InterpreterRequest,
         CoordinatorRequest, MayPlan
  <2>2. Covered(r)'
    BY <1>t, <2>1 DEF CostsCovered, Covered
  <2> QED BY <1>0, <1>t, <2>1, <2>2
<1>2. ASSUME NEW r \in Requests, ReadTotals(r) PROVE All
  <2>1. /\ pc[r] = "checked" /\ row' = row /\ charge' = charge /\ month' = month
        /\ \E to \in {"admitting", "gone"} : pc' = [pc EXCEPT ![r] = to]
    BY <1>2 DEF ReadTotals
  <2>2. Covered(r)'
    BY <1>t, <2>1 DEF CostsCovered, Covered
  <2> QED BY <1>0, <1>t, <2>1, <2>2
<1>3. ASSUME NEW r \in Requests, Insert(r) PROVE All
  <2>1. /\ pc[r] = "admitting" /\ charge' = charge /\ month' = month
        /\ pc' = [pc EXCEPT ![r] = IF Insertable(r) THEN "reserved" ELSE "gone"]
    BY <1>3 DEF Insert
  <2>2. Covered(r)'
    <3>1. CASE Insertable(r)
      <4>1. /\ row'[r].status = "RUNNING" /\ row'[r].cost = Unknown /\ row'[r].reserve = plan[r]
            /\ row'[r].month = month /\ plan[r] \in Nat
        BY <1>3, <3>1, InsertedRow, RequestTypes
      <4>2. pc'[r] = "reserved" /\ charge'[r] = 0
        BY <1>t, <2>1, <3>1 DEF CostsCovered, Covered
      <4> QED BY <1>t, <2>1, <4>1, <4>2 DEF Covered
    <3>2. CASE ~ Insertable(r)
      <4>1. row' = row
        BY <1>3, <3>2, InsertedRow
      <4> QED BY <1>t, <2>1, <3>2, <4>1 DEF CostsCovered, Covered
    <3> QED BY <3>1, <3>2
  <2> QED BY <1>0, <1>3, <1>t, <2>1, <2>2, InsertedRow
<1>4. ASSUME NEW r \in Requests, Withdraw(r) PROVE All
  <2>1. /\ pc[r] = "reserved" /\ charge' = charge /\ month' = month /\ pc' = [pc EXCEPT ![r] = "gone"]
    BY <1>4 DEF Withdraw
  <2>2. Covered(r)'
    <3>1. CASE Open(r)
      <4>1. /\ row'[r].status = "ENDED" /\ row'[r].cost = 0 /\ row'[r].reserve = row[r].reserve
            /\ row'[r].month = row[r].month
        BY <1>4, <3>1, WithdrawnRow
      <4>2. pc'[r] = "gone" /\ charge'[r] = 0 /\ charge[r] = 0 /\ row[r].status # "NONE"
        BY <1>t, <2>1 DEF CostsCovered, Covered
      <4> QED BY <1>t, <2>1, <4>1, <4>2 DEF CostsCovered, Covered
    <3>2. CASE ~ Open(r)
      <4>1. row' = row
        BY <1>4, <3>2, WithdrawnRow
      <4> QED BY <1>t, <2>1, <4>1 DEF CostsCovered, Covered
    <3> QED BY <3>1, <3>2
  <2> QED BY <1>0, <1>4, <1>t, <2>1, <2>2, WithdrawnRow
<1>5. ASSUME NEW r \in Requests, RunTurn(r) \/ RunConsultation(r) \/ RunRequest(r) PROVE All
  <2>1. /\ pc[r] = "reserved" /\ row' = row /\ month' = month /\ pc' = [pc EXCEPT ![r] = "paid"]
    BY <1>5, CallsOnly
  <2>2. PICK c \in {0, row[r].reserve} : charge' = [charge EXCEPT ![r] = c]
    BY <1>5, CallsOnly
  <2>3. Covered(r)'
    <3>1. charge'[r] = c /\ pc'[r] = "paid" /\ c <= row[r].reserve
      BY <1>t, <2>1, <2>2, RequestTypes
    <3> QED BY <1>t, <2>1, <3>1 DEF CostsCovered, Covered
  <2> QED BY <1>0, <1>t, <2>1, <2>2, <2>3
<1>6. ASSUME NEW r \in Requests, Conclude(r) PROVE All
  <2>1. /\ pc[r] = "paid" /\ charge' = charge /\ month' = month /\ pc' = [pc EXCEPT ![r] = "gone"]
    BY <1>6, ConcludeRows DEF Returns
  <2>2. pc'[r] = "gone" /\ charge'[r] = charge[r]
    BY <1>t, <2>1
  <2>3. Covered(r)'
    <3>1. CASE row'[r] = row[r]
      BY <1>t, <2>1, <2>2, <3>1 DEF CostsCovered, Covered
    <3>2. CASE /\ row'[r].status = "ENDED" /\ row'[r].reserve = row[r].reserve
               /\ row'[r].month = row[r].month
               /\ row'[r].cost = row[r].cost \/ row'[r].cost \in {charge[r], Unknown}
      BY <1>t, <2>1, <2>2, <3>2 DEF CostsCovered, Covered
    <3> QED BY <1>6, <3>1, <3>2, ConcludedRow
  <2> QED BY <1>0, <1>6, <1>t, <2>1, <2>3, ConcludedRow
<1>7. ASSUME NEW r \in Requests, Die(r) PROVE All
  <2>1. /\ pc[r] \in {"admitting", "reserved", "paid"} /\ row' = row /\ charge' = charge
        /\ month' = month /\ pc' = [pc EXCEPT ![r] = "gone"]
    BY <1>7 DEF Die
  <2>2. Covered(r)'
    BY <1>t, <2>1 DEF CostsCovered, Covered
  <2> QED BY <1>0, <1>t, <2>1, <2>2
<1>8. ASSUME NEW r \in Requests, InterruptStale(r) PROVE All
  <2>1. pc' = pc /\ charge' = charge /\ month' = month /\ Open(r)
    BY <1>8 DEF InterruptStale, Open
  <2>2. Covered(r)'
    BY <1>t, <1>8, <2>1, StaleRow DEF CostsCovered, Covered, Open
  <2> QED BY <1>0, <1>8, <2>1, <2>2, StaleRow
<1>9. ASSUME NEW r \in Requests, ReconcileCost(r) PROVE All
  <2>1. /\ pc' = pc /\ charge' = charge /\ month' = month /\ pc[r] \in {"paid", "gone"}
        /\ row[r].status \notin {"NONE", "RUNNING"}
    BY <1>9 DEF ReconcileCost
  <2>2. Covered(r)'
    BY <1>t, <1>9, <2>1, ReconciledRow DEF CostsCovered, Covered
  <2> QED BY <1>0, <1>9, <2>1, <2>2, ReconciledRow
<1>10. ASSUME NEW t, NEW j, row' = Interrupts(OfJob(t, j)), pc' = pc, charge' = charge, month' = month
       PROVE  All
  <2> SUFFICES ASSUME NEW q \in Requests PROVE Covered(q)'
    OBVIOUS
  <2>1. /\ row'[q].status = IF q \in OfJob(t, j) THEN "INTERRUPTED" ELSE row[q].status
        /\ row'[q].cost = row[q].cost /\ row'[q].reserve = row[q].reserve /\ row'[q].month = row[q].month
    BY <1>10, <1>t, InterruptsRows
  <2>2. q \in OfJob(t, j) => row[q].status = "RUNNING"
    BY LostRuns DEF Open
  <2> QED BY <1>10, <2>1, <2>2 DEF CostsCovered, Covered
<1>11. ASSUME pc' = pc, row' = row, charge' = charge, month' \in Nat, month' >= month PROVE All
  BY <1>11, CoveredStays DEF CostsCovered
<1>12. ASSUME Proceeds PROVE All
  <2>1. CASE \/ \E t \in FundedTasks : ClaimFor(t) \/ CompleteJob(t) \/ ExpireLease(t)
                                         \/ Suspend(t) \/ Resume(t)
             \/ NewMonth \/ UNCHANGED budgetVars
    <3>1. pc' = pc /\ row' = row /\ charge' = charge /\ (month' = month \/ month' = month + 1)
      BY <2>1 DEF ClaimFor, CompleteJob, ExpireLease, Suspend, Resume, NewMonth, budgetVars
    <3> HIDE DEF All
    <3> QED BY <1>t, <1>11, <3>1
  <2>2. CASE \E r \in Requests : Sweep(r)
    <3>1. \E t, j : row' = Interrupts(OfJob(t, j)) /\ pc' = pc /\ charge' = charge /\ month' = month
      BY <2>2 DEF Sweep
    <3> QED BY <1>10, <3>1
  <2>3. CASE \E t \in FundedTasks : RecoverExpired(t)
    <3>1. \E t, j : row' = Interrupts(OfJob(t, j)) /\ pc' = pc /\ charge' = charge /\ month' = month
      BY <2>3 DEF RecoverExpired
    <3> QED BY <1>10, <3>1
  <2> HIDE DEF All
  <2> QED BY <1>3, <1>4, <1>5, <1>6, <1>7, <1>8, <1>9, <1>12, <2>1, <2>2, <2>3, Zenon DEF Proceeds
<1> HIDE DEF All
<1>13. All
  BY <1>1, <1>2, <1>12, BudgetSteps, Zenon
<1> QED BY <1>13, <1>w DEF All, CostsCovered

(* Every step but the end of a month and an admission leaves a request's    *)
(* exposure where it was, or lowers it.                                     *)
Falls(r) ==
  /\ Exposure(r)' <= Exposure(r)
  /\ BilledTo(r)' = BilledTo(r) \/ Exposure(r)' = 0

LEMMA ExposureStays ==
  ASSUME BudgetType, NEW r \in Requests, pc'[r] = pc[r], plan'[r] = plan[r], charge'[r] = charge[r],
         row'[r].reserve = row[r].reserve, row'[r].month = row[r].month, month' = month
  PROVE  Falls(r)
<1>1. Exposure(r)' = Exposure(r) /\ BilledTo(r)' = BilledTo(r)
  BY DEF Exposure, BilledTo, Holds
<1> QED BY <1>1, ExposureTypes DEF Falls

LEMMA ExposureFalls ==
  ASSUME BudgetType, CostsCovered, BudgetType', CostsCovered', [BudgetNext]_budgetVars,
         month' = month, \A r \in Requests : ReadTotals(r) => pc'[r] # "admitting"
  PROVE  \A r \in Requests : Falls(r)
<1>w. Requests' = Requests
  BY WorkStays, SameRequests
<1>t. /\ Requests \in SUBSET Runs /\ pc \in [Runs -> Places] /\ charge \in [Runs -> Nat]
      /\ row \in [Runs -> RowType] /\ month \in Nat /\ plan \in [Runs -> Nat]
  BY DEF BudgetType
<1>n. \A r \in Requests : plan[r] \in Nat /\ charge[r] \in Nat /\ row[r].reserve \in Nat
  BY RequestTypes
<1> DEFINE All == \A q \in Requests : Falls(q)
<1>0. ASSUME NEW r \in Requests, Falls(r),
             \A q \in Requests : q # r => /\ pc'[q] = pc[q] /\ row'[q] = row[q]
                                          /\ charge'[q] = charge[q] /\ plan'[q] = plan[q]
      PROVE  All
  BY <1>0, ExposureStays
<1>1. ASSUME NEW r \in Requests, NEW amount \in Nat, NEW j \in Nat,
             \/ CheckDeveloper(r) \/ CheckHelper(r)
             \/ SupervisorRequest(r) \/ InterpreterRequest(r) \/ CoordinatorRequest(r),
             Plan(r, amount, j)
      PROVE  All
  <2>1. /\ pc[r] = "idle" /\ pc' = [pc EXCEPT ![r] = "checked"] /\ row' = row /\ charge' = charge
        /\ plan' = [plan EXCEPT ![r] = amount]
    BY <1>1 DEF Plan, CheckDeveloper, CheckHelper, SupervisorRequest, InterpreterRequest,
         CoordinatorRequest, MayPlan
  <2>2. Exposure(r)' = charge[r] /\ Exposure(r) = charge[r] /\ BilledTo(r)' = BilledTo(r)
    BY <1>t, <2>1 DEF Exposure, BilledTo, Holds
  <2>3. Falls(r)
    BY <1>n, <2>2 DEF Falls
  <2> QED BY <1>0, <1>t, <2>1, <2>3
<1>2. ASSUME NEW r \in Requests, ReadTotals(r) PROVE All
  <2>1. /\ pc[r] = "checked" /\ row' = row /\ charge' = charge /\ plan' = plan
        /\ pc' = [pc EXCEPT ![r] = "gone"]
    BY <1>2, <1>t DEF ReadTotals
  <2>2. Exposure(r)' = charge[r] /\ Exposure(r) = charge[r] /\ BilledTo(r)' = BilledTo(r)
    BY <1>t, <2>1 DEF Exposure, BilledTo, Holds
  <2>3. Falls(r)
    BY <1>n, <2>2 DEF Falls
  <2> QED BY <1>0, <1>t, <2>1, <2>3
<1>3. ASSUME NEW r \in Requests, Insert(r) PROVE All
  <2>1. /\ pc[r] = "admitting" /\ charge' = charge /\ plan' = [plan EXCEPT ![r] = 0]
        /\ pc' = [pc EXCEPT ![r] = IF Insertable(r) THEN "reserved" ELSE "gone"]
    BY <1>3 DEF Insert
  <2>2. charge'[r] = 0 /\ Exposure(r) = plan[r] /\ BilledTo(r) = month
    BY <1>t, <2>1 DEF CostsCovered, Covered, Exposure, BilledTo, Holds
  <2>3. Falls(r)
    <3>1. CASE Insertable(r)
      <4>1. row'[r].reserve = plan[r] /\ row'[r].month = month
        BY <1>3, <3>1, InsertedRow
      <4>2. Exposure(r)' = plan[r] /\ BilledTo(r)' = month
        BY <1>t, <2>1, <3>1, <4>1 DEF Exposure, BilledTo, Holds
      <4> QED BY <1>n, <2>2, <4>2 DEF Falls
    <3>2. CASE ~ Insertable(r)
      <4>1. Exposure(r)' = 0
        BY <1>t, <2>1, <2>2, <3>2 DEF Exposure, Holds
      <4> QED BY <1>n, <2>2, <4>1 DEF Falls
    <3> QED BY <3>1, <3>2
  <2> QED BY <1>0, <1>3, <1>t, <2>1, <2>3, InsertedRow
<1>4. ASSUME NEW r \in Requests, Withdraw(r) PROVE All
  <2>1. /\ pc[r] = "reserved" /\ charge' = charge /\ plan' = plan /\ pc' = [pc EXCEPT ![r] = "gone"]
    BY <1>4 DEF Withdraw
  <2>2. Exposure(r)' = 0
    BY <1>t, <2>1 DEF CostsCovered, Covered, Exposure, Holds
  <2>3. Falls(r)
    BY <2>2, ExposureTypes DEF Falls
  <2> QED BY <1>0, <1>4, <1>t, <2>1, <2>3, WithdrawnRow
<1>5. ASSUME NEW r \in Requests, RunTurn(r) \/ RunConsultation(r) \/ RunRequest(r) PROVE All
  <2>1. pc[r] = "reserved" /\ row' = row /\ plan' = plan /\ pc' = [pc EXCEPT ![r] = "paid"]
    BY <1>5, CallsOnly
  <2>2. PICK c \in {0, row[r].reserve} : charge' = [charge EXCEPT ![r] = c]
    BY <1>5, CallsOnly
  <2>3. Exposure(r)' = c /\ Exposure(r) = row[r].reserve /\ BilledTo(r)' = BilledTo(r)
    BY <1>t, <2>1, <2>2 DEF Exposure, BilledTo, Holds
  <2>4. Falls(r)
    BY <1>n, <2>2, <2>3 DEF Falls
  <2> QED BY <1>0, <1>t, <2>1, <2>2, <2>4
<1>6. ASSUME NEW r \in Requests, Conclude(r) PROVE All
  <2>1. pc[r] = "paid" /\ charge' = charge /\ plan' = plan /\ pc' = [pc EXCEPT ![r] = "gone"]
    BY <1>6, ConcludeRows DEF Returns
  <2>2. row'[r].month = row[r].month
    BY <1>6, ConcludedRow
  <2>3. Exposure(r)' = charge[r] /\ Exposure(r) = charge[r] /\ BilledTo(r)' = BilledTo(r)
    BY <1>t, <2>1, <2>2 DEF Exposure, BilledTo, Holds
  <2>4. Falls(r)
    BY <1>n, <2>3 DEF Falls
  <2> QED BY <1>0, <1>6, <1>t, <2>1, <2>4, ConcludedRow
<1>7. ASSUME NEW r \in Requests, Die(r) PROVE All
  <2>1. /\ pc[r] \in {"admitting", "reserved", "paid"} /\ row' = row /\ charge' = charge
        /\ plan' = plan /\ pc' = [pc EXCEPT ![r] = "gone"]
    BY <1>7 DEF Die
  <2>2. Exposure(r)' = charge[r]
    BY <1>t, <2>1 DEF Exposure, Holds
  <2>3. CASE pc[r] = "paid"
    <3>1. Exposure(r) = charge[r] /\ BilledTo(r)' = BilledTo(r)
      BY <1>t, <2>1, <2>3 DEF Exposure, BilledTo, Holds
    <3> QED BY <1>0, <1>t, <1>n, <2>1, <2>2, <3>1 DEF Falls
  <2>4. CASE pc[r] # "paid"
    <3>1. charge[r] = 0
      BY <2>1, <2>4 DEF CostsCovered, Covered
    <3>2. Falls(r)
      BY <2>2, <3>1, ExposureTypes DEF Falls
    <3> QED BY <1>0, <1>t, <2>1, <3>2
  <2> QED BY <2>3, <2>4
<1>8. ASSUME NEW r \in Requests, InterruptStale(r) \/ ReconcileCost(r) PROVE All
  <2>1. pc' = pc /\ charge' = charge /\ plan' = plan
    BY <1>8 DEF InterruptStale, ReconcileCost
  <2>2. /\ row'[r].reserve = row[r].reserve /\ row'[r].month = row[r].month
        /\ \A q \in Requests : q # r => row'[q] = row[q]
    BY <1>8, StaleRow, ReconciledRow
  <2>3. Falls(r)
    BY <2>1, <2>2, ExposureStays
  <2> QED BY <1>0, <2>1, <2>2, <2>3
<1>9. ASSUME NEW t, NEW j, row' = Interrupts(OfJob(t, j)), pc' = pc, charge' = charge, plan' = plan
      PROVE  All
  <2> SUFFICES ASSUME NEW q \in Requests PROVE Falls(q)
    OBVIOUS
  <2>1. row'[q].reserve = row[q].reserve /\ row'[q].month = row[q].month
    BY <1>9, <1>t, InterruptsRows
  <2> QED BY <1>9, <2>1, ExposureStays
<1>10. ASSUME pc' = pc, row' = row, charge' = charge, plan' = plan PROVE All
  BY <1>10, ExposureStays
<1>11. ASSUME Proceeds PROVE All
  <2>1. CASE \/ \E t \in FundedTasks : ClaimFor(t) \/ CompleteJob(t) \/ ExpireLease(t)
                                         \/ Suspend(t) \/ Resume(t)
             \/ NewMonth \/ UNCHANGED budgetVars
    <3>1. pc' = pc /\ row' = row /\ charge' = charge /\ plan' = plan
      BY <2>1 DEF ClaimFor, CompleteJob, ExpireLease, Suspend, Resume, NewMonth, budgetVars
    <3> HIDE DEF All
    <3> QED BY <1>10, <3>1
  <2>2. CASE \E r \in Requests : Sweep(r)
    <3>1. \E t, j : row' = Interrupts(OfJob(t, j)) /\ pc' = pc /\ charge' = charge /\ plan' = plan
      BY <2>2 DEF Sweep
    <3> QED BY <1>9, <3>1
  <2>3. CASE \E t \in FundedTasks : RecoverExpired(t)
    <3>1. \E t, j : row' = Interrupts(OfJob(t, j)) /\ pc' = pc /\ charge' = charge /\ plan' = plan
      BY <2>3 DEF RecoverExpired
    <3> QED BY <1>9, <3>1
  <2> HIDE DEF All
  <2> QED BY <1>3, <1>4, <1>5, <1>6, <1>7, <1>8, <1>11, <2>1, <2>2, <2>3, Zenon DEF Proceeds
<1> HIDE DEF All
<1>12. All
  BY <1>1, <1>2, <1>11, BudgetSteps, Zenon
<1> QED BY <1>12 DEF All

LEMMA OneAdmissionStep == BudgetType /\ OneAdmission /\ [BudgetNext]_budgetVars => OneAdmission'
<1> SUFFICES ASSUME BudgetType, OneAdmission, [BudgetNext]_budgetVars PROVE OneAdmission'
  OBVIOUS
<1>w. work' = work /\ account' = account
  BY WorkStays
<1>t. Requests \in SUBSET Runs /\ pc \in [Runs -> Places] /\ plan \in [Runs -> Nat]
  BY DEF BudgetType
<1>1. ASSUME \A q \in Requests : Holds(q)' => Holds(q) /\ plan'[q] = plan[q] PROVE OneAdmission'
  BY <1>1, <1>w, SameRequests DEF OneAdmission
<1>2. ASSUME NEW r \in Requests, NEW amount \in Nat, NEW j \in Nat,
             \/ CheckDeveloper(r) \/ CheckHelper(r)
             \/ SupervisorRequest(r) \/ InterpreterRequest(r) \/ CoordinatorRequest(r),
             Plan(r, amount, j)
      PROVE  OneAdmission'
  BY <1>1, <1>2, <1>t DEF Plan, Holds
<1>3. ASSUME NEW r \in Requests, ReadTotals(r) PROVE OneAdmission'
  <2>1. /\ plan' = plan /\ LockFree(r)
        /\ \A q \in Requests : q # r => Holds(q)' = Holds(q)
        /\ Holds(r)' => Admitted(r)
    BY <1>3, <1>t DEF ReadTotals, Holds
  <2>2. CASE ~ (Holds(r)')
    BY <1>1, <2>1, <2>2
  <2>3. CASE Holds(r)'
    <3>1. /\ plan[r] \in Nat /\ OfMonth \in SUBSET Requests
          /\ OfMonth \intersect OfTeam(Team(r)) \in SUBSET Requests
      BY RequestTypes DEF OfMonth, Rows
    <3>2. plan[r] <= MonthLimit
      <4> DEFINE M == OfMonth \intersect OfTeam(Team(r))
      <4>1. AllKnown(M) /\ Total(M) + plan[r] <= MonthLimit
        BY <2>1, <2>3 DEF Admitted
      <4>2. Total(M) \in Nat
        BY <3>1, <4>1, TotalType
      <4> HIDE DEF M
      <4> QED BY <3>1, <4>1, <4>2, BudgetAssumption
    <3>3. account # NoLimit => plan[r] <= account
      <4> SUFFICES ASSUME account # NoLimit PROVE plan[r] <= account
        OBVIOUS
      <4>1. AllKnown(OfMonth) /\ Total(OfMonth) + plan[r] <= account
        BY <2>1, <2>3 DEF Admitted
      <4>2. Total(OfMonth) \in Nat /\ account \in Nat
        BY <3>1, <4>1, TotalType DEF BudgetType
      <4> QED BY <3>1, <4>1, <4>2
    <3>4. \A q \in Requests : q # r /\ Holds(q) => account = NoLimit /\ Team(q) # Team(r)
      BY <2>1 DEF LockFree
    <3> QED BY <1>w, <2>1, <3>2, <3>3, <3>4, SameRequests DEF OneAdmission
  <2> QED BY <2>2, <2>3
<1>4. ASSUME Proceeds PROVE OneAdmission'
  <2>1. \A q \in Requests : Holds(q)' => Holds(q)
    BY <1>4, ProceedsPlaces DEF Holds
  <2>2. \/ plan' = plan
        \/ \E r \in Requests : Insert(r)
    <3>1. \A r \in Requests : Conclude(r) => plan' = plan
      BY ConcludeRows DEF Returns
    <3>2. \A r \in Requests : RunTurn(r) \/ RunConsultation(r) \/ RunRequest(r) => plan' = plan
      BY CallsOnly
    <3> QED BY <1>4, <3>1, <3>2 DEF Proceeds, Withdraw, Die, Sweep, InterruptStale, ReconcileCost, ClaimFor,
               CompleteJob, ExpireLease, Suspend, Resume, RecoverExpired, NewMonth, budgetVars
  <2>3. ASSUME NEW r \in Requests, Insert(r) PROVE \A q \in Requests : Holds(q)' => plan'[q] = plan[q]
    BY <1>t, <2>3 DEF Insert, Holds
  <2> QED BY <1>1, <2>1, <2>2, <2>3
<1> QED BY <1>2, <1>3, <1>4, BudgetSteps, Zenon

LEMMA ExposureTypesNext ==
  ASSUME BudgetType'
  PROVE  \A r \in Requests' : /\ Exposure(r)' \in Nat /\ BilledTo(r)' \in Nat
                              /\ \A k \in Nat : ExposureIn(r, k)' \in Nat
<1>1. \A r \in Requests' :
        /\ r \in Runs /\ plan'[r] \in Nat /\ charge'[r] \in Nat /\ row'[r] \in RowType
        /\ row'[r].reserve \in Nat /\ row'[r].month \in Nat /\ month' \in Nat
  BY BudgetAssumption DEF BudgetType, RowType
<1>2. \A r \in Requests' : Exposure(r)' \in Nat /\ BilledTo(r)' \in Nat
  BY <1>1 DEF Exposure, BilledTo
<1> QED BY <1>2 DEF ExposureIn

(* A sum of exposures that are no larger stays within its limit.            *)
LEMMA SumFalls ==
  ASSUME BudgetType, NEW S \in SUBSET Requests, NEW F, NEW G,
         \A r \in S : F[r] \in Nat /\ G[r] \in Nat /\ F[r] <= G[r],
         NEW limit \in Nat, SumOf(G, S) <= limit
  PROVE  SumOf(F, S) <= limit
<1>1. IsFiniteSet(S)
  BY FiniteRows
<1>2. SumOf(F, S) <= SumOf(G, S)
  BY <1>1, SumCover
<1>3. SumOf(F, S) \in Int /\ SumOf(G, S) \in Int
  <2>1. \A r \in S : F[r] \in Int /\ G[r] \in Int
    OBVIOUS
  <2> QED BY <1>1, <2>1, SumType
<1> QED BY <1>2, <1>3

(* What reserve_budget() checks of the rows T bounds the exposures of the   *)
(* requests S.                                                              *)
LEMMA AdmissionFits ==
  ASSUME BudgetType, NEW S \in SUBSET Requests, NEW r \in S, NEW T \in SUBSET S, r \notin T,
         AllKnown(T), NEW F, F[r] = plan[r],
         \A x \in S \ {r} : F[x] \in Nat /\ (x \notin T => F[x] = 0),
         \A x \in T : F[x] <= BudgetCost(x),
         NEW limit \in Nat, Total(T) + plan[r] <= limit
  PROVE  SumOf(F, S) <= limit
<1> DEFINE G == [x \in T |-> BudgetCost(x)]
           R == S \ {r}
<1>1. IsFiniteSet(S) /\ IsFiniteSet(T) /\ IsFiniteSet(R) /\ R \union {r} = S /\ r \notin R
  BY FiniteRows
<1>2. Total(T) = SumOf(G, T)
  BY <1>1, TotalIsSum
<1>3. \A x \in T : G[x] \in Nat /\ x \in R
  BY KnownCosts DEF AllKnown
<1>4. plan[r] \in Nat
  BY RequestTypes
<1>5. SumOf(F, R \union {r}) = SumOf(F, R) + F[r]
  <2>1. \A x \in R \union {r} : F[x] \in Int
    BY <1>4
  <2> HIDE DEF R
  <2> QED BY <1>1, <2>1, SumAdd, Zenon
<1>6. SumOf(F, R) <= SumOf(G, T)
  <2>1. /\ \A x \in R : F[x] \in Int
        /\ \A x \in T : G[x] \in Int
        /\ \A x \in R \intersect T : F[x] <= G[x]
        /\ \A x \in R \ T : F[x] <= 0
        /\ \A x \in T \ R : G[x] >= 0
    BY <1>3
  <2> HIDE DEF G, R
  <2> QED BY <1>1, <2>1, SumCover
<1>7. SumOf(F, R) \in Int /\ SumOf(G, T) \in Int
  <2>1. (\A x \in R : F[x] \in Int) /\ (\A x \in T : G[x] \in Int)
    BY <1>3
  <2> HIDE DEF G, R
  <2> QED BY <1>1, <2>1, SumType
<1>8. SumOf(F, S) = SumOf(F, R) + plan[r]
  BY <1>1, <1>5, Zenon
<1> HIDE DEF G, R
<1>9. SumOf(G, T) + plan[r] <= limit
  BY <1>2, Zenon
<1> QED BY <1>4, <1>6, <1>7, <1>8, <1>9

LEMMA KnownCovers ==
  ASSUME BudgetType, CostsCovered
  PROVE  \A x \in Requests :
           /\ ~ Holds(x) /\ row[x].status = "NONE" => Exposure(x) = 0
           /\ row[x].status # "NONE" => ~ Holds(x)
           /\ row[x].status # "NONE" /\ BudgetCost(x) # Unknown => Exposure(x) <= BudgetCost(x)
           /\ charge[x] <= Exposure(x)
BY RequestTypes DEF CostsCovered, Covered, Exposure, BudgetCost, Holds

LEMMA FallsKeepsLimits ==
  ASSUME LimitsInv, BudgetType', [BudgetNext]_budgetVars, \A r \in Requests : Falls(r)
  PROVE  WithinLimits'
<1>1. /\ Requests' = Requests /\ (\A t : ForTask(t)' = ForTask(t)) /\ (\A m : ForTeam(m)' = ForTeam(m))
      /\ account' = account
  BY WorkStays, SameRequests DEF ForTask, ForTeam
<1>2. \A r \in Requests : /\ (Exposures')[r] \in Nat /\ Exposures[r] \in Nat
                          /\ (Exposures')[r] <= Exposures[r]
  BY <1>1, ExposureTypes, ExposureTypesNext DEF Exposures, Falls, LimitsInv
<1>3. \A r \in Requests, k \in Nat :
        /\ (ExposuresIn(k)')[r] \in Nat /\ ExposuresIn(k)[r] \in Nat
        /\ (ExposuresIn(k)')[r] <= ExposuresIn(k)[r]
  BY <1>1, ExposureTypes, ExposureTypesNext DEF ExposuresIn, ExposureIn, Falls, LimitsInv
<1>4. (\A t : ForTask(t) \in SUBSET Requests) /\ (\A m : ForTeam(m) \in SUBSET Requests)
  BY DEF ForTask, ForTeam
<1>5. TaskLimit \in Nat /\ TeamLimit \in Nat /\ MonthLimit \in Nat /\ BudgetType
  BY BudgetAssumption DEF LimitsInv
<1>6. \A t \in FundedTasks : SumOf(Exposures', ForTask(t)) <= TaskLimit
  BY <1>2, <1>4, <1>5, SumFalls DEF LimitsInv, WithinLimits
<1>7. \A m \in FundedTeams : SumOf(Exposures', ForTeam(m)) <= TeamLimit
  BY <1>2, <1>4, <1>5, SumFalls DEF LimitsInv, WithinLimits
<1>8. \A m \in FundedTeams : \A k \in Nat : SumOf(ExposuresIn(k)', ForTeam(m)) <= MonthLimit
  BY <1>3, <1>4, <1>5, SumFalls DEF LimitsInv, WithinLimits
<1>9. account # NoLimit => \A k \in Nat : SumOf(ExposuresIn(k)', Requests) <= account
  <2> SUFFICES ASSUME account # NoLimit, NEW k \in Nat PROVE SumOf(ExposuresIn(k)', Requests) <= account
    OBVIOUS
  <2>1. account \in Nat /\ SumOf(ExposuresIn(k), Requests) <= account
    BY DEF LimitsInv, WithinLimits, BudgetType
  <2>2. Requests \in SUBSET Requests
    OBVIOUS
  <2> QED BY <1>3, <1>5, <2>1, <2>2, SumFalls
<1> QED BY <1>1, <1>6, <1>7, <1>8, <1>9 DEF WithinLimits

LEMMA AdmissionKeepsLimits ==
  ASSUME LimitsInv, BudgetType', NEW r \in Requests, ReadTotals(r), pc'[r] = "admitting"
  PROVE  WithinLimits'
<1>t. /\ BudgetType /\ CostsCovered /\ Requests \in SUBSET Runs /\ pc \in [Runs -> Places]
      /\ r \in Runs /\ Team(r) \in FundedTeams /\ Task(r) \in FundedTasks
      /\ TaskLimit \in Nat /\ TeamLimit \in Nat /\ MonthLimit \in Nat /\ month \in Nat
  BY BudgetAssumption, RequestTypes DEF LimitsInv, BudgetType
<1>1. /\ work' = work /\ account' = account /\ plan' = plan
      /\ row' = row /\ charge' = charge /\ month' = month
      /\ pc[r] = "checked" /\ LockFree(r) /\ Admitted(r)
      /\ \A q \in Requests : q # r => pc'[q] = pc[q]
  BY <1>t DEF ReadTotals
<1>2. /\ Requests' = Requests /\ (\A t : ForTask(t)' = ForTask(t)) /\ (\A m : ForTeam(m)' = ForTeam(m))
  BY <1>1, SameRequests DEF ForTask, ForTeam
<1>3. \A q \in Requests : q # r => Exposure(q)' = Exposure(q) /\ BilledTo(q)' = BilledTo(q)
  BY <1>1 DEF Exposure, BilledTo, Holds
<1>4. Exposure(r)' = plan[r] /\ BilledTo(r)' = month /\ row[r].status = "NONE"
  BY <1>1, <1>t DEF Exposure, BilledTo, Holds, CostsCovered, Covered
<1> DEFINE E == Exposures'
           EI(k) == ExposuresIn(k)'
<1>5. /\ E[r] = plan[r]
      /\ \A q \in Requests : E[q] \in Nat /\ (q # r => E[q] = Exposure(q))
  BY <1>2, <1>3, <1>4, ExposureTypesNext DEF Exposures
<1>6. \A k \in Nat : \A q \in Requests :
        EI(k)[q] \in Nat /\ (q # r => EI(k)[q] = ExposureIn(q, k)) /\ (q = r /\ k # month => EI(k)[q] = 0)
  BY <1>2, <1>3, <1>4, ExposureTypesNext DEF ExposuresIn, ExposureIn
<1>7. \A k \in Nat : k = month => EI(k)[r] = plan[r]
  BY <1>2, <1>4 DEF ExposuresIn, ExposureIn
<1> HIDE DEF E, EI
<1>8. (\A t : ForTask(t) \in SUBSET Requests) /\ (\A m : ForTeam(m) \in SUBSET Requests)
  BY DEF ForTask, ForTeam
<1>9. \A q \in Requests : Team(q) = Team(r) => ~ Holds(q)
  BY <1>1 DEF LockFree
<1>10. \A q \in Requests : Task(q) = Task(r) => Team(q) = Team(r)
  BY DEF Team
<1> DEFINE team == Team(r)
           mine == ForTeam(team)
<1>11. AllKnown(OfTeam(team))
  BY <1>1 DEF Admitted
<1>12. \A x \in OfTeam(team) : Exposure(x) <= BudgetCost(x)
  BY <1>11, <1>t, KnownCovers DEF OfTeam, Rows, AllKnown
<1>13. \A t \in FundedTasks : SumOf(E, ForTask(t)) <= TaskLimit
  <2> SUFFICES ASSUME NEW t \in FundedTasks PROVE SumOf(E, ForTask(t)) <= TaskLimit
    OBVIOUS
  <2>1. CASE t # Task(r)
    <3>1. \A q \in ForTask(t) : E[q] \in Nat /\ Exposures[q] \in Nat /\ E[q] <= Exposures[q]
      BY <1>5, <1>t, <2>1, ExposureTypes DEF ForTask, Exposures
    <3>2. SumOf(Exposures, ForTask(t)) <= TaskLimit
      BY DEF LimitsInv, WithinLimits
    <3> QED BY <1>8, <1>t, <3>1, <3>2, SumFalls
  <2>2. CASE t = Task(r)
    <3> DEFINE S == ForTask(t)  T == OfTask(t)
    <3>1. r \in S /\ r \notin T /\ T \in SUBSET S /\ S \in SUBSET Requests
      BY <1>4, <2>2 DEF OfTask, Rows, ForTask
    <3>2. T \subseteq OfTeam(team)
      BY <1>10, <2>2 DEF OfTask, OfTeam, Rows
    <3>3. AllKnown(T)
      BY <1>11, <3>2 DEF AllKnown
    <3>4. \A x \in S \ {r} : E[x] \in Nat /\ (x \notin T => E[x] = 0)
      <4> SUFFICES ASSUME NEW x \in S \ {r} PROVE E[x] \in Nat /\ (x \notin T => E[x] = 0)
        OBVIOUS
      <4>1. x \in Requests /\ ~ Holds(x) /\ x # r /\ (x \notin T => row[x].status = "NONE")
        BY <1>9, <1>10, <2>2 DEF ForTask, OfTask, Rows
      <4> QED BY <1>5, <1>t, <4>1, KnownCovers
    <3>5. \A x \in T : E[x] <= BudgetCost(x)
      <4>1. \A x \in T : x \in Requests /\ x # r
        BY <3>1
      <4> QED BY <1>5, <1>12, <3>2, <4>1
    <3>6. Total(T) + plan[r] <= TaskLimit
      BY <1>1, <2>2 DEF Admitted
    <3> HIDE DEF S, T
    <3>7. SumOf(E, S) <= TaskLimit
      BY <1>5, <1>t, <3>1, <3>3, <3>4, <3>5, <3>6, AdmissionFits
    <3> QED BY <3>7 DEF S
  <2> QED BY <2>1, <2>2
<1>14. \A m \in FundedTeams : SumOf(E, ForTeam(m)) <= TeamLimit
  <2> SUFFICES ASSUME NEW m \in FundedTeams PROVE SumOf(E, ForTeam(m)) <= TeamLimit
    OBVIOUS
  <2>1. CASE m # team
    <3>1. \A q \in ForTeam(m) : E[q] \in Nat /\ Exposures[q] \in Nat /\ E[q] <= Exposures[q]
      BY <1>5, <1>t, <2>1, ExposureTypes DEF ForTeam, Exposures
    <3>2. SumOf(Exposures, ForTeam(m)) <= TeamLimit
      BY DEF LimitsInv, WithinLimits
    <3> QED BY <1>8, <1>t, <3>1, <3>2, SumFalls
  <2>2. CASE m = team
    <3> DEFINE S == ForTeam(m)  T == OfTeam(m)
    <3>1. r \in S /\ r \notin T /\ T \in SUBSET S /\ S \in SUBSET Requests
      BY <1>4, <2>2 DEF OfTeam, Rows, ForTeam
    <3>2. T = OfTeam(team)
      BY <2>2
    <3>4. \A x \in S \ {r} : E[x] \in Nat /\ (x \notin T => E[x] = 0)
      <4> SUFFICES ASSUME NEW x \in S \ {r} PROVE E[x] \in Nat /\ (x \notin T => E[x] = 0)
        OBVIOUS
      <4>1. x \in Requests /\ ~ Holds(x) /\ x # r /\ (x \notin T => row[x].status = "NONE")
        BY <1>9, <2>2 DEF ForTeam, OfTeam, Rows
      <4> QED BY <1>5, <1>t, <4>1, KnownCovers
    <3>5. \A x \in T : E[x] <= BudgetCost(x)
      <4>1. \A x \in T : x \in Requests /\ x # r
        BY <3>1
      <4> QED BY <1>5, <1>12, <3>2, <4>1
    <3>6. AllKnown(T) /\ Total(T) + plan[r] <= TeamLimit
      BY <1>1, <2>2 DEF Admitted
    <3> HIDE DEF S, T
    <3>7. SumOf(E, S) <= TeamLimit
      BY <1>5, <1>t, <3>1, <3>4, <3>5, <3>6, AdmissionFits
    <3> QED BY <3>7 DEF S
  <2> QED BY <2>1, <2>2
<1>15. \A m \in FundedTeams : \A k \in Nat : SumOf(EI(k), ForTeam(m)) <= MonthLimit
  <2> SUFFICES ASSUME NEW m \in FundedTeams, NEW k \in Nat PROVE SumOf(EI(k), ForTeam(m)) <= MonthLimit
    OBVIOUS
  <2>1. CASE m # team \/ k # month
    <3>1. \A q \in ForTeam(m) : /\ EI(k)[q] \in Nat /\ ExposuresIn(k)[q] \in Nat
                                /\ EI(k)[q] <= ExposuresIn(k)[q]
      <4> SUFFICES ASSUME NEW q \in ForTeam(m)
                   PROVE  /\ EI(k)[q] \in Nat /\ ExposuresIn(k)[q] \in Nat
                          /\ EI(k)[q] <= ExposuresIn(k)[q]
        OBVIOUS
      <4>1. q \in Requests /\ (q # r \/ k # month)
        BY <2>1 DEF ForTeam
      <4>2. ExposuresIn(k)[q] = ExposureIn(q, k) /\ ExposureIn(q, k) \in Nat
        BY <1>t, <4>1, ExposureTypes DEF ExposuresIn
      <4> QED BY <1>6, <4>1, <4>2
    <3>2. SumOf(ExposuresIn(k), ForTeam(m)) <= MonthLimit
      BY DEF LimitsInv, WithinLimits
    <3> QED BY <1>8, <1>t, <3>1, <3>2, SumFalls
  <2>2. CASE m = team /\ k = month
    <3> DEFINE S == ForTeam(m)  T == OfMonth \intersect OfTeam(m)
    <3>1. r \in S /\ r \notin T /\ T \in SUBSET S /\ S \in SUBSET Requests
      BY <1>4, <2>2 DEF OfTeam, Rows, ForTeam
    <3>4. \A x \in S \ {r} : EI(k)[x] \in Nat /\ (x \notin T => EI(k)[x] = 0)
      <4> SUFFICES ASSUME NEW x \in S \ {r} PROVE EI(k)[x] \in Nat /\ (x \notin T => EI(k)[x] = 0)
        OBVIOUS
      <4>1. x \in Requests /\ ~ Holds(x) /\ x # r
        BY <1>9, <2>2 DEF ForTeam
      <4>2. x \notin T => row[x].status = "NONE" \/ row[x].month # month
        BY <2>2 DEF ForTeam, OfTeam, OfMonth, Rows
      <4>3. x \notin T => ExposureIn(x, k) = 0
        BY <1>t, <2>2, <4>1, <4>2, KnownCovers DEF ExposureIn, BilledTo
      <4> QED BY <1>6, <4>1, <4>3
    <3>5. \A x \in T : EI(k)[x] <= BudgetCost(x)
      <4> SUFFICES ASSUME NEW x \in T PROVE EI(k)[x] <= BudgetCost(x)
        OBVIOUS
      <4>1. x \in Requests /\ x # r /\ x \in OfTeam(team)
        BY <2>2, <3>1
      <4>2. Exposure(x) <= BudgetCost(x) /\ Exposure(x) \in Nat /\ BudgetCost(x) \in Nat
        BY <1>11, <1>12, <1>t, <4>1, ExposureTypes, KnownCosts DEF AllKnown
      <4> QED BY <1>6, <4>1, <4>2 DEF ExposureIn
    <3>6. AllKnown(T) /\ Total(T) + plan[r] <= MonthLimit
      BY <1>1, <2>2 DEF Admitted
    <3>7. EI(k)[r] = plan[r]
      BY <1>7, <2>2
    <3> HIDE DEF S, T
    <3>8. SumOf(EI(k), S) <= MonthLimit
      BY <1>t, <3>1, <3>4, <3>5, <3>6, <3>7, AdmissionFits
    <3> QED BY <3>8 DEF S
  <2> QED BY <2>1, <2>2
<1>16. account # NoLimit => \A k \in Nat : SumOf(EI(k), Requests) <= account
  <2> SUFFICES ASSUME account # NoLimit, NEW k \in Nat PROVE SumOf(EI(k), Requests) <= account
    OBVIOUS
  <2>0. account \in Nat /\ Requests \in SUBSET Requests
    BY <1>t DEF BudgetType
  <2>1. CASE k # month
    <3>1. \A q \in Requests : /\ EI(k)[q] \in Nat /\ ExposuresIn(k)[q] \in Nat
                              /\ EI(k)[q] <= ExposuresIn(k)[q]
      <4> SUFFICES ASSUME NEW q \in Requests
                   PROVE  /\ EI(k)[q] \in Nat /\ ExposuresIn(k)[q] \in Nat
                          /\ EI(k)[q] <= ExposuresIn(k)[q]
        OBVIOUS
      <4>2. ExposuresIn(k)[q] = ExposureIn(q, k) /\ ExposureIn(q, k) \in Nat
        BY <1>t, ExposureTypes DEF ExposuresIn
      <4> QED BY <1>6, <2>1, <4>2
    <3>2. SumOf(ExposuresIn(k), Requests) <= account
      BY DEF LimitsInv, WithinLimits
    <3> QED BY <1>t, <2>0, <3>1, <3>2, SumFalls
  <2>2. CASE k = month
    <3> DEFINE S == Requests  T == OfMonth
    <3>0. \A q \in Requests : ~ Holds(q)
      BY <1>1 DEF LockFree
    <3>1. r \in S /\ r \notin T /\ T \in SUBSET S /\ S \in SUBSET Requests
      BY <1>4 DEF OfMonth, Rows
    <3>4. \A x \in S \ {r} : EI(k)[x] \in Nat /\ (x \notin T => EI(k)[x] = 0)
      <4> SUFFICES ASSUME NEW x \in S \ {r} PROVE EI(k)[x] \in Nat /\ (x \notin T => EI(k)[x] = 0)
        OBVIOUS
      <4>1. x \in Requests /\ ~ Holds(x) /\ x # r
        BY <3>0
      <4>2. x \notin T => row[x].status = "NONE" \/ row[x].month # month
        BY DEF OfMonth, Rows
      <4>3. x \notin T => ExposureIn(x, k) = 0
        BY <1>t, <2>2, <4>1, <4>2, KnownCovers DEF ExposureIn, BilledTo
      <4> QED BY <1>6, <4>1, <4>3
    <3>6. AllKnown(T) /\ Total(T) + plan[r] <= account
      BY <1>1 DEF Admitted
    <3>5. \A x \in T : EI(k)[x] <= BudgetCost(x)
      <4> SUFFICES ASSUME NEW x \in T PROVE EI(k)[x] <= BudgetCost(x)
        OBVIOUS
      <4>1. x \in Requests /\ x # r /\ BudgetCost(x) # Unknown /\ row[x].status # "NONE"
        BY <3>1, <3>6 DEF AllKnown, OfMonth, Rows
      <4>2. Exposure(x) <= BudgetCost(x) /\ Exposure(x) \in Nat /\ BudgetCost(x) \in Nat
        BY <1>t, <4>1, ExposureTypes, KnownCosts, KnownCovers
      <4> QED BY <1>6, <4>1, <4>2 DEF ExposureIn
    <3>7. EI(k)[r] = plan[r]
      BY <1>7, <2>2
    <3> HIDE DEF T
    <3> QED BY <1>t, <2>0, <3>1, <3>4, <3>5, <3>6, <3>7, AdmissionFits
  <2> QED BY <2>1, <2>2
<1> QED BY <1>1, <1>2, <1>13, <1>14, <1>15, <1>16 DEF WithinLimits, E, EI

(* At most one request of S is being admitted, and nothing else of it counts. *)
LEMMA OnlyTheAdmitted ==
  ASSUME BudgetType, NEW S \in SUBSET Requests, NEW F, NEW limit \in Nat,
         \A x \in S : ~ Holds(x) => F[x] = 0,
         \A x \in S : Holds(x) => F[x] = plan[x] /\ plan[x] <= limit,
         \A p, q \in S : Holds(p) /\ Holds(q) => p = q
  PROVE  SumOf(F, S) <= limit
<1>1. IsFiniteSet(S) /\ IsFiniteSet({})
  BY FiniteRows, FS_EmptySet
<1>2. CASE \E r \in S : Holds(r)
  <2>1. PICK r \in S : Holds(r)
    BY <1>2
  <2>2. Total({}) = 0
    <3> DEFINE Z == [x \in {} |-> 0]
    <3>1. Total({}) = SumOf(Z, {})
      BY <1>1, TotalIsSum
    <3> QED BY <3>1, SumOfNone, Zenon
  <2>3. AllKnown({}) /\ {} \in SUBSET S /\ r \notin {}
    BY DEF AllKnown
  <2>4. plan[r] \in Nat /\ Total({}) + plan[r] <= limit
    BY <2>1, <2>2, RequestTypes
  <2>5. \A x \in S \ {r} : F[x] \in Nat /\ (x \notin {} => F[x] = 0)
    BY <2>1
  <2> QED BY <2>1, <2>3, <2>4, <2>5, AdmissionFits
<1>3. CASE ~ \E r \in S : Holds(r)
  <2>1. SumOf(F, S) <= SumOf(F, {})
    BY <1>1, <1>3, SumCover
  <2>2. SumOf(F, S) \in Int
    BY <1>1, <1>3, SumType
  <2> QED BY <2>1, <2>2, SumOfNone
<1> QED BY <1>2, <1>3

(* A month that ends takes an admission under way along with it.            *)
LEMMA NewMonthKeepsLimits ==
  ASSUME LimitsInv, BudgetType', NewMonth
  PROVE  WithinLimits'
<1>1. /\ work' = work /\ account' = account /\ plan' = plan /\ row' = row /\ charge' = charge /\ pc' = pc
      /\ month' = month + 1
  BY DEF NewMonth
<1>2. /\ Requests' = Requests /\ (\A t : ForTask(t)' = ForTask(t)) /\ (\A m : ForTeam(m)' = ForTeam(m))
  BY <1>1, SameRequests DEF ForTask, ForTeam
<1>3. (\A t : ForTask(t) \in SUBSET Requests) /\ (\A m : ForTeam(m) \in SUBSET Requests)
  BY DEF ForTask, ForTeam
<1>4. /\ TaskLimit \in Nat /\ TeamLimit \in Nat /\ MonthLimit \in Nat /\ month \in Nat
      /\ BudgetType /\ CostsCovered /\ OneAdmission
  BY BudgetAssumption DEF LimitsInv, BudgetType
<1>5. \A r \in Requests : /\ Exposure(r)' = Exposure(r)
                          /\ Holds(r) => BilledTo(r)' = month + 1 /\ Exposure(r) = plan[r]
                          /\ ~ Holds(r) => BilledTo(r)' = BilledTo(r) /\ BilledTo(r) = row[r].month
  BY <1>1 DEF Exposure, BilledTo, Holds
<1> DEFINE EI(k) == ExposuresIn(k)'
<1>6. \A k \in Nat : \A r \in Requests :
        EI(k)[r] = IF (IF Holds(r) THEN month + 1 ELSE row[r].month) = k THEN Exposure(r) ELSE 0
  BY <1>2, <1>5 DEF ExposuresIn, ExposureIn
<1>7. Exposures' = Exposures
  BY <1>2, <1>5 DEF Exposures
<1> HIDE DEF EI
<1>8. \A r \in Requests : row[r].month \in Nat /\ row[r].month <= month /\ Exposure(r) \in Nat
  BY <1>4, RequestTypes, ExposureTypes DEF CostsCovered, Covered
<1>9. ASSUME NEW S \in SUBSET Requests, NEW k \in Nat, NEW limit \in Nat,
             SumOf(ExposuresIn(k), S) <= limit,
             \A x \in S : Holds(x) => plan[x] <= limit,
             \A p, q \in S : Holds(p) /\ Holds(q) => p = q
      PROVE  SumOf(EI(k), S) <= limit
  <2>1. CASE k = month + 1
    <3>1. \A x \in S : ~ Holds(x) => EI(k)[x] = 0
      BY <1>4, <1>6, <1>8, <2>1
    <3>2. \A x \in S : Holds(x) => EI(k)[x] = plan[x] /\ plan[x] <= limit
      BY <1>5, <1>6, <1>9, <2>1
    <3> QED BY <1>4, <1>9, <3>1, <3>2, OnlyTheAdmitted
  <2>2. CASE k # month + 1
    <3>1. \A x \in S : EI(k)[x] \in Nat /\ ExposuresIn(k)[x] \in Nat /\ EI(k)[x] <= ExposuresIn(k)[x]
      BY <1>5, <1>6, <1>8, <2>2 DEF ExposuresIn, ExposureIn
    <3> QED BY <1>4, <1>9, <3>1, SumFalls
  <2> QED BY <2>1, <2>2
<1>10. \A m \in FundedTeams : \A k \in Nat : SumOf(EI(k), ForTeam(m)) <= MonthLimit
  <2> SUFFICES ASSUME NEW m \in FundedTeams, NEW k \in Nat PROVE SumOf(EI(k), ForTeam(m)) <= MonthLimit
    OBVIOUS
  <2>1. SumOf(ExposuresIn(k), ForTeam(m)) <= MonthLimit
    BY DEF LimitsInv, WithinLimits
  <2>2. /\ \A x \in ForTeam(m) : Holds(x) => plan[x] <= MonthLimit
        /\ \A p, q \in ForTeam(m) : Holds(p) /\ Holds(q) => p = q
    BY <1>4 DEF OneAdmission, ForTeam
  <2> QED BY <1>3, <1>4, <1>9, <2>1, <2>2
<1>11. account # NoLimit => \A k \in Nat : SumOf(EI(k), Requests) <= account
  <2> SUFFICES ASSUME account # NoLimit, NEW k \in Nat PROVE SumOf(EI(k), Requests) <= account
    OBVIOUS
  <2>1. SumOf(ExposuresIn(k), Requests) <= account /\ account \in Nat /\ Requests \in SUBSET Requests
    BY <1>4 DEF LimitsInv, WithinLimits, BudgetType
  <2>2. /\ \A x \in Requests : Holds(x) => plan[x] <= account
        /\ \A p, q \in Requests : Holds(p) /\ Holds(q) => p = q
    BY <1>4 DEF OneAdmission
  <2> QED BY <1>9, <2>1, <2>2
<1>12. /\ \A t \in FundedTasks : SumOf(Exposures, ForTask(t)) <= TaskLimit
       /\ \A m \in FundedTeams : SumOf(Exposures, ForTeam(m)) <= TeamLimit
  BY DEF LimitsInv, WithinLimits
<1> QED BY <1>1, <1>2, <1>7, <1>10, <1>11, <1>12 DEF WithinLimits, EI

LEMMA LimitsInit == BudgetInit => LimitsInv
<1> SUFFICES ASSUME BudgetInit PROVE LimitsInv
  OBVIOUS
<1>1. BudgetType
  BY BudgetTypeInit
<1>2. \A r \in Requests : /\ pc[r] = "idle" /\ charge[r] = 0 /\ row[r] = NoRow /\ ~ Holds(r)
  BY <1>1 DEF BudgetInit, BudgetType, Holds
<1>3. CostsCovered
  BY <1>1, <1>2 DEF CostsCovered, Covered, NoRow, BudgetType
<1>4. OneAdmission
  BY <1>2 DEF OneAdmission
<1>5. \A r \in Requests : Exposures[r] = 0 /\ \A k \in Nat : ExposuresIn(k)[r] = 0
  BY <1>2 DEF Exposures, ExposuresIn, Exposure, ExposureIn
<1>6. ASSUME NEW S \in SUBSET Requests, NEW limit \in Nat, NEW F, \A r \in S : F[r] = 0
      PROVE  SumOf(F, S) <= limit
  BY <1>1, <1>2, <1>6, OnlyTheAdmitted
<1>7. /\ TaskLimit \in Nat /\ TeamLimit \in Nat /\ MonthLimit \in Nat
      /\ account # NoLimit => account \in Nat
      /\ Requests \in SUBSET Requests
      /\ (\A t : ForTask(t) \in SUBSET Requests) /\ (\A m : ForTeam(m) \in SUBSET Requests)
  BY <1>1, BudgetAssumption DEF ForTask, ForTeam, BudgetType
<1>8. WithinLimits
  <2>1. \A t \in FundedTasks : SumOf(Exposures, ForTask(t)) <= TaskLimit
    BY <1>5, <1>6, <1>7
  <2>2. \A m \in FundedTeams : SumOf(Exposures, ForTeam(m)) <= TeamLimit
    BY <1>5, <1>6, <1>7
  <2>3. \A m \in FundedTeams : \A k \in Nat : SumOf(ExposuresIn(k), ForTeam(m)) <= MonthLimit
    BY <1>5, <1>6, <1>7
  <2>4. account # NoLimit => \A k \in Nat : SumOf(ExposuresIn(k), Requests) <= account
    BY <1>5, <1>6, <1>7
  <2> QED BY <2>1, <2>2, <2>3, <2>4 DEF WithinLimits
<1> QED BY <1>1, <1>3, <1>4, <1>8 DEF LimitsInv

LEMMA LimitsStep == LimitsInv /\ [BudgetNext]_budgetVars => LimitsInv'
<1> SUFFICES ASSUME LimitsInv, [BudgetNext]_budgetVars PROVE LimitsInv'
  OBVIOUS
<1>1. BudgetType /\ CostsCovered /\ OneAdmission
  BY DEF LimitsInv
<1>2. BudgetType' /\ CostsCovered' /\ OneAdmission'
  BY <1>1, BudgetTypeStep, CostsCoveredStep, OneAdmissionStep
<1>3. WithinLimits'
  <2>1. CASE NewMonth
    BY <1>2, <2>1, NewMonthKeepsLimits
  <2>2. CASE \E r \in Requests : ReadTotals(r) /\ pc'[r] = "admitting"
    BY <1>2, <2>2, AdmissionKeepsLimits
  <2>3. CASE ~ NewMonth /\ ~ \E r \in Requests : ReadTotals(r) /\ pc'[r] = "admitting"
    <3>1. month' = month
      BY <1>1, <2>3, WorkStays
    <3>2. \A r \in Requests : Falls(r)
      BY <1>1, <1>2, <2>3, <3>1, ExposureFalls
    <3> QED BY <1>2, <3>2, FallsKeepsLimits
  <2> QED BY <2>1, <2>2, <2>3
<1> QED BY <1>2, <1>3 DEF LimitsInv

LEMMA LimitsFollow == LimitsInv => LimitsHold
<1> SUFFICES ASSUME LimitsInv PROVE LimitsHold
  OBVIOUS
<1>1. /\ TaskLimit \in Nat /\ TeamLimit \in Nat /\ MonthLimit \in Nat /\ MaxMonth \in Nat
      /\ BudgetType /\ CostsCovered
      /\ \A k \in 0..MaxMonth : k \in Nat
  BY BudgetAssumption DEF LimitsInv
<1>2. \A r \in Requests : /\ charge[r] \in Nat /\ Exposures[r] \in Nat /\ charge[r] <= Exposures[r]
                          /\ \A k \in Nat : ExposuresIn(k)[r] \in Nat
                          /\ r \in Rows => ExposuresIn(row[r].month)[r] = Exposures[r]
  <2> SUFFICES ASSUME NEW r \in Requests
               PROVE  /\ charge[r] \in Nat /\ Exposures[r] \in Nat /\ charge[r] <= Exposures[r]
                      /\ \A k \in Nat : ExposuresIn(k)[r] \in Nat
                      /\ r \in Rows => ExposuresIn(row[r].month)[r] = Exposures[r]
    OBVIOUS
  <2>1. /\ Exposures[r] = Exposure(r) /\ \A k : ExposuresIn(k)[r] = ExposureIn(r, k)
    BY DEF Exposures, ExposuresIn
  <2>2. r \in Rows => ~ Holds(r)
    BY <1>1, KnownCovers DEF Rows
  <2>3. r \in Rows => ExposureIn(r, row[r].month) = Exposure(r)
    BY <2>2 DEF ExposureIn, BilledTo
  <2> QED BY <1>1, <2>1, <2>3, RequestTypes, ExposureTypes, KnownCovers
<1>3. (\A t : ForTask(t) \in SUBSET Requests) /\ (\A m : ForTeam(m) \in SUBSET Requests)
  BY DEF ForTask, ForTeam
<1>4. \A t \in FundedTasks : Spent({r \in Requests : Task(r) = t}) <= TaskLimit
  <2> SUFFICES ASSUME NEW t \in FundedTasks PROVE Spent(ForTask(t)) <= TaskLimit
    BY DEF ForTask
  <2>1. SumOf(Exposures, ForTask(t)) <= TaskLimit
    BY DEF LimitsInv, WithinLimits
  <2>2. SumOf(charge, ForTask(t)) <= TaskLimit
    BY <1>1, <1>2, <1>3, <2>1, SumFalls
  <2> QED BY <2>2, SpentIsSum
<1>5. \A m \in FundedTeams : Spent({r \in Requests : Team(r) = m}) <= TeamLimit
  <2> SUFFICES ASSUME NEW m \in FundedTeams PROVE Spent(ForTeam(m)) <= TeamLimit
    BY DEF ForTeam
  <2>1. SumOf(Exposures, ForTeam(m)) <= TeamLimit
    BY DEF LimitsInv, WithinLimits
  <2>2. SumOf(charge, ForTeam(m)) <= TeamLimit
    BY <1>1, <1>2, <1>3, <2>1, SumFalls
  <2> QED BY <2>2, SpentIsSum
<1>6. ASSUME NEW T \in SUBSET Requests, NEW S \in SUBSET T, NEW k \in Nat, NEW limit \in Nat,
             \A r \in S : r \in Rows /\ row[r].month = k, SumOf(ExposuresIn(k), T) <= limit
      PROVE  Spent(S) <= limit
  <2>1. IsFiniteSet(S) /\ IsFiniteSet(T) /\ S \in SUBSET Requests
    BY <1>1, <1>6, FiniteRows
  <2>2. (\A x \in S : charge[x] \in Int) /\ (\A x \in T : ExposuresIn(k)[x] \in Int)
    BY <1>2, <2>1
  <2>3. \A x \in S : charge[x] <= ExposuresIn(k)[x]
    BY <1>2, <1>6, <2>1
  <2>4. (\A x \in S \ T : charge[x] <= 0) /\ (\A x \in T \ S : ExposuresIn(k)[x] >= 0)
    BY <1>2
  <2>5. SumOf(charge, S) <= SumOf(ExposuresIn(k), T)
    BY <2>1, <2>2, <2>3, <2>4, SumCover
  <2>6. SumOf(charge, S) \in Int /\ SumOf(ExposuresIn(k), T) \in Int
    BY <2>1, <2>2, SumType
  <2>7. SumOf(charge, S) <= limit
    BY <1>6, <2>5, <2>6
  <2> QED BY <2>7, SpentIsSum
<1>7. \A m \in FundedTeams : \A k \in 0..MaxMonth :
        Spent({r \in Rows : Team(r) = m /\ row[r].month = k}) <= MonthLimit
  <2> SUFFICES ASSUME NEW m \in FundedTeams, NEW k \in 0..MaxMonth
               PROVE  Spent({r \in Rows : Team(r) = m /\ row[r].month = k}) <= MonthLimit
    OBVIOUS
  <2> DEFINE S == {r \in Rows : Team(r) = m /\ row[r].month = k}
  <2>1. k \in Nat /\ SumOf(ExposuresIn(k), ForTeam(m)) <= MonthLimit
    BY <1>1 DEF LimitsInv, WithinLimits
  <2>2. S \in SUBSET ForTeam(m) /\ \A r \in S : r \in Rows /\ row[r].month = k
    BY DEF Rows, ForTeam
  <2> HIDE DEF S
  <2>3. Spent(S) <= MonthLimit
    BY <1>1, <1>3, <1>6, <2>1, <2>2
  <2> QED BY <2>3 DEF S
<1>8. ASSUME account # NoLimit
      PROVE  \A k \in 0..MaxMonth : Spent({r \in Rows : row[r].month = k}) <= account
  <2> SUFFICES ASSUME NEW k \in 0..MaxMonth PROVE Spent({r \in Rows : row[r].month = k}) <= account
    OBVIOUS
  <2> DEFINE S == {r \in Rows : row[r].month = k}
  <2>1. k \in Nat /\ account \in Nat /\ SumOf(ExposuresIn(k), Requests) <= account
    BY <1>1, <1>8 DEF LimitsInv, WithinLimits, BudgetType
  <2>2. /\ Requests \in SUBSET Requests /\ S \in SUBSET Requests
        /\ \A r \in S : r \in Rows /\ row[r].month = k
    BY DEF Rows
  <2> HIDE DEF S
  <2>3. Spent(S) <= account
    BY <1>6, <2>1, <2>2
  <2> QED BY <2>3 DEF S
<1> QED BY <1>4, <1>5, <1>7, <1>8 DEF LimitsHold

(* What providers charged stays within the limits of task, Team, month and  *)
(* account, for any number of requests, tasks and Teams and any limits: the *)
(* admission transaction of reserve_budget() counts what every other        *)
(* request may still cost.                                                  *)
THEOREM LimitsAreRespected == BudgetSpec => []LimitsHold
<1>1. LimitsInv /\ [BudgetNext]_budgetVars => LimitsInv'
  BY LimitsStep
<1> QED BY <1>1, LimitsInit, LimitsFollow, PTL DEF BudgetSpec
=============================================================================
