------------------------------ MODULE Observer ------------------------------
(***************************************************************************)
(* The optional assistant (backend/app/observability/observer and           *)
(* bootstrap/observer.py): its switch, which every process hears of through *)
(* LISTEN and applies to itself, and the questions it answers with or       *)
(* without a local model, which must leave the machine to engineering work. *)
(*                                                                         *)
(* A stream answers one question in one process; what it does between two   *)
(* awaits that touch shared state is one step.  Times are kept by what they *)
(* decide: an answer ends within 85 seconds of its claim, a claim counts    *)
(* for 90, a question is given up on 5 minutes after it was asked.          *)
(***************************************************************************)
EXTENDS Naturals

CONSTANTS
  Apis,         (* API processes, which answer                              *)
  Supporters,   (* execution controllers, which detect and clean up         *)
  Questions,
  MaxAsides     (* bound: changes of the saved configuration, lost          *)
                (* connections, stops, crashes and closed pages, together   *)

ASSUME ObserverAssumption ==
  /\ Apis \cap Supporters = {}
  /\ MaxAsides \in Nat

VARIABLES
  preference, (* the deployment's: off, or on with a policy                 *)
  runtime,   (* ObserverRuntime of each process                             *)
  question,  (* observer_questions rows                                     *)
  receipt,   (* observer_model_runs rows                                    *)
  stream,    (* the request each process answers, and for which question    *)
  asides

observerVars ==
  <<preference, runtime, question, receipt, stream, asides>>

Processes == Apis \cup Supporters
Switch    == {"off", "facts", "local"}

(* held: the configuration applied last; got: one that was read and waits   *)
(* for apply_lock; closing: _apply() waits for the streams it cancelled;    *)
(* told: the listener's Event is set.                                       *)
Runtime  == [held : Switch, got : Switch \cup {"none"}, closing : BOOLEAN,
             linked : BOOLEAN, told : BOOLEAN]
(* STALE: RUNNING, from a claim made more than 90 seconds ago.              *)
Question == [status : {"NEW", "PENDING", "RUNNING", "STALE", "COMPLETED", "INTERRUPTED"},
             aged : BOOLEAN]
(* The answer() of a question: what has been reached.                       *)
InHand  == {"reading", "local"}
Steps    == InHand \cup {"free", "asking", "opened", "ended", "cancelled"}

Stopped == [held |-> "off", got |-> "none", closing |-> FALSE,
            linked |-> FALSE, told |-> FALSE]
Unused  == [at |-> "free"]

(* A process that runs as it was told to.                                   *)
AsTold(s) == [Stopped EXCEPT !.held = s, !.linked = TRUE]

ObserverInit ==
  /\ preference \in Switch
  /\ runtime = [p \in Processes |-> AsTold(preference)]
  /\ question = [q \in Questions |-> [status |-> "NEW", aged |-> FALSE]]
  /\ receipt = [q \in Questions |-> "NONE"]
  /\ stream = [p \in Apis |-> Unused]
  /\ asides = 0

On(p)     == runtime[p].held # "off"
Aside     == asides < MaxAsides /\ asides' = asides + 1
Stands(p, from)  == stream[p].at = from
Moves(p, to)  == stream' = [stream EXCEPT ![p] = IF to = "free" THEN Unused ELSE [@ EXCEPT !.at = to]]
Begins(p, q, to) == Stands(p, "free") /\ stream' = [stream EXCEPT ![p] = [at |-> to, on |-> q]]
WorkedOn(q)  == \E p \in Apis : stream[p].at \in InHand /\ stream[p].on = q

-----------------------------------------------------------------------------
(* The switch.                                                              *)

(* preference(): the change and its notification are one transaction.       *)
SaveSwitch(p, s) ==
  /\ Aside /\ s # preference
  /\ runtime[p].got = "none" /\ ~ runtime[p].closing
  /\ preference' = s
  /\ runtime' = [x \in Processes |->
       [runtime[x] EXCEPT !.told = @ \/ runtime[x].linked, !.got = IF x = p THEN s ELSE @]]
  /\ UNCHANGED <<question, receipt, stream>>

(* listen(): a connection first listens and then reads the configuration;   *)
(* when it ends it reads it once more and connects again.                   *)
Connect(p) ==
  /\ ~ runtime[p].linked /\ ~ runtime[p].told
  /\ runtime' = [runtime EXCEPT ![p].linked = TRUE, ![p].told = TRUE]
  /\ UNCHANGED <<preference, question, receipt, stream, asides>>

Disconnect(p) ==
  /\ runtime[p].linked /\ Aside
  /\ runtime' = [runtime EXCEPT ![p].linked = FALSE, ![p].told = TRUE]
  /\ UNCHANGED <<preference, question, receipt, stream>>

(* configure(): one at a time in a process.                                 *)
Configure(p) ==
  /\ runtime[p].told
  /\ runtime[p].got = "none" /\ ~ runtime[p].closing
  /\ runtime' = [runtime EXCEPT ![p].told = FALSE, ![p].got = preference]
  /\ UNCHANGED <<preference, question, receipt, stream, asides>>

(* A stream that is cancelled records it, unless it is past the part that   *)
(* does; one whose response has not begun is not known to the runtime.      *)
Cancelled(at) ==
  CASE at \in InHand -> "cancelled" [] at = "ended" -> "free" [] OTHER -> at

(* _apply(), up to the wait for the streams: a configuration that differs   *)
(* stops the model and whatever runs.                                       *)
Switches(p, s) ==
  /\ ~ runtime[p].closing
  /\ IF s = runtime[p].held
     THEN runtime' = [runtime EXCEPT ![p].got = "none"] /\ UNCHANGED stream
     ELSE /\ runtime' = [runtime EXCEPT ![p].held = s, ![p].got = "none", ![p].closing = TRUE]
          /\ IF p \in Apis
             THEN Moves(p, Cancelled(stream[p].at)) ELSE UNCHANGED stream

Apply(p) ==
  /\ runtime[p].got # "none"
  /\ Switches(p, runtime[p].got)
  /\ UNCHANGED <<preference, question, receipt, asides>>

(* The database cannot be reached, or the process is about to stop.         *)
FailClosed(p) ==
  /\ ~ runtime[p].linked /\ runtime[p].got = "none" /\ On(p)
  /\ Aside
  /\ Switches(p, "off")
  /\ UNCHANGED <<preference, question, receipt>>

Claimed == {"RUNNING", "STALE"}
Open(status) == status \in Claimed \cup {"PENDING"}

(* The rest of _apply(), when the streams ended or three seconds have       *)
(* passed: a process that goes off gives up every question, its own or not. *)
FinishApply(p) ==
  /\ runtime[p].closing
  /\ runtime' = [runtime EXCEPT ![p].closing = FALSE]
  /\ question' =
       IF On(p) THEN question
       ELSE [q \in Questions |->
              [question[q] EXCEPT !.status = IF Open(@) THEN "INTERRUPTED" ELSE @]]
  /\ UNCHANGED <<preference, receipt, stream, asides>>

Kill(p) ==
  /\ Aside
  /\ runtime' = [runtime EXCEPT ![p] = Stopped]
  /\ IF p \in Apis THEN Moves(p, "free") ELSE UNCHANGED stream
  /\ UNCHANGED <<preference, question, receipt>>

-----------------------------------------------------------------------------
(* The questions.                                                           *)
Others == <<preference, runtime, asides>>

(* question(): the switch is read before the row is written.                *)
Ask(p, q) ==
  /\ On(p) /\ question[q].status = "NEW"
  /\ \A x \in Apis : Stands(x, "asking") => stream[x].on # q
  /\ Begins(p, q, "asking")
  /\ UNCHANGED <<Others, question, receipt>>

CreateQuestion(p) ==
  /\ Stands(p, "asking") /\ Moves(p, "free")
  /\ question' = [question EXCEPT ![stream[p].on].status = "PENDING"]
  /\ UNCHANGED <<Others, receipt>>

(* question_events(): a page opens the stream of a question.  Of one that   *)
(* was claimed it is told so, or shown the answer.                          *)
OpenStream(p, q) ==
  /\ On(p) /\ question[q].status = "PENDING"
  /\ Begins(p, q, "opened")
  /\ UNCHANGED <<Others, question, receipt>>

(* Mutant: a question that was given up on may be claimed once more.        *)
MayClaimAgain(q) ==
  /\ question[q].status \in {"PENDING", "INTERRUPTED"} /\ ~ question[q].aged
  /\ \A o \in Questions : question[o].status # "RUNNING"

(* claim_question()                                                         *)
MayClaim(q) ==
  /\ question[q].status = "PENDING" /\ ~ question[q].aged
  /\ \A o \in Questions : question[o].status # "RUNNING"

(* A stream that may not claim is told so; two claims at once may both be   *)
(* refused.                                                                 *)
ClaimQuestion(p) ==
  /\ Stands(p, "opened")
  /\ \/ /\ MayClaim(stream[p].on)
        /\ Moves(p, "reading")
        /\ question' = [question EXCEPT ![stream[p].on].status = "RUNNING"]
     \/ Moves(p, "free") /\ UNCHANGED question
  /\ UNCHANGED <<Others, receipt>>

(* local_enabled, which _apply() clears while it waits.                     *)
LocalEnabled(p) == runtime[p].held = "local" /\ ~ runtime[p].closing
Receipt(p, r)   == receipt' = [receipt EXCEPT ![stream[p].on] = r]

(* The facts are gathered.  If nothing speaks against the model, such as    *)
(* work of engineering, its receipt is begun.                               *)
Gathered(p) ==
  /\ Stands(p, "reading")
  /\ \/ LocalEnabled(p) /\ Moves(p, "local") /\ Receipt(p, "STARTED")
     \/ Moves(p, "ended") /\ UNCHANGED receipt
  /\ UNCHANGED <<Others, question>>

(* _local_explanation(): the model answered or failed, or what spoke        *)
(* against it was seen before it began or at the next look.                 *)
Explained(p) ==
  /\ Stands(p, "local") /\ Moves(p, "ended")
  /\ Receipt(p, "DONE")
  /\ UNCHANGED <<Others, question>>

(* 85 seconds have passed, or what it needs failed.                         *)
OutOfTime(p) ==
  /\ stream[p].at \in InHand
  /\ Moves(p, "ended")
  /\ IF Stands(p, "reading") THEN UNCHANGED receipt ELSE Receipt(p, "INTERRUPTED")
  /\ UNCHANGED <<Others, question>>

(* finish_question()                                                        *)
Answered(q) ==
  question' = [question EXCEPT ![q].status = IF @ \in Claimed THEN "COMPLETED" ELSE @]

FinishQuestion(p) ==
  /\ Stands(p, "ended") /\ Answered(stream[p].on)
  /\ Moves(p, "free")
  /\ UNCHANGED <<Others, receipt>>

(* The page is closed: the task is cancelled and its bookkeeping done under *)
(* a shield of three seconds.                                               *)
ClosePage(p) ==
  /\ stream[p].at \in InHand \cup {"ended"} /\ Aside
  /\ Moves(p, Cancelled(stream[p].at))
  /\ UNCHANGED <<preference, runtime, question, receipt>>

Interrupt(p) ==
  /\ Stands(p, "cancelled") /\ Answered(stream[p].on)
  /\ Moves(p, "free")
  /\ IF receipt[stream[p].on] = "STARTED" THEN Receipt(p, "INTERRUPTED") ELSE UNCHANGED receipt
  /\ UNCHANGED Others

(* The generator is dropped where it waits, or the bookkeeping fails.       *)
DropStream(p) ==
  /\ stream[p].at \in InHand \cup {"ended", "cancelled"} /\ Aside
  /\ Moves(p, "free")
  /\ UNCHANGED <<preference, runtime, question, receipt>>

-----------------------------------------------------------------------------
(* Time, and what run_attention() does every hour while it runs.            *)
(* 90 seconds from the claim: no stream works on it any more.               *)
ClaimExpires(q) ==
  /\ question[q].status = "RUNNING" /\ ~ WorkedOn(q)
  /\ question' = [question EXCEPT ![q].status = "STALE"]
  /\ UNCHANGED <<Others, receipt, stream>>

(* 5 minutes from the question; its receipt is taken to be as old.          *)
Grow(q) ==
  /\ Open(question[q].status) \/ receipt[q] = "STARTED"
  /\ ~ question[q].aged
  /\ question' = [question EXCEPT ![q].aged = TRUE]
  /\ UNCHANGED <<Others, receipt, stream>>

(* Mutant: only questions that were claimed are given up on.                *)
GivenUpRunning(q) == question[q].status \in Claimed /\ question[q].aged

GivenUp(q) == Open(question[q].status) /\ question[q].aged

Cleanup(w) ==
  /\ On(w)
  /\ question' = [q \in Questions |->
       [question[q] EXCEPT !.status = IF GivenUp(q) THEN "INTERRUPTED" ELSE @]]
  /\ receipt' = [q \in Questions |->
       IF receipt[q] = "STARTED" /\ question[q].aged /\ question'[q].status \notin Claimed
       THEN "INTERRUPTED" ELSE receipt[q]]
  /\ UNCHANGED <<Others, stream>>

-----------------------------------------------------------------------------
SwitchSteps(p) ==
  \/ \E s \in Switch : p \in Apis /\ SaveSwitch(p, s)
  \/ Connect(p) \/ Disconnect(p) \/ Configure(p) \/ Apply(p) \/ FailClosed(p)
  \/ FinishApply(p) \/ Kill(p)

Proceed(p) ==
  \/ CreateQuestion(p) \/ ClaimQuestion(p) \/ Gathered(p) \/ Explained(p)
  \/ OutOfTime(p) \/ FinishQuestion(p) \/ Interrupt(p)

ObserverNext ==
  \/ \E p \in Processes : SwitchSteps(p)
  \/ \E p \in Apis :
       \/ \E q \in Questions : Ask(p, q) \/ OpenStream(p, q)
       \/ Proceed(p) \/ ClosePage(p) \/ DropStream(p)
  \/ \E q \in Questions : ClaimExpires(q) \/ Grow(q)
  \/ \E w \in Supporters : Cleanup(w)

(* A process connects again every five seconds, applies what it hears and   *)
(* ends what it answers; the detector of a controller that is on cleans up. *)
(* Nothing is assumed of pages: one may never open the stream it asked for. *)
ObserverFairness ==
  /\ \A p \in Processes : WF_observerVars(Connect(p) \/ Configure(p) \/ Apply(p) \/ FinishApply(p))
  /\ \A p \in Apis : WF_observerVars(Proceed(p))
  /\ \A q \in Questions : WF_observerVars(Grow(q))
  /\ \A w \in Supporters : WF_observerVars(Cleanup(w))
ObserverSpec == ObserverInit /\ [][ObserverNext]_observerVars /\ ObserverFairness

-----------------------------------------------------------------------------
ObserverTypeOK ==
  /\ preference \in Switch
  /\ runtime \in [Processes -> Runtime]
  /\ question \in [Questions -> Question]
  /\ receipt \in [Questions -> {"NONE", "STARTED", "DONE", "INTERRUPTED"}]
  /\ stream \in [Apis -> {Unused} \cup [at : Steps, on : Questions]]

(* docs/architecture.md:788: "Persisted claims prevent duplicate inference". *)
(* No question is in the hands of two streams, whatever pages open it again, *)
(* and however its claim is overtaken by a switch, a cleanup or a crash      *)
(* (claim_question(), finish_question()).                                   *)
NoDuplicateInference ==
  \A p, x \in Apis :
    stream[p].at \in InHand /\ stream[x].at \in InHand /\ stream[p].on = stream[x].on => p = x

(* While the assistant is left on, every question is answered or given up   *)
(* on and no receipt stays open: no crash, closed page, lost connection or  *)
(* quick change of the switch leaves one for ever.                          *)
QuestionsSettle ==
  <>[](preference # "off") =>
    <>[](\A q \in Questions : ~ Open(question[q].status) /\ receipt[q] # "STARTED")
=============================================================================
