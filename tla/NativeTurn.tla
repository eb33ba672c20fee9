----------------------------- MODULE NativeTurn -----------------------------
(***************************************************************************)
(* One native turn: the controller's transport (DockerHarness), the runner *)
(* in its container and the harness that drives the model there, speaking  *)
(* a line protocol over the container's log and files in a control         *)
(* directory.  Sources: agent_runtime/infrastructure/{docker_harness,      *)
(* runner, codex, claude, responses}, agent_runtime/application/           *)
(* developer_progress_governor, engineering/application/develop.           *)
(***************************************************************************)
EXTENDS Integers, Sequences

CONSTANTS
  Harnesses,  \* subset of {"codex", "claude", "responses"}
  MaxCycles   \* bound: inferences of the turn

ASSUME NativeAssumption ==
  Harnesses \subseteq {"codex", "claude", "responses"} /\ MaxCycles \in Nat

VARIABLES
  host,      \* where the controller is: launch, persist, authorize, wait, close
  dock,      \* the container, and what the controller knows of it
  reader,    \* what _read() set: native id, receipt, error, open supervision
  wire,      \* lines of the log not read yet
  control,   \* the control directory: start.json and supervision answers
  recorded,  \* the native id is in the DeveloperSession row
  runner,    \* where execute() is in the container
  turn,      \* the model's turn and the governor that watches it
  sup,       \* the supervision task of the harness
  paid       \* inferences the provider charged

nativeVars == <<host, dock, reader, wire, control, recorded, runner, turn, sup, paid>>

NoBox    == [box |-> "none", asked |-> FALSE, known |-> FALSE, failed |-> FALSE]
NoReader == [id |-> FALSE, receipt |-> "none", error |-> "none", open |-> 0, answered |-> 0]
NoTurn   == [kind |-> "none", item |-> FALSE, ended |-> FALSE, seen |-> FALSE, cycles |-> 0,
             edited |-> FALSE, stop |-> "none", pending |-> FALSE,
             budget |-> FALSE, halt |-> FALSE]
NoSup    == [task |-> "none", kind |-> "none", n |-> 0, kinds |-> {}]

NativeInit ==
  /\ host = "idle" /\ dock = NoBox /\ reader = NoReader /\ wire = <<>>
  /\ control = [start |-> FALSE, answers |-> <<>>]
  /\ recorded \in BOOLEAN \* a first turn, or one of a thread that exists
  /\ runner = "none" /\ turn = NoTurn /\ sup = NoSup /\ paid = 0

inContainer == <<wire, runner, turn, sup, paid>>
Emit(e) == wire' = Append(wire, e)
Exits == runner' = "exited" /\ dock' = [dock EXCEPT !.box = "exited"]

-----------------------------------------------------------------------------
(* The controller.                                                          *)

(* A create request may be lost with its answer: the container exists, and  *)
(* its id is unknown.                                                       *)
Launch ==
  /\ host = "idle"
  /\ \/ host' = "closing" /\ UNCHANGED dock \* no internal network, no proxy
     \/ \E b \in {"none", "created"} :
          dock' = [dock EXCEPT !.asked = TRUE, !.box = b] /\ host' = "closing"
     \/ /\ dock' = [dock EXCEPT !.asked = TRUE, !.box = "created", !.known = TRUE]
        /\ host' = "created"
  /\ UNCHANGED <<reader, control, recorded>> /\ UNCHANGED inContainer

StartBox ==
  /\ host = "created"
  /\ \/ /\ dock' = [dock EXCEPT !.box = "running"] /\ runner' = "connect"
        /\ host' \in {"starting", "closing"}
        /\ \E k \in Harnesses : turn' = [turn EXCEPT !.kind = k]
     \/ host' = "closing" /\ UNCHANGED <<dock, runner, turn>>
  /\ UNCHANGED <<reader, control, recorded, wire, sup, paid>>

(* Sixty seconds for session_started.                                       *)
Started ==
  /\ host = "starting"
  /\ \/ reader.id /\ host' = IF recorded THEN "authorize" ELSE "persist"
     \/ ~reader.id /\ host' = "closing"
  /\ UNCHANGED <<dock, reader, control, recorded>> /\ UNCHANGED inContainer

(* session_started() commits the id under the lease, or finds it lost.      *)
PersistId ==
  /\ host = "persist"
  /\ \/ recorded' = TRUE /\ host' = "authorize"
     \/ host' = "closing" /\ UNCHANGED recorded
  /\ UNCHANGED <<dock, reader, control>> /\ UNCHANGED inContainer

(* assert_runnable() before start.json; a pause may have come in between.   *)
Authorize ==
  /\ host = "authorize"
  /\ \/ control' = [control EXCEPT !.start = TRUE] /\ host' = "waiting"
     \/ host' = "closing" /\ UNCHANGED control
  /\ UNCHANGED <<dock, reader, recorded>> /\ UNCHANGED inContainer

(* The receipt, an error of the reader, or the timeout of the turn.         *)
TurnEnds ==
  /\ host = "waiting" /\ host' = "closing"
  /\ UNCHANGED <<dock, reader, control, recorded>> /\ UNCHANGED inContainer

(* Mutant: only a container whose id is known is cleaned up.                *)
LookUpSkipped ==
  /\ host = "closing" /\ dock.asked /\ ~dock.known
  /\ host' = "closed" /\ UNCHANGED <<dock, reader, control, recorded>> /\ UNCHANGED inContainer

(* A lost create response: look the container up by the name of the lease.  *)
LookUp ==
  /\ host = "closing" /\ dock.asked /\ ~dock.known
  /\ IF dock.box = "none" THEN host' = "closed" /\ UNCHANGED dock
     ELSE \/ dock' = [dock EXCEPT !.known = TRUE] /\ UNCHANGED host
          \/ dock' = [dock EXCEPT !.failed = TRUE] /\ host' = "closed"
  /\ UNCHANGED <<reader, control, recorded>> /\ UNCHANGED inContainer

(* interrupt(): SIGTERM cancels the runner, which may still get a line out; *)
(* a Responses turn reports what it has.                                    *)
LastWords == {"failed", "killed"} \union
             IF runner = "turn" /\ turn.kind = "responses" THEN {"completed"} ELSE {}
StopBox ==
  /\ host = "closing" /\ dock.known /\ dock.box = "running"
  /\ \/ /\ Exits /\ \E e \in LastWords : Emit([event |-> e, n |-> 0])
        /\ host' = "stopped"
     \/ host' = "stopped" /\ UNCHANGED <<dock, runner, wire>> \* Docker refuses
  /\ UNCHANGED <<reader, control, recorded, turn, sup, paid>>

(* The container is deleted by force even when stopping it failed.          *)
DeleteBox ==
  /\ host = "stopped" \/ (host = "closing" /\ dock.known /\ dock.box # "running")
  /\ \/ /\ dock' = [dock EXCEPT !.box = "none"]
        /\ runner' = IF runner = "none" THEN "none" ELSE "exited"
     \/ dock' = [dock EXCEPT !.failed = TRUE] /\ UNCHANGED runner
  /\ host' = "closed"
  /\ UNCHANGED <<reader, control, recorded, wire, turn, sup, paid>>

NothingToClose ==
  /\ host = "closing" /\ ~dock.asked /\ host' = "closed"
  /\ UNCHANGED <<dock, reader, control, recorded>> /\ UNCHANGED inContainer

-----------------------------------------------------------------------------
(* The reader: a second task of the controller, cancelled by close().       *)
Reading ==
  /\ host \in {"starting", "persist", "authorize", "waiting", "closing", "stopped"}
  /\ reader.error = "none" /\ reader.open = 0

Refused(r) == [r EXCEPT !.error = "protocol"]
Understand(r, e) ==
  CASE e.event = "started" -> IF r.id THEN Refused(r) ELSE [r EXCEPT !.id = TRUE]
    [] e.event = "supervision" ->
         IF e.n # r.answered + 1 \/ r.answered >= 2 THEN Refused(r)
         ELSE [r EXCEPT !.answered = @ + 1, !.open = e.n]
    [] e.event = "completed" ->
         IF ~r.id \/ r.receipt # "none" THEN Refused(r) ELSE [r EXCEPT !.receipt = "read"]
    [] e.event = "failed" -> [r EXCEPT !.error = "runner"]
    [] OTHER -> [r EXCEPT !.error = "eof"]

Hear ==
  /\ Reading /\ wire # <<>>
  /\ reader' = Understand(reader, Head(wire)) /\ wire' = Tail(wire)
  /\ UNCHANGED <<host, dock, control, recorded, runner, turn, sup, paid>>

(* on_supervision() answers into a file, or fails and ends the reader.      *)
Answer ==
  /\ reader.open # 0 /\ host \notin {"idle", "created", "closed"}
  /\ \/ /\ \E a \in {"CONTINUE", "NUDGE", "STOP"} :
             control' = [control EXCEPT !.answers = Append(@, a)]
        /\ reader' = [reader EXCEPT !.open = 0]
     \/ reader' = [reader EXCEPT !.open = 0, !.error = "supervisor"] /\ UNCHANGED control
  /\ UNCHANGED <<host, dock, recorded>> /\ UNCHANGED inContainer

-----------------------------------------------------------------------------
(* The runner.                                                              *)
controller == <<host, reader, control, recorded>>

(* The workspace and a rollover checkpoint are checked, the harness starts  *)
(* or resumes its thread; nothing is asked of the model yet.                *)
Connects ==
  /\ runner = "connect" /\ runner' = "await" /\ Emit([event |-> "started", n |-> 0])
  /\ UNCHANGED <<dock, turn, sup, paid>> /\ UNCHANGED controller

Fails ==
  /\ runner \in {"connect", "await", "turn"}
  /\ Exits /\ \E e \in {"failed", "killed"} : Emit([event |-> e, n |-> 0])
  /\ UNCHANGED <<turn, sup, paid>> /\ UNCHANGED controller

(* Mutant: the turn starts as soon as the thread exists.                    *)
AuthorisedAtOnce ==
  /\ runner = "await" /\ runner' = "turn"
  /\ UNCHANGED <<dock, wire, turn, sup, paid>> /\ UNCHANGED controller

(* await_controller().                                                      *)
Authorised ==
  /\ runner = "await" /\ control.start /\ runner' = "turn"
  /\ UNCHANGED <<dock, wire, turn, sup, paid>> /\ UNCHANGED controller

Completes(t) ==
  /\ turn' = t /\ Exits /\ Emit([event |-> "completed", n |-> 0])

-----------------------------------------------------------------------------
(* The governor: reasons that need an unchanged worktree end with an edit,  *)
(* and the last reason found is kept.                                       *)
Observed(t, reason) == [t EXCEPT !.cycles = @ + 1, !.stop = IF reason = "none" THEN @ ELSE reason]
Reasons(t) ==
  {"none", "TURN_INPUT_LIMIT", "REPEATED_TOOL_LOOP"} \union
  (IF t.edited THEN {} ELSE {"EXPLORATION_LIMIT"})
Edits(t) == [t EXCEPT !.edited = TRUE]

InTurn(kind) == runner = "turn" /\ turn.kind = kind /\ ~turn.seen

(* _supervise_anomaly(): two questions, one of a kind, none after a stop.   *)
MayAsk(kind) ==
  /\ ~turn.seen /\ turn.stop = "none"
  /\ sup.n < 2 /\ kind \notin sup.kinds

Schedule(kinds) ==
  IF sup.task # "none" \/ kinds = {} THEN UNCHANGED sup
  ELSE sup' \in {sup} \union {[sup EXCEPT !.task = "scheduled", !.kind = k] : k \in kinds}

Asks(k) ==
  /\ sup' = [sup EXCEPT !.task = "asked", !.n = @ + 1, !.kinds = @ \union {k}]
  /\ Emit([event |-> "supervision", n |-> sup.n + 1])

Supervise ==
  /\ runner = "turn" /\ sup.task = "scheduled"
  /\ IF MayAsk(sup.kind) THEN Asks(sup.kind)
     ELSE sup' = [sup EXCEPT !.task = "none"] /\ UNCHANGED wire
  /\ UNCHANGED <<dock, runner, turn, paid>> /\ UNCHANGED controller

(* What request_supervision() returns: the file, or STOP after a timeout.   *)
Reply == IF Len(control.answers) >= sup.n THEN {control.answers[sup.n]} ELSE {"STOP"}

(* A late decision is dropped: state is read again after the await.         *)
Decide ==
  /\ runner = "turn" /\ turn.kind = "codex"
  /\ sup.task = "asked" /\ sup' = [sup EXCEPT !.task = "none"]
  /\ \E a \in Reply :
       turn' = IF a = "STOP" /\ ~turn.seen /\ turn.stop = "none"
               THEN [turn EXCEPT !.stop = "SUPERVISOR_STOP", !.halt = TRUE] ELSE turn
  /\ UNCHANGED <<dock, wire, runner, paid>> /\ UNCHANGED controller

-----------------------------------------------------------------------------
(* Codex: a stream of events.  A governor stop waits for the running item,  *)
(* a spent allowance does not.                                              *)
CodexInference ==
  /\ InTurn("codex") /\ ~turn.ended /\ ~turn.halt /\ turn.cycles < MaxCycles
  /\ paid' = paid + 1
  /\ \E reason \in Reasons(turn), over \in BOOLEAN :
       LET t == Observed(turn, reason)
       IN  /\ turn' = [t EXCEPT !.pending = @ \/ (t.stop # "none" /\ ~t.budget),
                                !.budget = @ \/ over, !.halt = @ \/ over]
           /\ Schedule(IF t.stop # "none" \/ t.edited THEN {} ELSE {"NO_PROGRESS"})
  /\ UNCHANGED <<dock, wire, runner>> /\ UNCHANGED controller

CodexItem ==
  /\ InTurn("codex") /\ ~turn.ended /\ ~turn.item /\ ~turn.halt
  /\ turn' = [turn EXCEPT !.item = TRUE]
  /\ UNCHANGED <<dock, wire, runner, sup, paid>> /\ UNCHANGED controller

CodexItemDone ==
  /\ InTurn("codex") /\ turn.item
  /\ \E t \in {turn, Edits(turn)} :
       /\ turn' = [t EXCEPT !.item = FALSE, !.pending = @ /\ t.budget,
                            !.halt = @ \/ (t.pending /\ ~t.budget)]
       /\ Schedule(IF t.pending \/ t.budget THEN {}
                   ELSE {"TOOL_FAILURE"} \union IF t.edited THEN {} ELSE {"NO_PROGRESS"})
  /\ UNCHANGED <<dock, wire, runner, paid>> /\ UNCHANGED controller

(* The model's turn ends by itself or because it was interrupted; the       *)
(* notification is read later.                                              *)
CodexEnds ==
  /\ InTurn("codex") /\ ~turn.ended /\ (turn.halt \/ ~turn.item)
  /\ turn' = [turn EXCEPT !.ended = TRUE, !.item = FALSE]
  /\ UNCHANGED <<dock, wire, runner, sup, paid>> /\ UNCHANGED controller

CodexSeesEnd ==
  /\ InTurn("codex") /\ turn.ended
  /\ turn' = [turn EXCEPT !.seen = TRUE]
  /\ UNCHANGED <<dock, wire, runner, sup, paid>> /\ UNCHANGED controller

(* The receipt waits for the supervision task.                              *)
CodexReceipt ==
  /\ runner = "turn" /\ turn.kind = "codex" /\ turn.seen /\ sup.task = "none"
  /\ Completes(turn)
  /\ UNCHANGED <<sup, paid>> /\ UNCHANGED controller

-----------------------------------------------------------------------------
(* Claude: the SDK runs the tools, hooks tell the governor of them.         *)
ClaudeMessage ==
  /\ InTurn("claude") /\ ~turn.halt /\ turn.cycles < MaxCycles
  /\ paid' = paid + 1
  /\ \E reason \in Reasons(turn) :
       LET t == Observed(turn, reason) IN turn' = [t EXCEPT !.halt = t.stop # "none"]
  /\ UNCHANGED <<dock, wire, runner, sup>> /\ UNCHANGED controller

PostTool ==
  /\ InTurn("claude") /\ ~turn.edited /\ turn' = Edits(turn)
  /\ UNCHANGED <<dock, wire, runner, sup, paid>> /\ UNCHANGED controller

ClaudeReceipt ==
  /\ InTurn("claude")
  /\ Completes([turn EXCEPT !.ended = TRUE, !.seen = TRUE])
  /\ UNCHANGED <<sup, paid>> /\ UNCHANGED controller

-----------------------------------------------------------------------------
(* Responses: requests one by one, each affordable before it is sent; an    *)
(* answer without calls ends the turn before a stop is looked at.           *)
ResponsesRequest ==
  /\ InTurn("responses") /\ ~turn.item /\ sup.task = "none"
  /\ turn.cycles < MaxCycles
  /\ paid' = paid + 1
  /\ \E reason \in Reasons(turn) : turn' = [Observed(turn, reason) EXCEPT !.item = TRUE]
  /\ UNCHANGED <<dock, wire, runner, sup>> /\ UNCHANGED controller

(* The calls of the answer are executed, then supervision may be asked.     *)
ResponsesTools ==
  /\ InTurn("responses") /\ turn.item
  /\ \E t \in {turn, Edits(turn)} :
       IF t.stop # "none"
       THEN Completes([t EXCEPT !.item = FALSE]) /\ UNCHANGED sup
       ELSE /\ turn' = [t EXCEPT !.item = FALSE]
            /\ UNCHANGED <<dock, runner>>
            /\ \/ UNCHANGED <<wire, sup>>
               \/ \E k \in {"TOOL_FAILURE", "NO_PROGRESS"} : MayAsk(k) /\ Asks(k)
  /\ UNCHANGED paid /\ UNCHANGED controller

ResponsesDecides ==
  /\ InTurn("responses") /\ sup.task = "asked" /\ sup' = [sup EXCEPT !.task = "none"]
  /\ \E a \in Reply :
       IF a = "STOP" THEN Completes([turn EXCEPT !.stop = "SUPERVISOR_STOP"])
       ELSE UNCHANGED <<dock, wire, runner, turn>>
  /\ UNCHANGED paid /\ UNCHANGED controller

(* The end of the turn: a result, a limit, or a request that was lost.      *)
ResponsesReceipt ==
  /\ InTurn("responses") /\ sup.task = "none"
  /\ Completes([turn EXCEPT !.ended = TRUE, !.item = FALSE])
  /\ UNCHANGED <<sup, paid>> /\ UNCHANGED controller

NativeNext ==
  \/ Launch \/ StartBox \/ Started \/ PersistId \/ Authorize \/ TurnEnds
  \/ LookUp \/ StopBox \/ DeleteBox \/ NothingToClose
  \/ Hear \/ Answer
  \/ Connects \/ Fails \/ Authorised \/ Supervise \/ Decide
  \/ CodexInference \/ CodexItem \/ CodexItemDone \/ CodexEnds \/ CodexSeesEnd \/ CodexReceipt
  \/ ClaudeMessage \/ PostTool \/ ClaudeReceipt
  \/ ResponsesRequest \/ ResponsesTools \/ ResponsesDecides \/ ResponsesReceipt

NativeSpec == NativeInit /\ [][NativeNext]_nativeVars

-----------------------------------------------------------------------------
(* "The controller commits the native ID before authorizing any paid turn": *)
(* no inference is charged to a thread that no row names.                   *)
PaidAfterPersisted == paid > 0 => recorded

(* After close() no container of the turn is left, whatever answer of       *)
(* Docker was lost, unless Docker refused to look it up or delete it.       *)
ClosedLeavesNothing == host = "closed" /\ ~dock.failed => dock.box = "none"
=============================================================================
