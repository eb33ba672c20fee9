------------------------------ MODULE Attention ------------------------------
(***************************************************************************)
(* The notices of the assistant (SqlObserverStore.synchronize(), detect()):  *)
(* several controllers sample the same machine and write the same event,    *)
(* each with the time of its own sample.  One event, of a kind that must    *)
(* hold for a while (pressure of the host) or of one that need not (a       *)
(* recorded incident); time is counted in the minutes between two samples.  *)
(***************************************************************************)
EXTENDS Naturals

CONSTANTS
  Detectors,  (* controllers whose detector runs                            *)
  Hold,       (* hold_seconds of a pressure, in minutes                     *)
  Gap,        (* the longest time between two samples of one hold           *)
  MaxTime     (* bound: minutes                                             *)

ASSUME AttentionAssumption ==
  /\ Hold \in Nat /\ Gap \in Nat \ {0} /\ MaxTime \in Nat

VARIABLES
  clock,
  kind,   (* whether the condition must hold                                *)
  host,   (* the condition: its severity, since when it is away, since when *)
          (* it was never away for longer than Gap                          *)
  sample, (* the snapshot each detector has taken and not yet written       *)
  event   (* the observer_events row; notified_at, which only decides       *)
          (* whether a page pops up, is left out                            *)

attentionVars == <<clock, kind, host, sample, event>>

(* INFO is treated as WARNING is.                                           *)
Severity == {"WARNING", "CRITICAL"}
Absent   == "ABSENT"
Time     == 0..MaxTime
NoSample == [what |-> "none", at |-> 0]
NoEvent  == [status |-> "NONE", severity |-> "WARNING", detected |-> 0, seen |-> 0]

AttentionInit ==
  /\ clock = 0
  /\ kind \in {"PRESSURE", "INCIDENT"}
  /\ host = [level |-> Absent, away |-> 0, steady |-> 0]
  /\ sample = [d \in Detectors |-> NoSample]
  /\ event = NoEvent

HoldOf == IF kind = "PRESSURE" THEN Hold ELSE 0

(* The condition comes, goes and changes its severity.                      *)
Levels == {Absent} \cup (IF kind = "PRESSURE" THEN {"WARNING"} ELSE Severity)
Changes(l) ==
  /\ l \in Levels \ {host.level}
  /\ host' = [level  |-> l,
              away   |-> IF l = Absent THEN clock ELSE host.away,
              steady |-> IF host.level = Absent /\ clock - host.away > Gap THEN clock
                         ELSE host.steady]
  /\ UNCHANGED <<clock, kind, sample, event>>

(* detect_attention() takes its snapshot.                                   *)
Snapshot(d) ==
  /\ sample[d] = NoSample
  /\ sample' = [sample EXCEPT ![d] = [what |-> host.level, at |-> clock]]
  /\ UNCHANGED <<clock, kind, host, event>>

(* Mutant: the window goes on through a gap.                                *)
SeenThroughGaps(row, at) ==
  IF row.status \in {"NONE", "RESOLVED"}
  THEN [row EXCEPT !.status = "PENDING", !.detected = at, !.seen = at]
  ELSE [row EXCEPT !.seen = at]

(* What an observation does to the row before it is decided whether to open *)
(* it: a new row, a window that begins again, one that was resolved.        *)
Seen(row, at) ==
  LET late == row.status = "PENDING" /\ at > row.seen + Gap
  IN IF row.status \in {"NONE", "RESOLVED"}
     THEN [row EXCEPT !.status = "PENDING", !.detected = at, !.seen = at]
     ELSE [row EXCEPT !.seen = at, !.detected = IF late THEN at ELSE @]

Escalates(row, l) == row.status # "NONE" /\ row.severity # "CRITICAL" /\ l = "CRITICAL"

Ripe(row, at) == row.status = "PENDING" /\ at >= row.detected + HoldOf

(* The condition was present; whether a snooze is over is left open.        *)
Observe(l, at) ==
  LET row == [Seen(event, at) EXCEPT !.severity = l]
  IN \/ event' = [row EXCEPT !.status =
                    IF Escalates(event, l) \/ Ripe(row, at) THEN "OPEN" ELSE @]
     \/ row.status = "SNOOZED" /\ event' = [row EXCEPT !.status = "OPEN"]

(* It was not.                                                              *)
Resolve ==
  event' = IF event.status = "NONE" THEN event ELSE [event EXCEPT !.status = "RESOLVED"]

(* synchronize(): one transaction under an advisory lock.                   *)
Synchronize(d) ==
  /\ sample[d] # NoSample
  /\ IF sample[d].what \in Severity THEN Observe(sample[d].what, sample[d].at) ELSE Resolve
  /\ sample' = [sample EXCEPT ![d] = NoSample]
  /\ UNCHANGED <<clock, kind, host>>

(* The lock is taken, the 18 seconds have passed, the controller stops, or  *)
(* the event's source did not answer: its absence then proves nothing.      *)
Skip(d) ==
  /\ sample[d] # NoSample
  /\ sample' = [sample EXCEPT ![d] = NoSample]
  /\ UNCHANGED <<clock, kind, host, event>>

(* event_action()                                                           *)
Acknowledge ==
  /\ event.status \in {"OPEN", "ACKNOWLEDGED", "SNOOZED"}
  /\ event' = [event EXCEPT !.status = "ACKNOWLEDGED"]
  /\ UNCHANGED <<clock, kind, host, sample>>

Snooze ==
  /\ event.status \in {"OPEN", "ACKNOWLEDGED", "SNOOZED"}
  /\ event' = [event EXCEPT !.status = "SNOOZED"]
  /\ UNCHANGED <<clock, kind, host, sample>>

(* A sample is written within 18 seconds or not at all.                     *)
Minute ==
  /\ clock < MaxTime
  /\ \A d \in Detectors : sample[d] # NoSample => sample[d].at = clock
  /\ clock' = clock + 1
  /\ UNCHANGED <<kind, host, sample, event>>

AttentionNext ==
  \/ \E l \in Severity \cup {Absent} : Changes(l)
  \/ \E d \in Detectors : Snapshot(d) \/ Synchronize(d) \/ Skip(d)
  \/ Acknowledge \/ Snooze \/ Minute

AttentionSpec == AttentionInit /\ [][AttentionNext]_attentionVars

-----------------------------------------------------------------------------
AttentionTypeOK ==
  /\ clock \in Time /\ kind \in {"PRESSURE", "INCIDENT"}
  /\ host \in [level : Levels, away : Time, steady : Time]
  /\ sample \in [Detectors -> [what : Levels \cup {"none"}, at : Time]]
  /\ event \in [status : {"NONE", "PENDING", "OPEN", "ACKNOWLEDGED", "SNOOZED", "RESOLVED"},
                severity : Severity, detected : Time, seen : Time]

(* However the samples of several controllers are late, lost or overtake    *)
(* each other, an event of a kind that must hold opens only when the        *)
(* condition has been there all the while, never away for longer than the   *)
(* gap that breaks its window.                                              *)
AttentionIsSustained ==
  [][(event.status = "PENDING" /\ event'.status = "OPEN") =>
       event'.seen >= host.steady + HoldOf]_attentionVars
=============================================================================
