--------------------------- MODULE MCDevelopment ---------------------------
(* The layers of a Developer's work share no state and are checked in one   *)
(* run, with the processes of the assistant that share none with them: each *)
(* behaviour is one of the native turn's protocol, of the adaptive patch's  *)
(* purchases, of the session that both report to, or of the assistant.      *)
EXTENDS Sessions, PatchTurn, NativeTurn, Observer

CONSTANTS a1, a2, q1

VARIABLE layer

vars == <<layer, sessionVars, patchVars, nativeVars, observerVars>>

Init ==
  /\ SessionsInit /\ PatchInit /\ NativeInit /\ ObserverInit
  /\ layer \in {"session", "patch", "native", "assistant"}
  /\ layer # "native" => ~recorded
  /\ layer # "assistant" => preference = "local"

SessionLayer == layer = "session" /\ SessionsNext /\ UNCHANGED <<patchVars, nativeVars, observerVars>>
PatchLayer == layer = "patch" /\ PatchNext /\ UNCHANGED <<sessionVars, nativeVars, observerVars>>
NativeLayer == layer = "native" /\ NativeNext /\ UNCHANGED <<sessionVars, patchVars, observerVars>>
AssistantLayer ==
  layer = "assistant" /\ ObserverNext /\ UNCHANGED <<sessionVars, patchVars, nativeVars>>

Next ==
  /\ SessionLayer \/ PatchLayer \/ NativeLayer \/ AssistantLayer
  /\ UNCHANGED layer

Spec == Init /\ [][Next]_vars
=============================================================================
