------------------------------ MODULE MCReplies ------------------------------
(* What reaches an operator, for TLC: the replies sent to a provider's      *)
(* conversation, the answers of the assistant and its notices.  They share  *)
(* no state and are checked in one run: each behaviour is one of them.      *)
EXTENDS Replies, Observer, Attention, TLC

CONSTANTS w1, w2, same, other

VARIABLE layer
operatorVars == <<layer, vars, observerVars, attentionVars>>

OperatorInit ==
  /\ layer \in {"replies", "assistant", "notices"}
  /\ Init /\ ObserverInit /\ AttentionInit
  /\ layer # "assistant" => preference = "off"
  /\ layer # "notices" => kind = "PRESSURE"

ReplyLayer     == layer = "replies" /\ Next /\ UNCHANGED <<layer, observerVars, attentionVars>>
AssistantLayer == layer = "assistant" /\ ObserverNext /\ UNCHANGED <<layer, vars, attentionVars>>
NoticesLayer   == layer = "notices" /\ AttentionNext /\ UNCHANGED <<layer, vars, observerVars>>

OperatorNext == ReplyLayer \/ AssistantLayer \/ NoticesLayer

(* A component that is not the layer is where nothing fairness asks for is  *)
(* enabled.                                                                 *)
OperatorSpec ==
  OperatorInit /\ [][OperatorNext]_operatorVars /\ ReplyFairness /\ ObserverFairness
=============================================================================
