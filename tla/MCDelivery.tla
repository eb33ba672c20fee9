------------------------------ MODULE MCDelivery ------------------------------
(* Small instances of Delivery for TLC.                                    *)
EXTENDS Delivery, TLC

CONSTANTS w1, w2
=============================================================================
