-------------------------- MODULE MCNotifications --------------------------
(* Instances of Notifications for TLC.                                     *)
EXTENDS Notifications, TLC
CONSTANTS p1, p2
ProcessSymmetry == Permutations({p1, p2})
=============================================================================
