-------------------------- MODULE MCNotifications --------------------------
(* An instance of Notifications for TLC: one overspent budget *)
EXTENDS Notifications, TLC

CONSTANTS r1, m1

OneId == (r1 :> m1)

Sym == Permutations(Notes)

=============================================================================
