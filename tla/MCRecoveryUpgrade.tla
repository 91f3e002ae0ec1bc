-------------------------- MODULE MCRecoveryUpgrade --------------------------
(* Failures and signals at any step, for every kind of image. *)
EXTENDS RecoveryUpgrade
=============================================================================
