-------------------------- MODULE MCRecoveryHelper --------------------------
(* An instance of RecoveryHelper for TLC. *)
EXTENDS RecoveryHelper
=============================================================================
