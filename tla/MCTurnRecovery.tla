--------------------------- MODULE MCTurnRecovery ---------------------------
(* Instances of TurnRecovery for TLC: every constant is given by the cfg.  *)
EXTENDS TurnRecovery
=============================================================================
