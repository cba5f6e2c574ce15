--------------------------- MODULE MCEnforcement ---------------------------
(* TLC instance of Enforcement: command goroutines and the reconcile one. *)
EXTENDS Enforcement, TLC

CONSTANTS cmd1, reconcile

MCHandlers == {cmd1, reconcile}
============================================================================
