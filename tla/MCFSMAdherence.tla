---------------------------- MODULE MCFSMAdherence ----------------------------
(* The evaluator beside the controller, on the controller's own instance.     *)
EXTENDS FSMAdherence, MCCallController

MCSpec == AdherenceSpec /\ ControllerFairness

=============================================================================
