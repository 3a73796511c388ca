---------------------------- MODULE MCOrchestrator ----------------------------
(* Small instances of Orchestrator for TLC.  Workers are interchangeable;  *)
(* symmetry is used only where no liveness is checked.                     *)
EXTENDS OrchestratorProps, TLC

Symmetry == Permutations(Workers)
=============================================================================
