------------------------- MODULE MCOrchestrationLock -------------------------
(* Instances of OrchestrationLock for TLC. *)
EXTENDS OrchestrationLock, TLC

(* Masters that start no children are interchangeable. *)
Symmetry == Permutations(Masters \ Parents)
=============================================================================
