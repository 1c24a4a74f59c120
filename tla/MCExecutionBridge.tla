-------------------------- MODULE MCExecutionBridge --------------------------
(* Instances of ExecutionBridge for TLC. *)
EXTENDS ExecutionBridge, TLC

CONSTANTS k1, k2, k3, h1, h2

Symmetry == Permutations(Call)
=============================================================================
