----------------------------- MODULE MCOpsState -----------------------------
(* Instances of OpsState for TLC. *)
EXTENDS OpsState, TLC

CONSTANTS k1, k2, s1, s2, r1

\* Savers are alike, and so are keys.
Alike == Permutations({s1, s2}) \cup Permutations({k1, k2})
=============================================================================
