------------------------ MODULE MCPositionManagement ------------------------
(* Instances of PositionManagement for TLC. *)
EXTENDS PositionManagement

CONSTANTS loop, hand
=============================================================================
