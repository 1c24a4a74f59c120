---------------------------- MODULE MCControlPlane ----------------------------
(* Instances of ControlPlane for TLC. *)
EXTENDS ControlPlane, TLC

CONSTANTS o1, o2, c

\* What two earlier processes left behind: one that knew the flag only and
\* never changed mode, and one that leaked a pause.
SomeRows ==
    {[halt |-> "legacy", mode |-> "none", run |-> "running"],
     [halt |-> "stale", mode |-> "CANARY", run |-> "stopped"]}
=============================================================================
