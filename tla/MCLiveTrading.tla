----------------------------- MODULE MCLiveTrading -----------------------------
(* Instances of LiveTrading for TLC. *)
EXTENDS LiveTrading, TLC

CONSTANTS a1, a2, c1, c2

AnyRow == {r \in Row : r.latched => r.state = "DISABLED"}
=============================================================================
