----------------------------- MODULE MCOuterDuty -----------------------------
(* Values for TLC of the outer duty lock.                                  *)
EXTENDS OuterDuty

CONSTANTS w1, w2, c1, c2

TwoOuters == {w1, w2}
TwoChecks == {c1, c2}
=============================================================================
