----------------------------- MODULE MC_E2ETest -----------------------------
(* E2ETest for TLC: the test is the daemon's only caller.                  *)
EXTENDS E2ETest

CONSTANTS p1

MCCallers == {p1}
=============================================================================
