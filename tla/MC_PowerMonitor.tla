-------------------------- MODULE MC_PowerMonitor --------------------------
(* PowerMonitor for TLC: two distinct readings.                            *)
EXTENDS PowerMonitor

CONSTANTS q1, q2

MCPowers == {q1, q2}
=============================================================================
