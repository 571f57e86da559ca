---------------------------- MODULE MC_LiveScan ----------------------------
(* LiveScan for TLC: two distinct readings.                                *)
EXTENDS LiveScan

CONSTANTS r1, r2

MCReadings == {r1, r2}
=============================================================================
