-------------------------- MODULE MC_TelemetryFeed --------------------------
(* TelemetryFeed for TLC; the constants are given in the .cfg files.       *)
EXTENDS TelemetryFeed
=============================================================================
