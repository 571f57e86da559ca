--------------------------- MODULE MC_EventStreams ---------------------------
(* Small instances of EventStreams for TLC: one object of each class.      *)
EXTENDS EventStreams

CONSTANTS p1, d1

MCParamSubs == {p1}

MCDeviceSubs == {d1}
=============================================================================
