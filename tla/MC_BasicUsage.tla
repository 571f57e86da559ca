---------------------------- MODULE MC_BasicUsage ----------------------------
EXTENDS BasicUsage, TLC

CONSTANTS p1

MCCallers == {p1}
=============================================================================
