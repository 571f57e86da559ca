------------------------- MODULE MC_NotebookWidgets -------------------------
(* NotebookWidgets for TLC: a dashboard of a motor, a detector and one    *)
(* other device.                                                           *)
EXTENDS NotebookWidgets

MCDevKinds == <<"motor", "detector", "other">>
=============================================================================
