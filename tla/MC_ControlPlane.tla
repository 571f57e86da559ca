--------------------------- MODULE MC_ControlPlane ---------------------------
(* Two callers sharing one daemon. *)
EXTENDS ControlPlane, TLC

CONSTANTS a1, a2

MCCallers == {a1, a2}
\* The callers run the same code, so any permutation of them is a symmetry.
MCCallerSymmetry == Permutations(MCCallers)
=============================================================================
