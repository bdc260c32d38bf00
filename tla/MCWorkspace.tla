----------------------------- MODULE MCWorkspace ----------------------------
(***************************************************************************)
(* Workspace for TLC.                                                      *)
(***************************************************************************)
EXTENDS Workspace, TLC

CONSTANTS a1, a2, a3, u1, u2, blank, x

Symmetry == Permutations({u1, u2})
EditSymmetry == Permutations({a1, a2, a3})
=============================================================================
