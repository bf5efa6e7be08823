----------------------------- MODULE MCDesktop -----------------------------
(***************************************************************************)
(* An instance of Desktop for TLC.                                         *)
(***************************************************************************)
EXTENDS Desktop, TLC

Symmetry == Permutations(Window)

=============================================================================
