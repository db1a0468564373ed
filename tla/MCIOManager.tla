---------------------------- MODULE MCIOManager ----------------------------
(* Small instances of IOManager for TLC.                                   *)
EXTENDS IOManager

Symmetry == Permutations(Workers)
=============================================================================
