--------------------------- MODULE MCPhcHandshake ---------------------------
(* Instances of PhcHandshake for TLC. *)
EXTENDS PhcHandshake, TLC

Symmetry == Permutations(Readers)
=============================================================================
