----------------------------- MODULE MCSequence -----------------------------
(* Sequence on a small instance.                                           *)
EXTENDS Sequence, TLC

CONSTANTS w1, w2, lead1, lead2

Symmetry == Permutations(Workers)

=============================================================================
