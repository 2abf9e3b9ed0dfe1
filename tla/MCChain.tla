------------------------------ MODULE MCChain -------------------------------
(* Instances of Chain for TLC.                                              *)
EXTENDS Chain, TLC

CONSTANTS box1, h1, h2

Symmetry == Permutations({h1, h2})
=============================================================================
