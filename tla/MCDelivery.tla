----------------------------- MODULE MCDelivery -----------------------------
(* Delivery on a small instance, and mutants of its definitions.           *)
EXTENDS Delivery, TLC

CONSTANTS w1, w2, w3, lead1, lead2

\* Workers are interchangeable and no safety property names one.
Symmetry == Permutations(Workers)
=============================================================================
