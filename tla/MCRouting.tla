----------------------------- MODULE MCRouting ------------------------------
(* Instances of Routing for TLC.                                            *)
EXTENDS Routing

CONSTANTS email, boxA, boxB, boxElsewhere, w1

=============================================================================
