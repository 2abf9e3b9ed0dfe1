---------------------------- MODULE MCImapLease -----------------------------
(* ImapLease on a small instance.                                          *)
EXTENDS ImapLease, TLC

CONSTANTS w1, w2, s1, s2, box1, box2

Symmetry == Permutations(Workers) \cup Permutations(Slots)

=============================================================================
