------------------------------ MODULE SendOnce ------------------------------
(***************************************************************************)
(* What the campaign delivery pipeline promises about one campaign, seen   *)
(* from outside: every (lead, step) of the sequence is mailed at most      *)
(* once, and its record in campaign_emails is settled only after the mail  *)
(* went out and stays settled.  Delivery.tla is shown to implement it.     *)
(***************************************************************************)
EXTENDS Naturals

CONSTANT Items          \* the (lead, step) pairs of the campaign

VARIABLES
    mail,               \* how often the message of each item has left
    settled             \* items whose record says that it was sent

vars == <<mail, settled>>

Init == mail = [i \in Items |-> 0] /\ settled = {}

\* The message of item i leaves, for the first and only time.
Mail(i) ==
    /\ mail[i] = 0
    /\ mail' = [mail EXCEPT ![i] = 1]
    /\ UNCHANGED settled

\* The record of item i becomes final.
Settle(i) ==
    /\ mail[i] = 1
    /\ settled' = settled \cup {i}
    /\ UNCHANGED mail

Next == \E i \in Items : Mail(i) \/ Settle(i)

Spec == Init /\ [][Next]_vars

\* A message that left is eventually on record.
Fairness == \A i \in Items : WF_vars(Settle(i))
=============================================================================
