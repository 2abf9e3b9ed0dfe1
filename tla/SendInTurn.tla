----------------------------- MODULE SendInTurn -----------------------------
(***************************************************************************)
(* What the processors of a campaign promise about its leads, seen from    *)
(* outside: each lead is mailed the steps of the sequence one after the    *)
(* other, each at most once and only when every earlier one is on record   *)
(* as sent, and its currentStep moves forward over steps that were mailed. *)
(* Sequence.tla is shown to implement it.                                  *)
(***************************************************************************)
EXTENDS Naturals

CONSTANTS
    Leads,              \* leads of the campaign
    Steps               \* message indexes of the sequence

VARIABLES
    mail,               \* how often each lead was mailed each step
    settled,            \* <<lead, step>> whose record says that it was sent
    cursor              \* campaign_leads.currentStep

vars == <<mail, settled, cursor>>

Init ==
    /\ mail = [i \in Leads \X Steps |-> 0]
    /\ settled = {}
    /\ cursor = [l \in Leads |-> 0]

\* The message of a step leaves, for the first and only time.
Mail(l, s) ==
    /\ mail[<<l, s>>] = 0
    /\ \A r \in 0 .. s - 1 : <<l, r>> \in settled
    /\ mail' = [mail EXCEPT ![<<l, s>>] = 1]
    /\ UNCHANGED <<settled, cursor>>

\* The record of a step becomes final, ...
Settle(l, s) ==
    /\ mail[<<l, s>>] = 1
    /\ settled' = settled \cup {<<l, s>>}
    /\ UNCHANGED <<mail, cursor>>

\* ... and with it, in one transaction, the lead moves on.
Advance(l, s) ==
    /\ mail[<<l, s>>] = 1 /\ cursor[l] <= s
    /\ settled' = settled \cup {<<l, s>>}
    /\ cursor' = [cursor EXCEPT ![l] = s + 1]
    /\ UNCHANGED mail

Next == \E l \in Leads, s \in Steps : Mail(l, s) \/ Settle(l, s) \/ Advance(l, s)

Spec == Init /\ [][Next]_vars
=============================================================================
