----------------------------- MODULE RowCustody -----------------------------
(***************************************************************************)
(* What routing and the mailboxes' batches promise about the rows of       *)
(* campaign_leads, seen from outside: a row is in the hands of one mailbox *)
(* at a time, which is the one it is assigned to; in nobody's hands it may *)
(* be assigned anew, or withdrawn; and one that is withdrawn, or given up  *)
(* by who has it, does not come back.  A row written over the head of a    *)
(* mailbox - by a router, a redistribution, an abort, a reply - is         *)
(* promised nothing until the mailboxes are done with it.  Routing.tla is  *)
(* shown to implement it.                                                  *)
(***************************************************************************)
CONSTANTS
    Rows,               \* campaign_leads of the campaign
    Boxes,              \* the user's mailboxes
    Senders,            \* those that send for the campaign
    NoBox               \* the mailbox of a row that has none

VARIABLES
    box,                \* the mailbox a row is assigned to
    hand,               \* the mailboxes that are at work on it
    over,               \* rows given up or withdrawn
    written             \* rows that were written over a mailbox's head

vars == <<box, hand, over, written>>

Init ==
    /\ box = [r \in Rows |-> NoBox]
    /\ hand = [r \in Rows |-> {}]
    /\ over = {} /\ written = {}

\* A row that nobody has in hand is assigned, reassigned, or put into the pool.
Assign(r) ==
    /\ hand[r] = {} /\ r \notin over
    /\ box'[r] \in Boxes \cup {NoBox}
    /\ hand'[r] = {} /\ r \notin over'

\* A mailbox takes one of its rows, or one of the pool, ...
TakeUp(r) ==
    /\ hand[r] = {} /\ r \notin over
    /\ \E b \in Senders :
          box[r] \in {b, NoBox} /\ box'[r] = b /\ hand'[r] = {b}
    /\ r \notin over'

\* ... and keeps it for later, puts it back into the pool, ...
PutBack(r) ==
    /\ hand[r] # {} /\ hand'[r] = {}
    /\ box'[r] \in {box[r], NoBox} /\ r \notin over'

\* ... or is through with it.
GiveUp(r) ==
    /\ hand[r] # {} /\ hand'[r] = {}
    /\ box'[r] = box[r] /\ r \in over'

\* A row that nobody has in hand is aborted, or its lead has answered.
Withdraw(r) ==
    /\ hand[r] = {} /\ r \notin over
    /\ hand'[r] = {} /\ box'[r] = box[r] /\ r \in over'

Rest(r) ==
    box'[r] = box[r] /\ hand'[r] = hand[r] /\ (r \in over' <=> r \in over)

\* Rows are independent; one step may be a step of several.
Next ==
    \A r \in Rows \ (written \cup written') :
        Assign(r) \/ TakeUp(r) \/ PutBack(r) \/ GiveUp(r) \/ Withdraw(r) \/ Rest(r)

Spec == Init /\ [][Next]_vars

=============================================================================
