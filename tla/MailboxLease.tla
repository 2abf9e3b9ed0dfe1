---------------------------- MODULE MailboxLease ----------------------------
(***************************************************************************)
(* What the replicas' claims promise about a mailbox, seen from outside:   *)
(* the replica that holds the claim opens the mailbox, once, and keeps the *)
(* claim for as long as the connection is open; nobody else is given the   *)
(* claim or a connection meanwhile.  A mailbox that a disturbance has hit  *)
(* is promised nothing any more.  ImapLease.tla is shown to implement it.  *)
(***************************************************************************)
CONSTANTS
    Workers,            \* replicas
    Slots,              \* connections a replica may have in progress
    Mailboxes,          \* mailboxes they share
    NoOne               \* the holder of a claim nobody holds

VARIABLES
    holder,             \* the replica that holds the claim of a mailbox
    open,               \* the connections open to a mailbox
    hit                 \* mailboxes a disturbance has hit

vars == <<holder, open, hit>>

Init ==
    /\ holder = [m \in Mailboxes |-> NoOne]
    /\ open = [m \in Mailboxes |-> {}]
    /\ hit = {}

\* A free claim is given to a replica, ...
Grant(m) ==
    /\ holder[m] = NoOne /\ open[m] = {}
    /\ holder'[m] \in Workers /\ open'[m] = {}

\* ... which then opens the mailbox.
Open(m) ==
    /\ open[m] = {}
    /\ holder'[m] = holder[m]
    /\ \E s \in Slots : open'[m] = {<<holder[m], s>>}

\* The connection closes, with or without the claim, ...
Close(m) ==
    /\ open[m] # {} /\ open'[m] = {}
    /\ holder'[m] \in {holder[m], NoOne}

\* ... which may be given up or taken away only once it has.
Lapse(m) ==
    /\ open[m] = {} /\ open'[m] = {}
    /\ holder'[m] = NoOne

Rest(m) == holder'[m] = holder[m] /\ open'[m] = open[m]

\* Mailboxes are independent; one step may be a step of several.
Next ==
    /\ hit \subseteq hit'
    /\ \A m \in Mailboxes \ hit' :
           Grant(m) \/ Open(m) \/ Close(m) \/ Lapse(m) \/ Rest(m)

Spec == Init /\ [][Next]_vars

=============================================================================
