------------------------------- MODULE Routing -------------------------------
(***************************************************************************)
(* How the leads of a new campaign get a mailbox:                          *)
(*   - the create route of services/api-gateway/src/routes/outreach.ts     *)
(*     inserts the campaign_leads rows, held back by                       *)
(*     metadata.routingPending, and calls enqueueLeads;                    *)
(*   - shared/lib/queues/verification-routing-queue.ts verifies each       *)
(*     address and has it routed, in two BullMQ queues, and upgrades rows  *)
(*     when a mailbox connects;                                            *)
(*   - assignLeadsBatch and onNewMailboxConnected of routing-engine.ts     *)
(*     choose the mailbox and keep the sets of fallback leads;             *)
(*   - processSendBatch of campaign-queue.ts picks rows, its mailbox's and *)
(*     those of the pool, and claims them; redistributeOverflow there, the *)
(*     redistribution worker, the returns and reassignments of mailboxes   *)
(*     in trouble, the routes that stop a campaign, the pre-craft job, and *)
(*     whoever ends a lead's sequence write the same rows.                 *)
(*                                                                         *)
(* The processes share one row per lead, and few of them ask what has      *)
(* become of it before they write it.  What a batch does with a lead it    *)
(* has claimed is Sequence's subject.                                      *)
(***************************************************************************)
EXTENDS Naturals

CONSTANTS
    Rows,               \* campaign_leads of the campaign
    Routable,           \* those whose lead has channel 'email' and an address
    Boxes,              \* the user's mailboxes
    Senders,            \* those among config.mailboxIds: they get batches
    NoBox,              \* integrationId is null
    Workers,            \* runs of the two queues' processors at a time
    Attempts,           \* defaultJobOptions.attempts (3)
    MaxTroubles,        \* bound: crashes, errors, stalls, requests that die
    MaxMoves            \* bound: interventions of users and mailboxes, see Move

ASSUME RoutingConstants ==
    /\ Routable \subseteq Rows /\ Senders \subseteq Boxes /\ NoBox \notin Boxes
    /\ {"none", "waiting", "done", "failed"} \cap Workers = {}
    /\ Attempts \in Nat \ {0} /\ MaxTroubles \in Nat /\ MaxMoves \in Nat

Jobs == {"verify", "route"} \X Rows

VARIABLES
    row,                \* status, integrationId and routingPending of each row
    api,                \* how far enqueueLeads is with it
    job,                \* its jobs in BullMQ: none, waiting, done, failed, or the
                        \* worker that has it
    tries,              \* their attemptsMade
    run,                \* what each worker is doing, also one that lost its job
    lock,               \* rows with a routing lock in Redis
    fallback,           \* the sets of rows that might do better elsewhere
    active,             \* outreach_campaigns.status is 'active'
    aborting,           \* a request has aborted it and comes to the rows
    upgrade,            \* the reassign job of each mailbox
    moving,             \* rows of a failed mailbox the redistribution has selected
    overflow,           \* rows of the pool a mailbox without budget has selected
    craft,              \* rows the pre-craft job has read as held back
    batch,              \* the send batch of each mailbox, and its copy of a row
    troubles, moves,    \* (bounds) counts so far
    moved,              \* (history) rows written over the head of a mailbox
    lost                \* (history) rows a route job has left as they were, or an old
                        \* copy has held back again

queues  == <<api, job, tries, run, lock, fallback>>
writers == <<active, aborting, upgrade, moving, overflow, craft>>
history == <<moved, lost>>
vars == <<row, api, job, tries, run, lock, fallback, active, aborting, upgrade, moving,
          overflow, craft, batch, troubles, moves, moved, lost>>

\* 'over' is failed, aborted, replied or unsubscribed.
Statuses == {"queued", "pending", "over"}
Stages   == {"stamp", "handoff", "lock", "assign", "write", "unlock"}
NoRun    == [stage |-> "idle"]
Runs     == [job : Jobs, stage : Stages]
NoBatch  == [stage |-> "none"]
\* mine: the copy says 'pending' and this mailbox; held: it has routingPending.
Batches  == [row : Rows, mine : BOOLEAN, held : BOOLEAN, stage : {"picked", "claimed"}]

\* A row that is pending has a mailbox.
RowStates ==
    {x \in [status : Statuses, box : Boxes \cup {NoBox}, held : BOOLEAN] :
        x.status = "pending" => x.box # NoBox}

\* Rows, queues, locks and batches are well formed, and a job that has failed its
\* last attempt is a failed job.
RouteTypeOK ==
    /\ row \in [Rows -> RowStates]
    /\ api \in [Rows -> {"todo", "fast", "done", "dropped"}]
    /\ job \in [Jobs -> {"none", "waiting", "done", "failed"} \cup Workers]
    /\ tries \in [Jobs -> 0 .. Attempts]
    /\ \A j \in Jobs : job[j] # "failed" => tries[j] < Attempts
    /\ run \in [Workers -> Runs \cup {NoRun}]
    /\ lock \subseteq Rows /\ fallback \subseteq Rows
    /\ active \in BOOLEAN /\ aborting \in BOOLEAN
    /\ upgrade \in [Boxes -> [chosen : BOOLEAN, rows : SUBSET Rows]]
    /\ moving \in [Boxes -> SUBSET Rows]
    /\ overflow \in [Senders -> SUBSET Rows]
    /\ craft \subseteq Rows
    /\ batch \in [Senders -> Batches \cup {NoBatch}]
    /\ troubles \in 0 .. MaxTroubles /\ moves \in 0 .. MaxMoves
    /\ moved \subseteq Rows /\ lost \subseteq Rows

\* The rows as the create route inserts them; only the routable ones are passed to
\* enqueueLeads.  The campaign is started at once.
Init ==
    /\ row = [r \in Rows |-> [status |-> "queued", box |-> NoBox, held |-> TRUE]]
    /\ api = [r \in Rows |-> IF r \in Routable THEN "todo" ELSE "dropped"]
    /\ job = [j \in Jobs |-> "none"]
    /\ tries = [j \in Jobs |-> 0]
    /\ run = [w \in Workers |-> NoRun]
    /\ lock = {} /\ fallback = {}
    /\ active = TRUE /\ aborting = FALSE
    /\ upgrade = [b \in Boxes |-> [chosen |-> FALSE, rows |-> {}]]
    /\ moving = [b \in Boxes |-> {}]
    /\ overflow = [b \in Senders |-> {}]
    /\ craft = {}
    /\ batch = [b \in Senders |-> NoBatch]
    /\ troubles = 0 /\ moves = 0
    /\ moved = {} /\ lost = {}

-----------------------------------------------------------------------------
Trouble == troubles < MaxTroubles /\ troubles' = troubles + 1

\* A mailbox connects, fails, gives its leads away or is out of budget; a user stops
\* the campaign; a lead's sequence ends from outside; the pre-craft job runs.
Move == moves < MaxMoves /\ moves' = moves + 1

InHand(r)    == \E b \in Senders : batch[b].stage # "none" /\ batch[b].row = r
Unstarted(r) == row[r].status \in {"queued", "pending"}

\* Writing a row that a mailbox has in hand, or has been through with.
WriteOver(rs) ==
    moved' = moved \cup {r \in rs : InHand(r) \/ row[r].status = "over"}

\* Ending a row from outside, which nobody takes back but who has it in hand.
WriteEnd(rs) == moved' = moved \cup {r \in rs : InHand(r)}

LeaveRow(r) == lost' = IF row[r].held THEN lost \cup {r} ELSE lost

\* The metadata of an old copy are written back.
Restore(r, held) == lost' = IF held /\ ~ row[r].held THEN lost \cup {r} ELSE lost

\* Queue.add with a job id: ignored while BullMQ knows the id, and completed and
\* failed jobs are kept.
Add(j) ==
    /\ job' = [job EXCEPT ![j] = IF @ = "none" THEN "waiting" ELSE @]
    /\ UNCHANGED tries

TheRow(w)   == run[w].job[2]
At(w, s)    == run[w].stage = s
Enter(w, s) == run' = [run EXCEPT ![w].stage = s]
Leave(w)    == run' = [run EXCEPT ![w] = NoRun]

\* The processor returns; a worker that has lost its job changes nothing.
Completed(w) ==
    /\ job' = [job EXCEPT ![run[w].job] = IF @ = w THEN "done" ELSE @]
    /\ UNCHANGED tries

-----------------------------------------------------------------------------
(* enqueueLeads                                                             *)

\* One lead after the other: those verified in the last seven days are kept for
\* later, the others get a verification job.
Enqueue(r) ==
    /\ api[r] = "todo"
    /\ \/ api' = [api EXCEPT ![r] = "fast"] /\ UNCHANGED <<job, tries>>
       \/ api' = [api EXCEPT ![r] = "done"] /\ Add(<<"verify", r>>)
    /\ UNCHANGED <<row, run, lock, fallback, writers, batch, troubles, moves, history>>

EnqueueFast(r) ==
    /\ api[r] = "fast" /\ \A s \in Rows : api[s] # "todo"
    /\ api' = [api EXCEPT ![r] = "done"]
    /\ Add(<<"route", r>>)
    /\ UNCHANGED <<row, run, lock, fallback, writers, batch, troubles, moves, history>>

\* The request dies or an add throws: no one enqueues the rest.
RequestDies ==
    /\ \E r \in Rows : api[r] \in {"todo", "fast"}
    /\ Trouble
    /\ api' = [r \in Rows |-> IF api[r] = "done" THEN "done" ELSE "dropped"]
    /\ UNCHANGED <<row, job, tries, run, lock, fallback, writers, batch, moves, history>>

-----------------------------------------------------------------------------
(* The two processors                                                       *)

Take(w, j) ==
    /\ run[w] = NoRun /\ job[j] = "waiting"
    /\ job' = [job EXCEPT ![j] = w]
    /\ run' = [run EXCEPT ![w] =
                 [job |-> j, stage |-> IF j[1] = "verify" THEN "stamp" ELSE "lock"]]
    /\ UNCHANGED <<row, api, tries, lock, fallback, writers, batch, troubles, moves, history>>

\* processVerification stores its finding by replacing the metadata, and with it
\* routingPending: the row is in the pool before it is routed.
Stamp(w) ==
    /\ At(w, "stamp")
    /\ row' = [row EXCEPT ![TheRow(w)].held = FALSE]
    /\ Enter(w, "handoff")
    /\ UNCHANGED <<api, job, tries, lock, fallback, writers, batch, troubles, moves, history>>

Handoff(w) ==
    /\ At(w, "handoff")
    /\ LET route == <<"route", TheRow(w)>>  mine == run[w].job IN
       job' = [j \in Jobs |-> CASE j = route /\ job[j] = "none" -> "waiting"
                                [] j = mine /\ job[j] = w       -> "done"
                                [] OTHER                        -> job[j]]
    /\ Leave(w)
    /\ UNCHANGED <<row, api, tries, lock, fallback, writers, batch, troubles, moves, history>>

\* processRouting: SET NX.  A job that meets the lock is done.
Lock(w) ==
    /\ At(w, "lock")
    /\ LET r == TheRow(w) IN
       IF r \in lock
       THEN /\ Completed(w) /\ Leave(w)
            /\ LeaveRow(r)
            /\ UNCHANGED lock
       ELSE /\ lock' = lock \cup {r}
            /\ Enter(w, "assign")
            /\ UNCHANGED <<job, tries, lost>>
    /\ UNCHANGED <<row, api, fallback, writers, batch, troubles, moves, moved>>

\* assignLeadsBatch has a mailbox for the row, and remembers a poor match.
Assign(w) ==
    /\ At(w, "assign")
    /\ Enter(w, "write")
    /\ fallback' \in {fallback, fallback \cup {TheRow(w)}}
    /\ UNCHANGED <<row, api, job, tries, lock, writers, batch, troubles, moves, history>>

\* The address is invalid, or no mailbox has capacity: the row is left unassigned.
AssignNone(w) ==
    /\ At(w, "assign")
    /\ Enter(w, "unlock")
    /\ LeaveRow(TheRow(w))
    /\ UNCHANGED <<row, api, job, tries, lock, fallback, writers, batch, troubles, moves, moved>>

\* The assignment is written whatever has become of the row: a mailbox of the
\* campaign, or any if the campaign's configuration could not be read.
WriteRoute(w) ==
    /\ At(w, "write")
    /\ \E b \in Boxes :
          /\ row' = [row EXCEPT ![TheRow(w)] = [status |-> "pending", box |-> b, held |-> FALSE]]
          /\ IF b \in Senders THEN UNCHANGED troubles ELSE Trouble
    /\ WriteOver({TheRow(w)})
    /\ Enter(w, "unlock")
    /\ UNCHANGED <<api, job, tries, lock, fallback, writers, batch, moves, lost>>

\* finally: the lock is deleted, whoever set it.
Unlock(w) ==
    /\ At(w, "unlock")
    /\ lock' = lock \ {TheRow(w)}
    /\ Completed(w) /\ Leave(w)
    /\ UNCHANGED <<row, api, fallback, writers, batch, troubles, moves, history>>

\* Mutant of Throw: the processor catches its errors.
ThrowCaught(w) ==
    /\ run[w] # NoRun /\ Trouble
    /\ lock' \in IF At(w, "assign") \/ At(w, "write") THEN {lock, lock \ {TheRow(w)}}
                                                      ELSE {lock}
    /\ Completed(w) /\ Leave(w)
    /\ UNCHANGED <<row, api, fallback, writers, batch, moves, history>>

\* Redis or the database fails.  If Redis does, the finally may not get the lock
\* deleted either.
Throw(w) ==
    /\ run[w] # NoRun /\ Trouble
    /\ lock' \in IF At(w, "assign") \/ At(w, "write") THEN {lock, lock \ {TheRow(w)}}
                                                      ELSE {lock}
    /\ LET j == run[w].job IN
       IF job[j] # w THEN UNCHANGED <<job, tries>>
       ELSE /\ tries' = [tries EXCEPT ![j] = @ + 1]
            /\ job' = [job EXCEPT ![j] = IF tries[j] + 1 < Attempts THEN "waiting" ELSE "failed"]
    /\ Leave(w)
    /\ UNCHANGED <<row, api, fallback, writers, batch, moves, history>>

Crash(w) ==
    /\ run[w] # NoRun /\ Trouble
    /\ Leave(w)
    /\ UNCHANGED <<row, api, job, tries, lock, fallback, writers, batch, moves, history>>

\* The worker that has the job is still at it.
Running(j) == \E w \in Workers : job[j] = w /\ run[w] # NoRun /\ run[w].job = j

\* BullMQ hands a job out again.  By then the thirty seconds of a routing lock are
\* over.
HandAgain(j) ==
    /\ j[1] = "route" => j[2] \notin lock
    /\ job' = [job EXCEPT ![j] = "waiting"]
    /\ UNCHANGED <<row, api, tries, run, lock, fallback, writers, batch, moves, history>>

Recover(j) == job[j] \in Workers /\ ~ Running(j) /\ UNCHANGED troubles /\ HandAgain(j)

\* The worker is too slow to renew its claim, and goes on.
TakenForStalled(j) == Running(j) /\ Trouble /\ HandAgain(j)

LockExpires(r) ==
    /\ r \in lock
    /\ lock' = lock \ {r}
    /\ UNCHANGED <<row, api, job, tries, run, fallback, writers, batch, troubles, moves, history>>

-----------------------------------------------------------------------------
(* The other writers of the rows                                            *)

\* onNewMailboxConnected, for every campaign of the user, takes the sets and adds a
\* reassign job.
Connect(b) ==
    /\ fallback # {} /\ upgrade[b].rows = {} /\ \E r \in Rows : Unstarted(r)
    /\ Move
    /\ upgrade' = [upgrade EXCEPT ![b] = [chosen |-> FALSE, rows |-> fallback]]
    /\ fallback' = {}
    /\ UNCHANGED <<row, api, job, tries, run, lock, active, aborting, moving, overflow, craft,
                   batch, troubles, history>>

\* processNewMailboxConnect selects the rows that are still to be sent, ...
SelectUpgrades(b) ==
    /\ upgrade[b].rows # {} /\ ~ upgrade[b].chosen
    /\ upgrade' = [upgrade EXCEPT ![b] = [chosen |-> TRUE, rows |-> {r \in @.rows : Unstarted(r)}]]
    /\ UNCHANGED <<row, queues, active, aborting, moving, overflow, craft, batch, troubles,
                   moves, history>>

\* ... and writes one after the other, metadata and all.
WriteUpgrade(b, r) ==
    /\ upgrade[b].chosen /\ r \in upgrade[b].rows
    /\ upgrade' = [upgrade EXCEPT ![b].rows = @ \ {r}]
    /\ row' = [row EXCEPT ![r] = [status |-> "pending", box |-> b, held |-> FALSE]]
    /\ WriteOver({r})
    /\ UNCHANGED <<queues, active, aborting, moving, overflow, craft, batch, troubles,
                   moves, lost>>

\* returnLeadsToPool of mailbox-health-service.ts takes the rows that are pending, the
\* outreach engine those that are queued as well.
ReturnLeads(b) ==
    \E statuses \in {{"pending"}, {"pending", "queued"}} :
        LET rs == {r \in Rows : row[r].box = b /\ row[r].status \in statuses} IN
        /\ rs # {} /\ Move
        /\ row' = [r \in Rows |-> IF r \in rs
                                  THEN [row[r] EXCEPT !.status = "queued", !.box = NoBox]
                                  ELSE row[r]]
        /\ WriteOver(rs)
        /\ UNCHANGED <<queues, writers, batch, troubles, lost>>

\* reassignLeads there, for all of them, and the fleet auditor for some.
ReassignLeads(b, c) ==
    \E rs \in SUBSET {r \in Rows : row[r].box = b /\ row[r].status = "pending"} :
        /\ rs # {} /\ Move
        /\ row' = [r \in Rows |-> IF r \in rs THEN [row[r] EXCEPT !.box = c] ELSE row[r]]
        /\ WriteOver(rs)
        /\ UNCHANGED <<queues, writers, batch, troubles, lost>>

\* The redistribution worker selects the rows of a failed mailbox that are still to be
\* sent, ...
Redistribute(b) ==
    LET rs == {r \in Rows : row[r].box = b /\ Unstarted(r)} IN
    /\ moving[b] = {} /\ rs # {} /\ Move
    /\ moving' = [moving EXCEPT ![b] = rs]
    /\ UNCHANGED <<row, queues, active, aborting, upgrade, overflow, craft, batch, troubles,
                   history>>

\* ... and gives one after the other to another mailbox, whatever has become of them,
\* as long as there is one with capacity.
RedistributeWrite(b, r, c) ==
    /\ r \in moving[b] /\ c # b
    /\ row' = [row EXCEPT ![r].status = "pending", ![r].box = c]
    /\ WriteOver({r})
    /\ \E rest \in {moving[b] \ {r}, {}} : moving' = [moving EXCEPT ![b] = rest]
    /\ UNCHANGED <<queues, active, aborting, upgrade, overflow, craft, batch, troubles,
                   moves, lost>>

\* redistributeOverflow, in a batch whose budget is spent, reads rows of the pool, also
\* those that wait for routing, ...
OverflowRead(b) ==
    /\ batch[b] = NoBatch /\ overflow[b] = {} /\ Move
    /\ \E rs \in SUBSET {r \in Rows : row[r].box = NoBox /\ row[r].status = "queued"} :
          rs # {} /\ overflow' = [overflow EXCEPT ![b] = rs]
    /\ UNCHANGED <<row, queues, active, aborting, upgrade, moving, craft, batch, troubles,
                   history>>

\* ... and assigns them one after the other, for as long as the mailbox's limit
\* allows.  The pool's rows having no mailbox, it finds no other than its own.
OverflowWrite(b, r) ==
    /\ r \in overflow[b]
    /\ row' = [row EXCEPT ![r].box = b]
    /\ WriteOver({r})
    /\ \E rest \in {overflow[b] \ {r}, {}} : overflow' = [overflow EXCEPT ![b] = rest]
    /\ UNCHANGED <<queues, active, aborting, upgrade, moving, craft, batch, troubles,
                   moves, lost>>

\* The pause route and the automatic pauses; the resume route asks for no status.
Pause ==
    /\ active /\ Move
    /\ active' = FALSE
    /\ UNCHANGED <<row, queues, aborting, upgrade, moving, overflow, craft, batch, troubles,
                   history>>

Resume ==
    /\ ~ active
    /\ active' = TRUE
    /\ UNCHANGED <<row, queues, aborting, upgrade, moving, overflow, craft, batch, troubles,
                   moves, history>>

\* The abort route stops the campaign, ...
Abort ==
    /\ ~ aborting /\ Move
    /\ active' = FALSE /\ aborting' = TRUE
    /\ UNCHANGED <<row, queues, upgrade, moving, overflow, craft, batch, troubles, history>>

\* ... and then aborts the rows that are still to be sent, whoever has them in hand.
AbortRows ==
    LET rs == {r \in Rows : Unstarted(r)} IN
    /\ aborting
    /\ aborting' = FALSE
    /\ row' = [r \in Rows |-> IF r \in rs THEN [row[r] EXCEPT !.status = "over"] ELSE row[r]]
    /\ WriteEnd(rs)
    /\ UNCHANGED <<queues, active, upgrade, moving, overflow, craft, batch, troubles, moves,
                   lost>>

\* A reply, a bounce or an unsubscription ends the lead's sequence; some of them
\* replace the metadata.
Stop(r) ==
    /\ Unstarted(r) /\ Move
    /\ \E held \in {row[r].held, FALSE} :
          row' = [row EXCEPT ![r].status = "over", ![r].held = held]
    /\ WriteEnd({r})
    /\ UNCHANGED <<queues, writers, batch, troubles, lost>>

\* processPreCraft reads the rows that are queued, and has copies written; ...
CraftRead(r) ==
    /\ row[r].status = "queued" /\ row[r].held /\ Move
    /\ craft' = craft \cup {r}
    /\ UNCHANGED <<row, queues, active, aborting, upgrade, moving, overflow, batch, troubles,
                   history>>

\* ... then it puts its old metadata back, and with them routingPending.
CraftWrite(r) ==
    /\ r \in craft
    /\ craft' = craft \ {r}
    /\ row' = [row EXCEPT ![r].held = TRUE]
    /\ Restore(r, TRUE)
    /\ UNCHANGED <<queues, active, aborting, upgrade, moving, overflow, batch, troubles,
                   moves, moved>>

-----------------------------------------------------------------------------
(* processSendBatch                                                         *)

\* The batch query: the mailbox's own rows, and those in the pool that do not wait
\* for routing.
Pickable(b, r) ==
    \/ row[r].box = b /\ Unstarted(r)
    \/ row[r].box = NoBox /\ row[r].status = "queued" /\ ~ row[r].held

Pick(b, r) ==
    /\ batch[b] = NoBatch /\ overflow[b] = {} /\ Pickable(b, r)
    /\ batch' = [batch EXCEPT ![b] =
                   [row |-> r, mine |-> row[r].box = b /\ row[r].status = "pending",
                    held |-> row[r].held, stage |-> "picked"]]
    /\ UNCHANGED <<row, queues, writers, troubles, moves, history>>

\* Mutant of Claimable: whoever the row belongs to by now.
ClaimableByAnyone(b, r) == Unstarted(r)

\* The conditions of the claim's UPDATE.
Claimable(b, r) == row[r].box \in {NoBox, b} /\ Unstarted(r)

\* A copy that says 'pending' and this mailbox is taken without asking again.
Claim(b, r) ==
    /\ batch[b].stage = "picked" /\ batch[b].row = r
    /\ \/ batch[b].mine /\ UNCHANGED row
       \/ /\ ~ batch[b].mine /\ Claimable(b, r)
          /\ row' = [row EXCEPT ![r].box = b, ![r].status = "pending"]
    /\ batch' = [batch EXCEPT ![b].stage = "claimed"]
    /\ UNCHANGED <<queues, writers, troubles, moves, history>>

Done(b) ==
    /\ batch' = [batch EXCEPT ![b] = NoBatch]
    /\ LET r == batch[b].row IN
       moved' = IF \E c \in Senders \ {b} : batch[c].stage # "none" /\ batch[c].row = r
                THEN moved ELSE moved \ {r}
    /\ UNCHANGED <<queues, writers, troubles, moves>>

EndBatch(b) == Done(b) /\ UNCHANGED lost

\* The claim fails, the budget is spent, an auto-reply comes first, the worker dies.
Drop(b) ==
    /\ batch[b].stage # "none"
    /\ EndBatch(b)
    /\ UNCHANGED row

\* The lead is excluded or fails for good, which writes the copy's metadata back; no
\* email lead gets further.
GiveUp(b) ==
    LET r == batch[b].row IN
    /\ batch[b].stage = "claimed"
    /\ \E held \in {row[r].held, batch[b].held} :
          /\ row' = [row EXCEPT ![r].status = "over", ![r].held = held]
          /\ Restore(r, held)
    /\ Done(b)

\* The recipient's provider may not be mailed now.
ProviderLimit(b) ==
    /\ batch[b].stage = "claimed"
    /\ row' = [row EXCEPT ![batch[b].row].status = "queued"]
    /\ EndBatch(b)

\* Mutant of BackToPool: the status is left as it is.
BackToPoolPending(b) ==
    /\ batch[b].stage = "claimed"
    /\ row' = [row EXCEPT ![batch[b].row].box = NoBox]
    /\ EndBatch(b)

\* A network or mailbox error.  Nothing is asked, and the copy's metadata are written
\* back.
BackToPool(b) ==
    LET r == batch[b].row IN
    /\ batch[b].stage = "claimed"
    /\ row' = [row EXCEPT ![r] = [status |-> "queued", box |-> NoBox, held |-> batch[b].held]]
    /\ Restore(r, batch[b].held)
    /\ Done(b)

-----------------------------------------------------------------------------
Step(w) ==
    \/ Stamp(w) \/ Handoff(w) \/ Lock(w) \/ Assign(w) \/ AssignNone(w) \/ WriteRoute(w)
    \/ Unlock(w)

Outcome(b) == Drop(b) \/ GiveUp(b) \/ ProviderLimit(b) \/ BackToPool(b)

\* What the request, the processors and BullMQ do as long as there is something to do.
Progress ==
    \/ \E r \in Rows : Enqueue(r) \/ EnqueueFast(r) \/ LockExpires(r)
    \/ \E w \in Workers : Step(w) \/ \E j \in Jobs : Take(w, j)
    \/ \E j \in Jobs : Recover(j)
    \/ \E b \in Boxes : SelectUpgrades(b) \/ \E r \in Rows : WriteUpgrade(b, r)
    \/ AbortRows
    \/ \E r \in Rows : CraftWrite(r) \/ \E b, c \in Boxes : RedistributeWrite(b, r, c)
    \/ \E b \in Senders, r \in Rows : OverflowWrite(b, r)

Next ==
    \/ Progress
    \/ RequestDies
    \/ \E w \in Workers : Throw(w) \/ Crash(w)
    \/ \E j \in Jobs : TakenForStalled(j)
    \/ \E b \in Boxes : Connect(b) \/ ReturnLeads(b) \/ Redistribute(b)
    \/ \E b, c \in Boxes : ReassignLeads(b, c)
    \/ Pause \/ Resume \/ Abort
    \/ \E r \in Rows : Stop(r) \/ CraftRead(r)
    \/ \E b \in Senders : OverflowRead(b)
    \/ \E b \in Senders : Outcome(b) \/ \E r \in Rows : Pick(b, r) \/ Claim(b, r)

Spec == Init /\ [][Next]_vars

\* Each of them is finite, so it is enough that one of them goes on.  A mailbox that
\* gets to a row again and again while the campaign is active, its budget being new
\* every day, picks it and claims it at last.
FairSpec ==
    /\ Spec
    /\ WF_vars(Progress)
    /\ \A b \in Senders :
          /\ WF_vars(Outcome(b))
          /\ \A r \in Rows : SF_vars(active /\ Pick(b, r)) /\ SF_vars(Claim(b, r))

-----------------------------------------------------------------------------
(* Properties                                                               *)

\* "Another mailbox worker claimed this lead first": two mailboxes never work at one
\* row, but for one that was written while a mailbox had it in hand - by the router,
\* an upgrade, a return, a reassignment, a redistribution, an overflow, an abort or
\* the end of its sequence - and only until they are done with it.
ClaimExclusive ==
    \A b, c \in Senders :
        b # c /\ batch[b].stage = "claimed" /\ batch[c].stage = "claimed"
              /\ batch[b].row = batch[c].row
        => batch[b].row \in moved

\* A lead that is over is not put back to be sent, but by the router, an upgrade or the
\* redistribution, which do not ask, or by the old copy of a mailbox over whose head
\* the row was written: one that an abort or a reply ends in a mailbox's hands comes
\* back when that mailbox returns it.
GivenUpStays ==
    [][\A r \in Rows : row[r].status = "over" /\ row'[r].status # "over"
                       => r \in moved \cup moved']_vars

\* The rows as RowCustody has them.
Custody == INSTANCE RowCustody WITH
    box     <- [r \in Rows |-> row[r].box],
    hand    <- [r \in Rows |-> {b \in Senders : batch[b].stage = "claimed" /\ batch[b].row = r}],
    over    <- {r \in Rows : row[r].status = "over"},
    written <- moved

\* Seen from outside, all the writers and the batches' old copies and conditional
\* claims amount to custody: no row changes hands while a mailbox works at it, is
\* worked at for another mailbox than its own, or comes back once it is over, but
\* for rows written over a mailbox's head.
ImplementsCustody == Custody!Spec

\* The row waits for a routing that will not come: it was never enqueued, a job
\* of it failed for good, its route job found the lock set or no mailbox, or an old
\* copy of its metadata has held it back again.
Stranded(r) ==
    /\ row[r].held
    /\ api[r] = "dropped" \/ r \in lost \/ \E k \in {"verify", "route"} : job[<<k, r>>] = "failed"

\* "Campaign workers intentionally ignore these rows until routing assigns a
\* mailbox": a row that is held back has a request or a job that is going to see
\* to it, through crashes, errors and stalls, but for those reasons.
NotForgotten ==
    \A r \in Rows : row[r].held =>
        \/ api[r] \in {"todo", "fast"}
        \/ \E k \in {"verify", "route"} : job[<<k, r>>] \in {"waiting"} \cup Workers
        \/ Stranded(r)

\* A row that is not over is in the hands of a mailbox again and again while the
\* campaign is active, unless it is stranded or assigned to a mailbox the campaign
\* does not send from.
Served ==
    \A r \in Rows :
        []<>(\/ ~ active
             \/ row[r].status = "over"
             \/ Stranded(r)
             \/ row[r].box \in Boxes \ Senders
             \/ \E b \in Senders : batch[b].stage = "claimed" /\ batch[b].row = r)

=============================================================================
