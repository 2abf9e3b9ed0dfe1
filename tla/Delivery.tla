------------------------------ MODULE Delivery ------------------------------
(***************************************************************************)
(* The delivery of one campaign's messages: deliverCampaignEmail and       *)
(* deliverCampaignInstagram of shared/lib/queues/campaign-queue.ts, run by *)
(* several BullMQ workers at once against                                  *)
(*   - the campaign_emails table (one row per lead and step),              *)
(*   - the Redis keys send_guard:* (five-minute locks) and                 *)
(*     lead:last_email:* (one hour), and                                   *)
(*   - the mail or Instagram provider, which the platform cannot query.    *)
(* Any worker may attempt any (lead, step) at any time: which attempts the *)
(* callers make is the business of Sequence.tla.  A BullMQ job that stalls *)
(* and is handed to a second worker while the first still runs is two      *)
(* workers on one item.                                                    *)
(***************************************************************************)
EXTENDS Naturals

CONSTANTS
    Workers,            \* concurrent job slots, over all worker processes
    Leads,              \* leads of the campaign
    Steps,              \* message indexes of the sequence
    MaxFaults,          \* how many faults (below) a behaviour may contain
    Admitted            \* which of the three Disturbances may occur

\* The events that break the assumptions deliver*() is written under:
\*   lostSendAck    the provider accepts a message and the call still throws
\*   slowAttempt    an attempt spends over 15 minutes between the caller's
\*                  check of the row and its own conflict check
\*   retriedDelete  a DELETE commits, its answer is lost, and withDbRetry
\*                  runs it again
Disturbances == {"lostSendAck", "slowAttempt", "retriedDelete"}

ASSUME FaultsAssumption   == MaxFaults \in Nat
ASSUME AdmittedAssumption == Admitted \subseteq Disturbances

Items    == Leads \X Steps
Channels == {"email", "instagram"}

\* An attempt: what a worker was asked to deliver and how.  It is also the
\* name of the attempt's send guard, send_guard:[ig:]campaign:lead:step.
Jobs  == [item : Items, channel : Channels]
NoJob == [item |-> <<>>, channel |-> "none"]

\* campaign_emails.status: "engaged" stands for delivered, opened, clicked,
\* replied, bounced and suppressed, "none" for no row.
Statuses == {"none", "sending", "sent", "engaged"}

VARIABLES
    row,                \* status of the campaign_emails row of each item
    stale,              \* items whose row has said 'sending' for 15 minutes
    guard,              \* send guards present in Redis
    recent,             \* leads the one-hour dedup finds mailed
    pc,                 \* where each worker stands inside deliver*()
    job,                \* what it is delivering
    mail,               \* (history) messages that left, per item
    lied,               \* (history) accepted messages reported as failed
    faults              \* (history) faults so far

db   == <<row, stale>>
past == <<mail, lied>>
vars == <<row, stale, guard, recent, pc, job, mail, lied, faults>>

PCs == {"idle", "prep", "conflict", "purge", "guard", "dedup", "send",
        "failed", "undo", "sent", "mark", "tx", "returned", "threw"}

\* The tables, the Redis keys and the workers' locals hold what they can hold; a
\* worker inside deliver*() knows what it delivers.
TypeOK ==
    /\ row \in [Items -> Statuses]
    /\ stale \subseteq Items
    /\ guard \subseteq Jobs
    /\ recent \subseteq Leads
    /\ pc \in [Workers -> PCs]
    /\ job \in [Workers -> Jobs \cup {NoJob}]
    /\ \A w \in Workers : pc[w] # "idle" => job[w] \in Jobs
    /\ mail \in [Items -> Nat]
    /\ lied \in [Items -> Nat]
    /\ faults \in 0 .. MaxFaults

Init ==
    /\ row = [i \in Items |-> "none"]
    /\ stale = {}
    /\ guard = {}
    /\ recent = {}
    /\ pc = [w \in Workers |-> "idle"]
    /\ job = [w \in Workers |-> NoJob]
    /\ mail = [i \in Items |-> 0]
    /\ lied = [i \in Items |-> 0]
    /\ faults = 0

-----------------------------------------------------------------------------
Item(w)    == job[w].item
LeadOf(i)  == i[1]
ByEmail(w) == job[w].channel = "email"

Goto(w, from, to) == pc[w] = from /\ pc' = [pc EXCEPT ![w] = to]

Fault   == faults < MaxFaults /\ faults' = faults + 1
NoFault == UNCHANGED faults

SetRow(i, s) == row' = [row EXCEPT ![i] = s]

\* DELETE FROM campaign_emails WHERE campaign, lead, step: whatever row is
\* there, whoever wrote it.
DropRow(i) ==
    /\ SetRow(i, "none")
    /\ stale' = stale \ {i}

\* INSERT ... ON CONFLICT DO NOTHING where no row is there.
AddRow(i) ==
    /\ row[i] = "none"
    /\ SetRow(i, "sending")
    /\ UNCHANGED stale

\* releaseLock: an unconditional DEL whose errors are ignored.
ReleaseLock(w) ==
    \/ guard' = guard \ {job[w]} /\ NoFault
    \/ Fault /\ UNCHANGED guard

-----------------------------------------------------------------------------
(* Mutants: plausible bugs in the attempt.  No specification uses them; each *)
(* stands in for the definition it is named after to show that a property    *)
(* tells the two apart.                                                      *)

\* Begin that does not keep what it was asked to deliver.
BeginForgetsJob(w, j) ==
    /\ row[j.item] = "none"
    /\ Goto(w, "idle", "prep")
    /\ UNCHANGED <<db, guard, recent, job, past, faults>>

\* Insert as an upsert: a conflict is no reason to stop.
InsertUpsert(w) ==
    /\ Goto(w, "prep", "guard")
    /\ SetRow(Item(w), "sending")
    /\ stale' = stale \ {Item(w)}
    /\ UNCHANGED <<guard, recent, job, past, faults>>

\* Insert that writes 'sent' before the send.
InsertSent(w) ==
    /\ \/ /\ Goto(w, "prep", "guard")
          /\ row[Item(w)] = "none" /\ SetRow(Item(w), "sent") /\ UNCHANGED stale
       \/ Goto(w, "prep", "conflict") /\ row[Item(w)] # "none" /\ UNCHANGED db
    /\ UNCHANGED <<guard, recent, job, past, faults>>

\* ReadConflict that retries any 'sending' row, whatever its age.
ReadConflictUnaged(w) ==
    /\ Goto(w, "conflict", IF row[Item(w)] = "sending" THEN "purge" ELSE "returned")
    /\ UNCHANGED <<db, guard, recent, job, past, faults>>

\* Promote that leaves the row out of the transaction.
PromoteLeadOnly(w) ==
    /\ \/ Goto(w, "tx", "returned") /\ NoFault
       \/ Goto(w, "tx", "threw") /\ Fault
    /\ UNCHANGED <<db, guard, recent, job, past>>

\* DbError that deletes the row also when the transaction fails.
DbErrorDeletes(w) ==
    /\ \/ (\E at \in {"prep", "conflict"} : Goto(w, at, "threw")) /\ UNCHANGED db
       \/ Goto(w, "tx", "threw") /\ DropRow(Item(w))
    /\ Fault
    /\ UNCHANGED <<guard, recent, job, past>>

-----------------------------------------------------------------------------
(* The attempt, in program order.                                          *)

\* The caller reads campaign_emails and goes on to deliver only if no row is
\* there, whatever the row's status.
Begin(w, j) ==
    /\ row[j.item] = "none"
    /\ Goto(w, "idle", "prep")
    /\ job' = [job EXCEPT ![w] = j]
    /\ UNCHANGED <<db, guard, recent, past, faults>>

\* The caller finds a row and takes the message for sent.
AlreadySent(w, j) ==
    /\ row[j.item] # "none"
    /\ Goto(w, "idle", "returned")
    /\ job' = [job EXCEPT ![w] = j]
    /\ UNCHANGED <<db, guard, recent, past, faults>>

\* excludeWeekends, on a Saturday or Sunday: the email path returns.
SkipWeekend(w) ==
    /\ ByEmail(w)
    /\ Goto(w, "prep", "returned")
    /\ UNCHANGED <<db, guard, recent, job, past, faults>>

\* The template has no body for this step: the email path throws.
NoBody(w) ==
    /\ ByEmail(w)
    /\ Goto(w, "prep", "threw")
    /\ UNCHANGED <<db, guard, recent, job, past, faults>>

\* The idempotency write that precedes the send.
Insert(w) ==
    /\ \/ Goto(w, "prep", "guard") /\ AddRow(Item(w))
       \/ Goto(w, "prep", "conflict") /\ row[Item(w)] # "none" /\ UNCHANGED db
    /\ UNCHANGED <<guard, recent, job, past, faults>>

\* The insert commits, its answer is lost, and withDbRetry's second try
\* conflicts with the row of the first, or the tries run out.
InsertAckLost(w) ==
    /\ Goto(w, "prep", "conflict") \/ Goto(w, "prep", "threw")
    /\ AddRow(Item(w))
    /\ Fault
    /\ UNCHANGED <<guard, recent, job, past>>

\* The conflicting row is read: only a stale 'sending' row is retried.
ReadConflict(w) ==
    /\ Goto(w, "conflict", IF Item(w) \in stale THEN "purge" ELSE "returned")
    /\ UNCHANGED <<db, guard, recent, job, past, faults>>

\* The stale row is deleted and the attempt goes on without a new one; the
\* delete's own failure is logged and ignored.
Purge(w) ==
    /\ Goto(w, "purge", "guard")
    /\ \/ DropRow(Item(w)) /\ NoFault
       \/ Fault /\ UNCHANGED db
    /\ UNCHANGED <<guard, recent, job, past>>

\* acquireLock(key, 300, failOpen): without Redis the attempt proceeds
\* unguarded.  The Instagram path has no dedup.
AcquireGuard(w) ==
    /\ \/ job[w] \notin guard /\ guard' = guard \cup {job[w]} /\ NoFault
       \/ Fault /\ UNCHANGED guard
    /\ Goto(w, "guard", IF ByEmail(w) THEN "dedup" ELSE "send")
    /\ UNCHANGED <<db, recent, job, past>>

\* The guard is held: the attempt returns and leaves its row as it is.
GuardHeld(w) ==
    /\ job[w] \in guard
    /\ Goto(w, "guard", "returned")
    /\ UNCHANGED <<db, guard, recent, job, past, faults>>

\* The lead was not mailed within the hour, or Redis fails and the fallback
\* query, which looks at other campaigns only, finds nothing.
DedupPass(w) ==
    /\ Goto(w, "dedup", "send")
    /\ \/ LeadOf(Item(w)) \notin recent /\ NoFault
       \/ LeadOf(Item(w)) \in recent /\ Fault
    /\ UNCHANGED <<db, guard, recent, job, past>>

\* The lead was mailed within the hour: the guard is released, the row is not
\* removed.
DedupSkip(w) ==
    /\ Goto(w, "dedup", "returned")
    /\ LeadOf(Item(w)) \in recent
    /\ ReleaseLock(w)
    /\ UNCHANGED <<db, recent, job, past>>

\* The lead's domain has no MX record: likewise.
SkipNoMx(w) ==
    /\ ByEmail(w)
    /\ Goto(w, "send", "returned")
    /\ ReleaseLock(w)
    /\ UNCHANGED <<db, recent, job, past>>

\* sendEmail or sendInstagramOutreach succeeds.  Only the email path
\* releases its guard and marks the lead afterwards.
SendOk(w) ==
    /\ Goto(w, "send", IF ByEmail(w) THEN "sent" ELSE "tx")
    /\ mail' = [mail EXCEPT ![Item(w)] = @ + 1]
    /\ UNCHANGED <<db, guard, recent, job, lied, faults>>

\* The provider refuses the message.
SendFail(w) ==
    /\ Goto(w, "send", "failed")
    /\ UNCHANGED <<db, guard, recent, job, past, faults>>

\* The provider accepts the message and the call throws all the same.
SendAckLost(w) ==
    /\ "lostSendAck" \in Admitted
    /\ Goto(w, "send", "failed")
    /\ mail' = [mail EXCEPT ![Item(w)] = @ + 1]
    /\ lied' = [lied EXCEPT ![Item(w)] = @ + 1]
    /\ Fault
    /\ UNCHANGED <<db, guard, recent, job>>

\* catch: release the guard, ...
ReleaseOnError(w) ==
    /\ Goto(w, "failed", "undo")
    /\ ReleaseLock(w)
    /\ UNCHANGED <<db, recent, job, past>>

\* ... delete the row so that a retry may send, and rethrow.  A failure of
\* the delete is logged and ignored.
DeleteRow(w) ==
    /\ \/ Goto(w, "undo", "threw") /\ DropRow(Item(w)) /\ NoFault
       \/ Goto(w, "undo", "threw") /\ UNCHANGED db /\ Fault
       \/ /\ "retriedDelete" \in Admitted
          /\ Goto(w, "undo", "undo") /\ DropRow(Item(w)) /\ Fault
    /\ UNCHANGED <<guard, recent, job, past>>

ReleaseAfterSend(w) ==
    /\ Goto(w, "sent", "mark")
    /\ ReleaseLock(w)
    /\ UNCHANGED <<db, recent, job, past>>

\* SET lead:last_email:<lead> EX 3600; its failure is logged and ignored.
MarkLead(w) ==
    /\ Goto(w, "mark", "tx")
    /\ \/ recent' = recent \cup {LeadOf(Item(w))} /\ NoFault
       \/ Fault /\ UNCHANGED recent
    /\ UNCHANGED <<db, guard, job, past>>

\* The transaction commits: UPDATE ... SET status = 'sent' on whatever row is
\* there.  Its answer may be lost.
Promote(w) ==
    /\ \/ Goto(w, "tx", "returned") /\ NoFault
       \/ Goto(w, "tx", "threw") /\ Fault
    /\ SetRow(Item(w), IF row[Item(w)] = "none" THEN "none" ELSE "sent")
    /\ stale' = stale \ {Item(w)}
    /\ UNCHANGED <<guard, recent, job, past>>

\* A database error the code lets through: the statement has no effect.
DbError(w) ==
    /\ \E at \in {"prep", "conflict", "tx"} : Goto(w, at, "threw")
    /\ Fault
    /\ UNCHANGED <<db, guard, recent, job, past>>

\* The attempt is over and its caller takes the next one.
Finish(w) ==
    /\ Goto(w, "returned", "idle") \/ Goto(w, "threw", "idle")
    /\ job' = [job EXCEPT ![w] = NoJob]
    /\ UNCHANGED <<db, guard, recent, past, faults>>

\* The worker process dies: its locals are gone, its records are not.
Crash(w) ==
    /\ pc[w] # "idle"
    /\ Goto(w, pc[w], "idle")
    /\ job' = [job EXCEPT ![w] = NoJob]
    /\ Fault
    /\ UNCHANGED <<db, guard, recent, past>>

-----------------------------------------------------------------------------
(* The surroundings.                                                       *)

\* The five-minute lock expires, its holder alive or not.
GuardExpires(j) ==
    /\ j \in guard
    /\ guard' = guard \ {j}
    /\ UNCHANGED <<db, recent, pc, job, past, faults>>

\* An hour passes since the lead's last email.
RecentExpires(l) ==
    /\ l \in recent
    /\ recent' = recent \ {l}
    /\ UNCHANGED <<db, guard, pc, job, past, faults>>

\* Another campaign mails the lead.
MailedElsewhere(l) ==
    /\ l \notin recent
    /\ recent' = recent \cup {l}
    /\ UNCHANGED <<db, guard, pc, job, past, faults>>

\* Workers that have checked the row of item i and will judge its age.
Judging(i) == {w \in Workers : pc[w] \in {"prep", "conflict"} /\ Item(w) = i}

\* A row has said 'sending' for 15 minutes.  That it does so while a worker
\* is between its own two looks at the row takes a slow attempt.
RowAges(i) ==
    /\ row[i] = "sending" /\ i \notin stale
    /\ stale' = stale \cup {i}
    /\ \/ Judging(i) = {} /\ NoFault
       \/ "slowAttempt" \in Admitted /\ Judging(i) # {} /\ Fault
    /\ UNCHANGED <<row, guard, recent, pc, job, past>>

\* The lead opens, clicks, answers, ... a message it has received: the
\* trackers overwrite the status, before or after the promotion.
Engage(i) ==
    /\ mail[i] > 0
    /\ row[i] \in {"sending", "sent"}
    /\ SetRow(i, "engaged")
    /\ stale' = stale \ {i}
    /\ UNCHANGED <<guard, recent, pc, job, past, faults>>

-----------------------------------------------------------------------------
\* A step of an attempt under way.
Attempt(w) ==
    \/ SkipWeekend(w) \/ NoBody(w) \/ Insert(w) \/ InsertAckLost(w)
    \/ ReadConflict(w) \/ Purge(w)
    \/ AcquireGuard(w) \/ GuardHeld(w) \/ DedupPass(w) \/ DedupSkip(w)
    \/ SkipNoMx(w) \/ SendOk(w) \/ SendFail(w) \/ SendAckLost(w)
    \/ ReleaseOnError(w) \/ DeleteRow(w)
    \/ ReleaseAfterSend(w) \/ MarkLead(w) \/ Promote(w)
    \/ DbError(w) \/ Finish(w)

Surroundings ==
    \/ \E j \in Jobs : GuardExpires(j)
    \/ \E l \in Leads : RecentExpires(l) \/ MailedElsewhere(l)
    \/ \E i \in Items : RowAges(i) \/ Engage(i)

Next ==
    \/ \E w \in Workers : Attempt(w) \/ Crash(w)
    \/ \E w \in Workers, j \in Jobs : Begin(w, j) \/ AlreadySent(w, j)
    \/ Surroundings

Spec == Init /\ [][Next]_vars

\* An attempt that runs goes on, a row grows old, and every item is attempted
\* again as long as its callers' check lets it: BullMQ keeps handing out the
\* jobs, and nothing else ever looks at an unfinished row.
FairSpec ==
    /\ Spec
    /\ \A w \in Workers : WF_vars(Attempt(w))
    /\ \A i \in Items : WF_vars(RowAges(i))
    /\ \A i \in Items :
         SF_vars(\E w \in Workers, j \in Jobs : j.item = i /\ Begin(w, j))

-----------------------------------------------------------------------------
(* Properties.                                                             *)

\* Workers between the insert and the end of the transaction.
Owning == {"guard", "dedup", "send", "failed", "undo", "sent", "mark", "tx"}
Owns(w, i) == pc[w] \in Owning /\ Item(w) = i

Settled == {i \in Items : row[i] \in {"sent", "engaged"}}

\* No lead receives the same step twice, whatever crashes, lost answers, lock
\* expiries and failed releases occur, as long as no Disturbance does: what
\* the pre-send write, the send guard and the callers' check are for.
AtMostOnce == \A i \in Items : mail[i] <= 1

\* When the provider's answers may be lost, every copy beyond the first goes
\* back to a message the provider took and reported as refused: the delete
\* of the row on error never frees an item that another attempt mailed.
DuplicatesExplained == \A i \in Items : mail[i] <= 1 + lied[i]

\* At most one attempt is between its insert and its transaction on an item,
\* although the send guard may expire, be lost or be left out: the unique
\* index on (campaign, lead, step) carries the mutual exclusion.
OneSender ==
    \A i \in Items : \A v, w \in Workers : Owns(v, i) /\ Owns(w, i) => v = w

\* A row that reads 'sent', 'opened', ... is about a message that left, in
\* every environment: the pipeline never records a false 'sent'.
RowTruth == \A i \in Settled : mail[i] > 0

\* A settled row is never removed or taken back to 'sending': the deletes on
\* error and on staleness take no condition on the status, so that nothing
\* but the order of the steps protects it.
SettledStays == [][Settled \subseteq Settled']_vars

\* The pipeline implements the abstract promise.
Once == INSTANCE SendOnce WITH settled <- Settled
ImplementsOnce == Once!Spec

\* And keeps it: without faults, a message that left is eventually on record,
\* in whatever order the workers find the item.
ImplementsOnceFairly == [](faults = 0) => Once!Fairness

\* No 15-minute gap inside an attempt and no delete run twice: the provider
\* alone may give a wrong answer.
Quiet == Admitted \subseteq {"lostSendAck"}

\* Where a worker has its row and no message to show for it.
Unsent == {"guard", "dedup", "send", "failed", "undo"}

\* Why DuplicatesExplained holds in a quiet environment, as an invariant that
\* every step preserves.  A worker past its insert owns the row, alone; a row
\* is absent, or owned by a worker that has not sent, only while every
\* message that left was reported as refused; a row grows stale only when
\* nobody is about to judge it, so that nobody ever purges.
OwnersHaveRows == \A w \in Workers : pc[w] \in Owning => row[Item(w)] # "none"
UnsentOwes     == \A w \in Workers :
                      pc[w] \in Unsent => mail[Item(w)] <= lied[Item(w)]
AbsentOwes     == \A i \in Items : row[i] = "none" => mail[i] <= lied[i]
StaleUnjudged  == \A i \in stale : row[i] = "sending" /\ Judging(i) = {}
NoPurge        == \A w \in Workers : pc[w] # "purge"

QuietInv ==
    /\ OneSender /\ OwnersHaveRows
    /\ UnsentOwes /\ AbsentOwes /\ DuplicatesExplained
    /\ StaleUnjudged /\ NoPurge

\* Why RowTruth holds in every environment.
SentTruth == \A w \in Workers :
                 pc[w] \in {"sent", "mark", "tx"} => mail[Item(w)] > 0
TruthInv == SentTruth /\ RowTruth
=============================================================================
