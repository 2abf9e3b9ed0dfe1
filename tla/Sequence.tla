------------------------------ MODULE Sequence ------------------------------
(***************************************************************************)
(* A lead's way through the steps of a campaign: the callers of the        *)
(* delivery pipeline in shared/lib/queues/campaign-queue.ts.               *)
(*   - processSendBatch reads a batch of leads, then works through its     *)
(*     copy of them, claiming, checking and delivering one at a time;      *)
(*   - processFollowUp runs one BullMQ job per lead and later step, with   *)
(*     its row in campaign_job_logs;                                       *)
(*   - runJobWatchdog (job-watchdog.ts) re-adds jobs that BullMQ has lost, *)
(*   - killLeadSequence (sequence-killer.ts) stops a lead's sequence;      *)
(*   - other parts of the platform assign leads to mailboxes, and stop     *)
(*     them, by writing the same campaign_leads rows.                      *)
(* The delivery itself is Delivery's, action by action.                    *)
(***************************************************************************)
EXTENDS Delivery

CONSTANTS
    LastStep,           \* number of follow-ups in the template
    TopStep,            \* bound on the step a lead's row may reach
    Instagram,          \* leads whose channel is 'instagram'
    Answering,          \* leads whose answers reach killLeadSequence
    Moved,              \* leads whose row other parts of the platform write
    MaxFailures,        \* failed sends before a lead is given up (3)
    MaxRequeues,        \* MAX_REQUEUE_ATTEMPTS of the watchdog (3)
    MaxLosses           \* bound on what fails outside a delivery

ASSUME StepsAssumption  ==
    /\ LastStep \in Nat /\ TopStep \in Nat /\ LastStep <= TopStep
    /\ Steps = 0 .. TopStep
ASSUME LeadsAssumption  ==
    Instagram \subseteq Leads /\ Answering \subseteq Leads /\ Moved \subseteq Leads
ASSUME LimitsAssumption ==
    MaxFailures \in Nat /\ MaxRequeues \in Nat /\ MaxLosses \in Nat

FollowUps == Leads \X (1 .. LastStep)

\* campaign_leads.status.  'processing', which the consumer queue writes when
\* it gives a lead to a mailbox, is read as 'pending' is and stands with it;
\* 'unsubscribed' stands with 'failed'.
Unstarted    == {"pending", "queued"}
LeadStatuses == Unstarted \cup {"sent", "failed", "replied", "aborted"}
LogStatuses  == {"none", "pending", "processing", "sent", "failed", "re_queued",
                 "skipped"}
Sweeps == {"no", "seen", "added"}
Stages == {"free", "picked", "check", "gate", "prev", "deliver",
           "next", "add", "mark", "catch", "done"}

VARIABLES
    lstatus,            \* campaign_leads.status
    cursor,             \* campaign_leads.currentStep
    fails,              \* campaign_leads.metadata.failCount, up to MaxFailures
    killed,             \* 0, 1 or 2: how far killLeadSequence got
    fjob,               \* each follow-up's BullMQ job: none, waiting, failed, or
                        \* the worker that runs it
    flog,               \* its row in campaign_job_logs
    requeues,           \* and that row's attemptCount
    sweep,              \* how far the watchdog's sweep is with each follow-up
    task,               \* what each worker's caller of the pipeline is at
    losses              \* (history) failures outside a delivery

lead    == <<lstatus, cursor, fails>>
queue   == <<fjob, flog, requeues, sweep>>
dog     == <<requeues, sweep>>
seqvars == <<lstatus, cursor, fails, killed, fjob, flog, requeues, sweep, task, losses>>

\* A caller: which processor it is, the copy of the campaign_leads row it
\* works on and where it stands.
Tasks == [kind : {"batch", "follow"}, lead : Leads, step : Steps,
          fails : 0 .. MaxFailures, status : LeadStatuses, stage : Stages]
NoTask == [kind |-> "none", stage |-> "free"]

\* Likewise for the callers: the copies they hold are rows that can exist, and
\* currentStep stays within TopStep, failCount within its limit.
SeqTypeOK ==
    /\ TypeOK
    /\ lstatus \in [Leads -> LeadStatuses]
    /\ cursor \in [Leads -> 0 .. TopStep + 1]
    /\ fails \in [Leads -> 0 .. MaxFailures]
    /\ killed \in [Leads -> 0 .. 2]
    /\ fjob \in [FollowUps -> {"none", "waiting", "failed"} \cup Workers]
    /\ flog \in [FollowUps -> LogStatuses]
    /\ requeues \in [FollowUps -> 0 .. MaxRequeues]
    /\ sweep \in [FollowUps -> Sweeps]
    /\ task \in [Workers -> Tasks \cup {NoTask}]
    /\ \A w \in Workers : task[w].stage # "free" => task[w] \in Tasks
    /\ losses \in 0 .. MaxLosses

SeqInit ==
    /\ Init
    /\ lstatus = [l \in Leads |-> "pending"]
    /\ cursor = [l \in Leads |-> 0]
    /\ fails = [l \in Leads |-> 0]
    /\ killed = [l \in Leads |-> 0]
    /\ fjob = [f \in FollowUps |-> "none"]
    /\ flog = [f \in FollowUps |-> "none"]
    /\ requeues = [f \in FollowUps |-> 0]
    /\ sweep = [f \in FollowUps |-> "no"]
    /\ task = [w \in Workers |-> NoTask]
    /\ losses = 0

-----------------------------------------------------------------------------
Lead(w) == task[w].lead
This(w) == <<task[w].lead, task[w].step>>
After(w) == <<task[w].lead, task[w].step + 1>>

At(w, kind, stage) == task[w].kind = kind /\ task[w].stage = stage
Enter(w, stage)    == task' = [task EXCEPT ![w].stage = stage]
Leave(w)           == task' = [task EXCEPT ![w] = NoTask]

Loss   == losses < MaxLosses /\ losses' = losses + 1
NoLoss == UNCHANGED losses

\* Mutant of OneMore: the failures are not limited.
OneMoreUnlimited(n) == n + 1

\* failCount after one more failure, counted from a copy of the row.
OneMore(n) == IF n < MaxFailures THEN n + 1 ELSE n

SetStatus(l, s) == lstatus' = [lstatus EXCEPT ![l] = s]
SetLog(f, s)    == flog' = [flog EXCEPT ![f] = s]

\* INSERT ... ON CONFLICT DO UPDATE of campaign_job_logs, and UPDATE, which
\* changes only a row that exists.  The failure of either is swallowed.
LogPending(f) ==
    \/ SetLog(f, "pending") /\ NoLoss
    \/ Loss /\ UNCHANGED flog
LogAs(f, s) ==
    \/ SetLog(f, IF flog[f] = "none" THEN "none" ELSE s) /\ NoLoss
    \/ Loss /\ UNCHANGED flog

\* queue.add with a job id: ignored while BullMQ has a job of that id, also
\* while a worker is running it.
AddJob(f) == fjob' = [fjob EXCEPT ![f] = IF @ = "none" THEN "waiting" ELSE @]

-----------------------------------------------------------------------------
(* Mutants, as in Delivery.                                                *)

\* BatchCatch that writes its copy of currentStep back.
BatchCatchRestores(w) ==
    /\ At(w, "batch", "catch")
    /\ LET f == OneMore(task[w].fails)
       IN  /\ fails' = [fails EXCEPT ![Lead(w)] = f]
           /\ SetStatus(Lead(w), IF f = MaxFailures THEN "failed" ELSE "queued")
    /\ cursor' = [cursor EXCEPT ![Lead(w)] = task[w].step]
    /\ Leave(w)
    /\ UNCHANGED <<vars, killed, queue, losses>>

\* CheckPrevious that is content with any row of the previous step.
CheckPreviousAnyRow(w) ==
    /\ At(w, "follow", "prev")
    /\ IF row[<<Lead(w), task[w].step - 1>>] # "none"
       THEN Enter(w, "check") /\ UNCHANGED queue
       ELSE /\ SetLog(This(w), "pending") /\ AddJob(This(w))
            /\ Enter(w, "done") /\ UNCHANGED dog
    /\ UNCHANGED <<vars, lead, killed, losses>>

\* StartDelivery without the look at campaign_emails.
StartDeliveryUnchecked(w) ==
    /\ task[w].stage = "check"
    /\ task[w].kind = "follow" \/ Lead(w) \in Instagram
    /\ Goto(w, "idle", "prep")
    /\ job' = [job EXCEPT ![w] =
                 [item |-> This(w),
                  channel |-> IF task[w].kind = "follow" THEN "email" ELSE "instagram"]]
    /\ Enter(w, "deliver")
    /\ UNCHANGED <<db, guard, recent, past, faults, lead, killed, queue, losses>>

\* EndDelivery that advances the lead however the delivery returned.
EndDeliveryAdvances(w) ==
    /\ task[w].stage = "deliver"
    /\ Finish(w)
    /\ Enter(w, IF pc[w] = "threw" THEN "catch" ELSE "next")
    /\ IF pc[w] = "returned"
       THEN /\ SetStatus(Lead(w), "sent")
            /\ cursor' = [cursor EXCEPT ![Lead(w)] = task[w].step + 1]
            /\ UNCHANGED fails
       ELSE UNCHANGED lead
    /\ UNCHANGED <<killed, queue, losses>>

-----------------------------------------------------------------------------
(* processSendBatch.                                                       *)

\* A batch query returns the lead: the row is copied.  Nothing keeps a lead
\* that is past the last step out (TopStep bounds how far it may go).
PickLead(w, l) ==
    /\ task[w] = NoTask
    /\ lstatus[l] \in Unstarted /\ killed[l] < 2
    /\ cursor[l] <= TopStep
    /\ task' = [task EXCEPT ![w] =
                  [kind |-> "batch", lead |-> l, step |-> cursor[l],
                   fails |-> fails[l], status |-> lstatus[l], stage |-> "picked"]]
    /\ UNCHANGED <<vars, lead, killed, queue, losses>>

\* A copy that says 'queued' is claimed by a conditional update, which fails
\* when the row is no longer waiting or is another mailbox's; any other copy,
\* of a lead assigned to this mailbox, is taken as it was read.
Claim(w) ==
    /\ At(w, "batch", "picked")
    /\ \/ task[w].status # "queued" /\ Enter(w, "check") /\ UNCHANGED lstatus
       \/ /\ task[w].status = "queued" /\ lstatus[Lead(w)] \in Unstarted
          /\ SetStatus(Lead(w), "pending") /\ Enter(w, "check")
       \/ task[w].status = "queued" /\ Leave(w) /\ UNCHANGED lstatus
    /\ UNCHANGED <<vars, cursor, fails, killed, queue, losses>>

\* The exclusion engine knows an outcome of the lead, in this campaign or in
\* another, or a rule that keeps it out.  killLeadSequence records neither.
Exclude(w) ==
    /\ At(w, "batch", "check")
    /\ SetStatus(Lead(w), "aborted")
    /\ Leave(w)
    /\ UNCHANGED <<vars, cursor, fails, killed, queue, losses>>

\* The daily budget is spent, which is looked at before the claim, or an
\* auto-reply appeared, which is looked at after it: the rest of the batch is
\* dropped.
Yield(w) ==
    /\ At(w, "batch", "picked") \/ At(w, "batch", "check")
    /\ Leave(w)
    /\ UNCHANGED <<vars, lead, killed, queue, losses>>

\* The recipient's provider may not be mailed now: back to the pool.
ProviderLimit(w) ==
    /\ At(w, "batch", "check") /\ Lead(w) \notin Instagram
    /\ row[This(w)] = "none"
    /\ SetStatus(Lead(w), "queued")
    /\ Leave(w)
    /\ UNCHANGED <<vars, cursor, fails, killed, queue, losses>>

\* For an email lead the duplicate guard is called with two names that are
\* not declared: the ReferenceError lands in the catch.
EmailUndeliverable(w) ==
    /\ At(w, "batch", "check") /\ Lead(w) \notin Instagram
    /\ row[This(w)] = "none"
    /\ SetStatus(Lead(w), "failed")
    /\ fails' = [fails EXCEPT ![Lead(w)] = OneMore(task[w].fails)]
    /\ Leave(w)
    /\ UNCHANGED <<vars, cursor, killed, queue, losses>>

\* The error path: three failures give the lead up, a network or mailbox
\* error returns it to the pool, any other error gives it up too.  The update
\* takes no condition on the row's present status.
BatchCatch(w) ==
    /\ At(w, "batch", "catch")
    /\ LET f == OneMore(task[w].fails)
       IN  /\ fails' = [fails EXCEPT ![Lead(w)] = f]
           /\ \E s \in {"queued", "failed"} :
                /\ f = MaxFailures => s = "failed"
                /\ SetStatus(Lead(w), s)
    /\ Leave(w)
    /\ UNCHANGED <<vars, cursor, killed, queue, losses>>

-----------------------------------------------------------------------------
(* processFollowUp.                                                        *)

\* BullMQ hands the job out; a job whose log row says 'sent' is done.
TakeFollowUp(w, f) ==
    /\ task[w] = NoTask /\ fjob[f] = "waiting"
    /\ fjob' = [fjob EXCEPT ![f] = w]
    /\ task' = [task EXCEPT ![w] =
                  [kind |-> "follow", lead |-> f[1], step |-> f[2], fails |-> 0,
                   status |-> "pending",
                   stage |-> IF flog[f] = "sent" THEN "done" ELSE "gate"]]
    /\ IF flog[f] = "sent" THEN UNCHANGED <<flog, losses>> ELSE LogAs(f, "processing")
    /\ UNCHANGED <<vars, lead, killed, dog>>

\* The campaign's and the lead's rows are read.  A stopped lead ends the job,
\* and so do a campaign that is not active and a lead that another part of the
\* platform has moved on (replied, booked, ...).
GateLead(w) ==
    /\ At(w, "follow", "gate")
    /\ \/ Enter(w, "done")
       \/ /\ lstatus[Lead(w)] \notin {"aborted", "replied"} /\ killed[Lead(w)] < 2
          /\ task' = [task EXCEPT ![w].stage = "prev", ![w].fails = fails[Lead(w)],
                                  ![w].status = lstatus[Lead(w)]]
    /\ UNCHANGED <<vars, lead, killed, queue, losses>>

\* scheduleFollowUp for the step that is running: the log row turns pending
\* and the add is ignored, the job being active.
Defer(w) ==
    /\ LogPending(This(w))
    /\ AddJob(This(w))
    /\ Enter(w, "done")
    /\ UNCHANGED dog

\* A paused mailbox, a pending auto-reply or a spent budget defers the step.
Postpone(w) ==
    /\ At(w, "follow", "prev")
    /\ Defer(w)
    /\ UNCHANGED <<vars, lead, killed>>

\* The previous step must read exactly 'sent'.
CheckPrevious(w) ==
    /\ At(w, "follow", "prev")
    /\ IF row[<<Lead(w), task[w].step - 1>>] = "sent"
       THEN Enter(w, "check") /\ UNCHANGED <<queue, losses>>
       ELSE Defer(w)
    /\ UNCHANGED <<vars, lead, killed>>

\* Three failures give the lead up, fewer defer the step.
FollowCatch(w) ==
    /\ At(w, "follow", "catch")
    /\ LET f == OneMore(task[w].fails)
       IN  /\ fails' = [fails EXCEPT ![Lead(w)] = f]
           /\ IF f = MaxFailures
              THEN /\ SetStatus(Lead(w), "failed")
                   /\ LogAs(This(w), "failed")
                   /\ Enter(w, "done")
                   /\ UNCHANGED <<fjob, dog>>
              ELSE Defer(w) /\ UNCHANGED lstatus
    /\ UNCHANGED <<vars, cursor, killed>>

MarkSent(w) ==
    /\ At(w, "follow", "mark")
    /\ LogAs(This(w), "sent")
    /\ Enter(w, "done")
    /\ UNCHANGED <<vars, lead, killed, fjob, dog>>

\* The processor returns and BullMQ removes the job, if it is still this
\* worker's.
Done(w) ==
    /\ At(w, "follow", "done")
    /\ fjob' = [fjob EXCEPT ![This(w)] = IF @ = w THEN "none" ELSE @]
    /\ Leave(w)
    /\ UNCHANGED <<vars, lead, killed, flog, dog, losses>>

-----------------------------------------------------------------------------
(* Both processors: delivery, and the scheduling of the next step.         *)

\* Follow-ups go out by email whatever the lead's channel is; of the batch's
\* leads only the Instagram ones get as far as a delivery.
TheJob(w) ==
    [item |-> This(w),
     channel |-> IF task[w].kind = "follow" THEN "email" ELSE "instagram"]

StartDelivery(w) ==
    /\ task[w].stage = "check"
    /\ \/ /\ task[w].kind = "follow" \/ Lead(w) \in Instagram
          /\ Begin(w, TheJob(w))
       \/ AlreadySent(w, TheJob(w))
    /\ Enter(w, "deliver")
    /\ UNCHANGED <<lead, killed, queue, losses>>

\* A step of deliver*() that leaves the lead's row alone.
StepDelivery(w) ==
    /\ task[w].stage = "deliver"
    /\ \/ SkipWeekend(w) \/ NoBody(w) \/ Insert(w) \/ InsertAckLost(w)
       \/ ReadConflict(w) \/ Purge(w)
       \/ AcquireGuard(w) \/ GuardHeld(w) \/ DedupPass(w) \/ DedupSkip(w)
       \/ SkipNoMx(w) \/ SendOk(w) \/ SendFail(w) \/ SendAckLost(w)
       \/ ReleaseOnError(w) \/ DeleteRow(w)
       \/ ReleaseAfterSend(w) \/ MarkLead(w) \/ DbError(w)
    /\ UNCHANGED seqvars

\* The transaction: status and cursor of the lead change with the row; the
\* email path writes its copy of the metadata back.
CommitDelivery(w) ==
    /\ task[w].stage = "deliver"
    /\ Promote(w)
    /\ SetStatus(Lead(w), "sent")
    /\ cursor' = [cursor EXCEPT ![Lead(w)] = task[w].step + 1]
    /\ fails' = [fails EXCEPT ![Lead(w)] = IF ByEmail(w) THEN task[w].fails ELSE @]
    /\ UNCHANGED <<killed, queue, task, losses>>

EndDelivery(w) ==
    /\ task[w].stage = "deliver"
    /\ Finish(w)
    /\ Enter(w, IF pc[w] = "threw" THEN "catch" ELSE "next")
    /\ UNCHANGED <<lead, killed, queue, losses>>

\* Mutant of NoNextStep: the last step but one is taken for the last.
NoNextStepEarly(w) ==
    /\ task[w].stage = "next" /\ task[w].step + 1 >= LastStep
    /\ IF task[w].kind = "follow" THEN Enter(w, "mark") ELSE Leave(w)
    /\ UNCHANGED <<vars, lead, killed, queue, losses>>

\* What follows the delivery when no step is left: the batch goes on to its
\* next lead, the follow-up is marked sent.
NoNextStep(w) ==
    /\ task[w].stage = "next" /\ task[w].step >= LastStep
    /\ IF task[w].kind = "follow" THEN Enter(w, "mark") ELSE Leave(w)
    /\ UNCHANGED <<vars, lead, killed, queue, losses>>

\* scheduleFollowUp: the log row first, ...
LogNext(w) ==
    /\ task[w].stage = "next" /\ task[w].step < LastStep
    /\ LogPending(After(w))
    /\ Enter(w, "add")
    /\ UNCHANGED <<vars, lead, killed, fjob, dog>>

\* ... then the job.
AddNext(w) ==
    /\ task[w].stage = "add"
    /\ AddJob(After(w))
    /\ IF task[w].kind = "follow" THEN Enter(w, "mark") ELSE Leave(w)
    /\ UNCHANGED <<vars, lead, killed, flog, dog, losses>>

\* Redis or the database fails before the delivery, or between it and the next
\* step's job.  The error is caught; the follow-up, its own step delivered,
\* takes the next one's job for a duplicate and goes on.
TryFails(w) ==
    /\ \/ task[w].stage = "check" /\ Enter(w, "catch")
       \/ task[w].kind = "batch" /\ task[w].stage \in {"next", "add"} /\ Enter(w, "catch")
       \/ At(w, "follow", "add") /\ Enter(w, "mark")
    /\ Loss
    /\ UNCHANGED <<vars, lead, killed, queue>>

-----------------------------------------------------------------------------
(* Failures and surroundings.                                              *)

\* The worker dies, inside a delivery or outside; its job stays active.
CrashInside(w) ==
    /\ Crash(w)
    /\ Leave(w)
    /\ UNCHANGED <<lead, killed, queue, losses>>

CrashOutside(w) ==
    /\ task[w].stage \notin {"free", "deliver"}
    /\ Leave(w)
    /\ Loss
    /\ UNCHANGED <<vars, lead, killed, queue>>

\* BullMQ takes an active job whose lock was not renewed for stalled and hands
\* it out again or, when that has happened too often, fails it: its worker is
\* gone, or is only slow.
Stalled(f) ==
    /\ fjob[f] \in Workers
    /\ \E s \in {"waiting", "failed"} : fjob' = [fjob EXCEPT ![f] = s]
    /\ IF task[fjob[f]].kind = "follow" /\ This(fjob[f]) = f THEN Loss ELSE NoLoss
    /\ UNCHANGED <<vars, lead, killed, flog, dog, task>>

\* A query of the follow-up outside its try block fails, or the add of a
\* deferral after its log row was written: BullMQ tries the job again or, its
\* attempts spent, keeps it as failed, and the 'failed' listener fails the lead,
\* if it can.
FollowThrows(w) ==
    /\ \E stage \in {"gate", "prev", "catch"} : At(w, "follow", stage)
    /\ fjob[This(w)] = w
    /\ \/ fjob' = [fjob EXCEPT ![This(w)] = "waiting"] /\ UNCHANGED lstatus
       \/ /\ fjob' = [fjob EXCEPT ![This(w)] = "failed"]
          /\ SetStatus(Lead(w), "failed") \/ UNCHANGED lstatus
    /\ \/ UNCHANGED flog
       \/ task[w].stage # "gate" /\ SetLog(This(w), "pending")
    /\ \/ UNCHANGED fails
       \/ /\ task[w].stage = "catch"
          /\ fails' = [fails EXCEPT ![Lead(w)] = OneMore(task[w].fails)]
    /\ Leave(w)
    /\ Loss
    /\ UNCHANGED <<vars, cursor, killed, dog>>

\* Redis loses a waiting job, or drops a failed one for a newer.
JobLost(f) ==
    /\ fjob[f] \in {"waiting", "failed"}
    /\ fjob' = [fjob EXCEPT ![f] = "none"]
    /\ Loss
    /\ UNCHANGED <<vars, lead, killed, flog, dog, task>>

\* runJobWatchdog.  A sweep reads the rows of jobs that are an hour late, ...
WatchdogReads(f) ==
    /\ sweep[f] = "no"
    /\ flog[f] \in {"pending", "processing"} /\ requeues[f] < MaxRequeues
    /\ sweep' = [sweep EXCEPT ![f] = "seen"]
    /\ UNCHANGED <<vars, lead, killed, fjob, flog, requeues, task, losses>>

\* ... then takes them one by one: an inactive campaign's row is skipped, an
\* active or delayed job is left alone, a failed one noted.  A missing job is
\* added again.  A waiting one, if prioritized, counts as missing, but the add
\* is ignored.
WatchdogLooks(f) ==
    /\ sweep[f] = "seen"
    /\ \/ SetLog(f, "skipped") /\ sweep' = [sweep EXCEPT ![f] = "no"] /\ UNCHANGED fjob
       \/ /\ fjob[f] \in Workers \cup {"waiting"}
          /\ sweep' = [sweep EXCEPT ![f] = "no"] /\ UNCHANGED <<fjob, flog>>
       \/ /\ fjob[f] = "failed"
          /\ SetLog(f, "failed") /\ sweep' = [sweep EXCEPT ![f] = "no"] /\ UNCHANGED fjob
       \/ /\ fjob[f] \in {"none", "waiting"}
          /\ AddJob(f) /\ sweep' = [sweep EXCEPT ![f] = "added"] /\ UNCHANGED flog
    /\ UNCHANGED <<vars, lead, killed, requeues, task, losses>>

\* The row of a job that was added is marked, whatever it says by now.
WatchdogMarks(f) ==
    /\ sweep[f] = "added"
    /\ sweep' = [sweep EXCEPT ![f] = "no"]
    /\ \/ SetLog(f, "re_queued") /\ requeues' = [requeues EXCEPT ![f] = @ + 1] /\ NoLoss
       \/ Loss /\ UNCHANGED <<flog, requeues>>
    /\ UNCHANGED <<vars, lead, killed, fjob, task>>

\* killLeadSequence for a lead that wrote, in this campaign's thread or in any
\* other: first its campaign_leads rows, whose metadata is replaced, ...
KillStatus(l) ==
    /\ l \in Answering /\ killed[l] = 0
    /\ killed' = [killed EXCEPT ![l] = 1]
    /\ \/ /\ lstatus[l] \in Unstarted \cup {"sent"}
          /\ SetStatus(l, "replied") /\ fails' = [fails EXCEPT ![l] = 0] /\ NoLoss
       \/ lstatus[l] \notin Unstarted \cup {"sent"} /\ UNCHANGED <<lstatus, fails, losses>>
       \/ Loss /\ UNCHANGED <<lstatus, fails>>
    /\ UNCHANGED <<vars, cursor, queue, task>>

\* ... then aiPaused.  The failure of either update is logged and ignored.
KillPause(l) ==
    /\ killed[l] = 1
    /\ killed' = [killed EXCEPT ![l] = 2]
    /\ UNCHANGED <<vars, lead, queue, task, losses>>

\* A failed mailbox's waiting leads return to the pool.
ToPool(l) ==
    /\ l \in Moved
    /\ lstatus[l] = "pending" /\ SetStatus(l, "queued")
    /\ UNCHANGED <<vars, cursor, fails, killed, queue, task, losses>>

\* A waiting lead is given to another mailbox: the row is read, and written
\* without a condition on what it says by then.
ToMailbox(l) ==
    /\ l \in Moved
    /\ SetStatus(l, "pending")
    /\ UNCHANGED <<vars, cursor, fails, killed, queue, task, losses>>

\* An answer of the lead's arrives; the abort of the campaign and a payment
\* write 'aborted', which is read as 'replied' is.
Answered(l) ==
    /\ l \in Moved
    /\ SetStatus(l, "replied")
    /\ UNCHANGED <<vars, cursor, fails, killed, queue, task, losses>>

\* A bounce gives the lead up, as an unsubscription does.
Bounced(l) ==
    /\ l \in Moved
    /\ SetStatus(l, "failed")
    /\ UNCHANGED <<vars, cursor, fails, killed, queue, task, losses>>

-----------------------------------------------------------------------------
BatchStep(w) ==
    \/ \E l \in Leads : PickLead(w, l)
    \/ Claim(w) \/ Exclude(w) \/ Yield(w) \/ ProviderLimit(w)
    \/ EmailUndeliverable(w) \/ BatchCatch(w)

FollowStep(w) ==
    \/ \E f \in FollowUps : TakeFollowUp(w, f)
    \/ GateLead(w) \/ Postpone(w) \/ CheckPrevious(w) \/ FollowCatch(w)
    \/ MarkSent(w) \/ Done(w) \/ FollowThrows(w)

DeliverStep(w) ==
    \/ StartDelivery(w) \/ StepDelivery(w) \/ CommitDelivery(w) \/ EndDelivery(w)
    \/ NoNextStep(w) \/ LogNext(w) \/ AddNext(w) \/ TryFails(w)

SeqSurroundings ==
    \/ Surroundings /\ UNCHANGED seqvars
    \/ \E f \in FollowUps : Stalled(f) \/ JobLost(f)
    \/ \E f \in FollowUps : WatchdogReads(f) \/ WatchdogLooks(f) \/ WatchdogMarks(f)
    \/ \E l \in Leads : KillStatus(l) \/ KillPause(l)
    \/ \E l \in Leads : ToPool(l) \/ ToMailbox(l) \/ Answered(l) \/ Bounced(l)

SeqNext ==
    \/ \E w \in Workers : BatchStep(w) \/ FollowStep(w) \/ DeliverStep(w)
    \/ \E w \in Workers : CrashInside(w) \/ CrashOutside(w)
    \/ SeqSurroundings

SeqSpec == SeqInit /\ [][SeqNext]_<<vars, seqvars>>

-----------------------------------------------------------------------------
(* Properties.                                                             *)

\* A step is mailed only to a lead that was mailed every step before it,
\* though two processors, the retry paths and the watchdog schedule steps
\* independently of one another and messages get lost.
InOrder ==
    \A l \in Leads, s \in Steps :
        mail[<<l, s>>] > 0 => \A r \in 0 .. s - 1 : mail[<<l, r>>] > 0

\* A lead's currentStep counts steps it has really been mailed, and a lead
\* that reads 'sent' has been mailed: nothing but a delivery moves either.
CursorTruth ==
    \A l \in Leads :
        /\ \A r \in 0 .. cursor[l] - 1 : mail[<<l, r>>] > 0
        /\ lstatus[l] = "sent" => cursor[l] > 0

\* A caller about to deliver a step works on a lead that was mailed every
\* earlier one, however old its copy of the row is.
CallersInOrder ==
    \A w \in Workers :
        task[w].stage \in {"picked", "check", "deliver"} =>
            \A r \in 0 .. task[w].step - 1 : mail[<<Lead(w), r>>] > 0

\* Why InOrder and CursorTruth hold, as an invariant that every step preserves.
OrderInv == InOrder /\ CursorTruth /\ CallersInOrder

\* currentStep never goes back: a slow worker does not overwrite a later
\* step's commit with its own copy of the row.
CursorForward == [][\A l \in Leads : cursor'[l] >= cursor[l]]_<<vars, seqvars>>

\* At most one step of a lead is being delivered at any time, whichever
\* processors, retries and stale copies of its row are about.
OneStepAtATime ==
    \A v, w \in Workers :
        /\ pc[v] \in Owning /\ pc[w] \in Owning
        /\ LeadOf(Item(v)) = LeadOf(Item(w))
        => v = w

\* The callers use the delivery pipeline as Delivery describes it.
ImplementsDelivery == Spec

\* And with it they send each lead its steps in turn: a step leaves once, when
\* every earlier one is on record, and currentStep only moves on.
InTurn == INSTANCE SendInTurn WITH settled <- Settled
ImplementsInTurn == InTurn!Spec

\* Why OneStepAtATime, CursorForward and ImplementsInTurn hold where the
\* environment is quiet.  An item is through when its row is settled and nobody
\* owns it; then nobody will delete the row or send again.  Whatever leads to a
\* delivery finds every earlier step through: the lead's currentStep, the copy
\* of it that a batch works on, and the row of the previous step that reads
\* 'sent', since its owner has gone when it does.
Through(i)     == i \in Settled /\ \A w \in Workers : ~ Owns(w, i)
Before(l, s)   == \A r \in 0 .. s - 1 : Through(<<l, r>>)
SentFree       == \A i \in Items : row[i] = "sent" => Through(i)
CursorThrough  == \A l \in Leads : Before(l, cursor[l])
CallersThrough == \A w \in Workers :
                      task[w].stage \in {"picked", "check", "deliver"} =>
                          Before(Lead(w), task[w].step)
RowsInTurn     == \A l \in Leads, s \in Steps :
                      row[<<l, s>>] # "none" => Before(l, s)

TurnInv == SentFree /\ CursorThrough /\ CallersThrough /\ RowsInTurn

\* A lead between two steps that nobody is working on has its next step on
\* record, as a job or as a row the watchdog can recover it from, in whatever
\* order two processors, retries and the watchdog went through it: the silent end
\* of a sequence is the work of a crash or a failed query between the commit of
\* one step and the scheduling of the next.
FollowUpKept ==
    faults = 0 /\ losses = 0 =>
        \A l \in Leads :
            /\ lstatus[l] = "sent" /\ cursor[l] <= LastStep
            /\ \A w \in Workers : task[w] # NoTask => Lead(w) # l
            => fjob[<<l, cursor[l]>>] # "none" \/ flog[<<l, cursor[l]>>] # "none"

\* Why FollowUpKept holds.  A lead's next step has its row, or the worker that
\* committed the previous one is on its way to write it; rows are never removed.
Scheduling(w, l, s) ==
    /\ task[w] # NoTask /\ Lead(w) = l /\ task[w].step + 1 = s
    /\ \/ task[w].stage = "deliver" /\ pc[w] = "returned"
       \/ task[w].stage = "next"
KeptInv ==
    faults = 0 /\ losses = 0 =>
        \A l \in Leads :
            lstatus[l] = "sent" /\ cursor[l] <= LastStep =>
                \/ flog[<<l, cursor[l]>>] # "none"
                \/ \E w \in Workers : Scheduling(w, l, cursor[l])

\* sequence-killer.ts:38 calls the 'replied' status "the authoritative
\* DB-level kill-switch checked by all queue processors": the batch processor
\* begins no delivery to a lead whose row reads 'replied'.
KillSwitchChecked ==
    [][\A w \in Workers :
          StartDelivery(w) /\ At(w, "batch", "check") /\ lstatus[Lead(w)] = "replied"
              => pc'[w] # "prep"]_<<vars, seqvars>>
=============================================================================
