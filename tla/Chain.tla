------------------------------- MODULE Chain --------------------------------
(***************************************************************************)
(* The life cycle of a campaign and the chains of send-batch jobs that     *)
(* carry it: startCampaign, pauseCampaign, completeCampaign, abortCampaign *)
(* and the control of processSendBatch in shared/lib/queues/               *)
(* campaign-queue.ts, the failure counter and the 'failed' listener there, *)
(* shared/lib/queues/job-watchdog.ts, and the start, pause, resume and     *)
(* abort routes of services/api-gateway/src/routes/outreach.ts.            *)
(*                                                                         *)
(* A mailbox of the campaign sends as long as there is a job for it.  Each *)
(* job does one batch and re-adds the next under its own id, which BullMQ  *)
(* ignores while a job of that id exists in whatever state.  The rows of   *)
(* campaign_job_logs are what the watchdog recovers jobs from.             *)
(*                                                                         *)
(* One campaign, one worker process; what a batch does to its leads is     *)
(* Sequence's subject, here it uses them up.                               *)
(***************************************************************************)
EXTENDS Naturals

CONSTANTS
    Mailboxes,          \* config.mailboxIds
    Attempts,           \* defaultJobOptions.attempts (3)
    MaxRequeues,        \* MAX_REQUEUE_ATTEMPTS of the watchdog (3)
    Breaker,            \* consecutive failures that pause a campaign (3)
    MaxLeads,           \* leads of the campaign
    Handlers,           \* API requests and stats jobs that may overlap
    MaxAsked,           \* bound: requests, stats jobs and automatic pauses
    MaxRestarts,        \* bound: restarts of the worker
    MaxThrows,          \* bound: batches that throw
    MaxLosses           \* bound: jobs and writes of rows that are lost, requests that die

ASSUME ChainConstants ==
    /\ Attempts \in Nat \ {0} /\ Breaker \in Nat \ {0}
    /\ MaxRequeues \in Nat /\ MaxLeads \in Nat /\ MaxAsked \in Nat
    /\ MaxRestarts \in Nat /\ MaxThrows \in Nat /\ MaxLosses \in Nat

\* Job <<m, 0>> has the id send-batch_<campaign>_<mailbox>; <<m, k>> is the one
\* without an id of its own that the k-th restart adds.
Jobs == Mailboxes \X (0 .. MaxRestarts)
Key(m) == <<m, 0>>
Box(j) == j[1]

VARIABLES
    status,             \* outreach_campaigns.status
    leads,              \* leads neither sent nor given up
    failures,           \* stats.consecutive_failures, up to Breaker
    job,                \* the state of each job in BullMQ
    tries,              \* its attemptsMade
    log,                \* campaign_job_logs, per mailbox
    pc,                 \* where the worker is in each active job
    listener,           \* where the 'failed' listener of each job is
    boot,               \* the auto-resume of a restarted worker
    dog,                \* the watchdog's sweep, and the mailbox it is at
    req,                \* where each request or stats job is
    seen,               \* the failure count a stats job has read
    asked, restarts, throws, losses,    \* (bounds) counts so far
    unwatched           \* (history) mailboxes that lost their job, or have not had their
                        \* row written, while no row of theirs is looked at

campaign == <<status, leads, failures>>
queue    == <<job, tries, log>>
worker   == <<pc, listener, boot>>
api      == <<req, seen>>
counts   == <<asked, restarts, throws, losses>>
vars == <<status, leads, failures, job, tries, log, pc, listener, boot, dog, req, seen,
          asked, restarts, throws, losses, unwatched>>

Statuses  == {"draft", "active", "paused", "completed", "aborted"}
JobStates == {"none", "delayed", "waiting", "active", "failed"}
LogStatuses == {"none", "pending", "processing", "re_queued", "skipped", "failed"}

\* check     before reading the campaign   batch     choosing what to do
\* add       the row written, not the job   again     about to add without a row
\* readd     likewise, after a send         loop      a send done, more leads
\* complete  no leads were left             clean     cleaning up Redis
\* finish    returning                      dead      the worker died in it
PCs == {"idle", "check", "batch", "add", "again", "readd", "loop", "complete", "clean",
        "finish", "dead"}

Live(j) == job[j] \in {"delayed", "waiting", "active"}

ChainTypeOK ==
    /\ status \in Statuses
    /\ leads \in 0 .. MaxLeads
    /\ failures \in 0 .. Breaker
    /\ job \in [Jobs -> JobStates]
    /\ tries \in [Jobs -> 0 .. Attempts]
    /\ log \in [Mailboxes -> [status : LogStatuses, requeued : 0 .. MaxRequeues]]
    /\ pc \in [Jobs -> PCs]
    /\ \A j \in Jobs : pc[j] # "idle" => job[j] = "active"
    /\ listener \in [Jobs -> {"idle", "count", "remove", "pause", "check"}]
    /\ boot \in {"done", "read", "add"}
    /\ dog \in {"idle", "skip", "add", "mark"} \X Mailboxes
    /\ req \in [Handlers -> {"idle", "activate", "log", "add", "again", "remove", "leads",
                             "stats", "statsWrite", "complete", "clean"}]
    /\ seen \in [Handlers -> 0 .. Breaker]
    /\ asked \in 0 .. MaxAsked /\ restarts \in 0 .. MaxRestarts
    /\ throws \in 0 .. MaxThrows /\ losses \in 0 .. MaxLosses
    /\ unwatched \subseteq Mailboxes

\* A campaign as it is created.
Init ==
    /\ status = "draft"
    /\ leads = MaxLeads
    /\ failures = 0
    /\ job = [j \in Jobs |-> "none"]
    /\ tries = [j \in Jobs |-> 0]
    /\ log = [m \in Mailboxes |-> [status |-> "none", requeued |-> 0]]
    /\ pc = [j \in Jobs |-> "idle"]
    /\ listener = [j \in Jobs |-> "idle"]
    /\ boot = "done"
    /\ dog \in {"idle"} \X Mailboxes
    /\ req = [r \in Handlers |-> "idle"]
    /\ seen = [r \in Handlers |-> 0]
    /\ asked = 0 /\ restarts = 0 /\ throws = 0 /\ losses = 0
    /\ unwatched = {}

-----------------------------------------------------------------------------
Ask == asked < MaxAsked /\ asked' = asked + 1

\* Queue.add with a job id: nothing happens while that id exists.
AddKeys(boxes) ==
    LET new == {Key(m) : m \in {n \in boxes : job[Key(n)] = "none"}} IN
    /\ job' = [j \in Jobs |-> IF j \in new THEN "delayed" ELSE job[j]]
    /\ tries' = [j \in Jobs |-> IF j \in new THEN 0 ELSE tries[j]]

\* The watchdog selects the row once it is old: it has not re-queued it too often.
Swept(m) == log[m].status \in {"pending", "processing"} /\ log[m].requeued < MaxRequeues

\* And the sweep is not about to write 're_queued' over it.
Watched(m) == Swept(m) /\ dog # <<"mark", m>>

Unwatch(boxes) == unwatched' = unwatched \cup {m \in boxes : ~ Watched(m)}

Lose == losses < MaxLosses /\ losses' = losses + 1

\* getDelayed and remove(), page by page.
Remove(gone) ==
    /\ job' = [j \in Jobs |-> IF j \in gone THEN "none" ELSE job[j]]
    /\ tries' = [j \in Jobs |-> IF j \in gone THEN 0 ELSE tries[j]]
    /\ Unwatch({Box(j) : j \in gone})

Delayed == {j \in Jobs : job[j] = "delayed"}

\* Mutant of Leftover: everything the campaign has in the queue.
LeftoverAll == {j \in Jobs : job[j] # "none"}

\* What completeCampaign removes: delayed jobs that are not being retried, and
\* failed ones.
Leftover == {j \in Delayed : tries[j] = 0} \cup {j \in Jobs : job[j] = "failed"}

Reach(r, s) == req' = [req EXCEPT ![r] = s]
Goto(j, s)  == pc' = [pc EXCEPT ![j] = s]

\* logJobPending and its like in startCampaign: requeued is not reset.
Pending(boxes) ==
    log' = [m \in Mailboxes |-> IF m \in boxes
                                THEN [log[m] EXCEPT !.status = "pending"]
                                ELSE log[m]]

Written(boxes) == Pending(boxes) /\ unwatched' = unwatched \ boxes /\ UNCHANGED losses

\* Where the rows are written, or a job is marked in its row, a failure is logged
\* and the code goes on.
NotWritten(boxes) == Lose /\ Unwatch(boxes) /\ UNCHANGED log

-----------------------------------------------------------------------------
(* The routes, and stats jobs                                               *)

\* POST start: the status is read, a while before it is written.
Start(r) ==
    /\ req[r] = "idle" /\ Ask
    /\ status \notin {"completed", "aborted"}
    /\ Reach(r, "activate")
    /\ UNCHANGED <<campaign, queue, worker, dog, seen, restarts, throws, losses, unwatched>>

Activate(r) ==
    /\ req[r] = "activate"
    /\ status' = "active"
    /\ Reach(r, "log")
    /\ UNCHANGED <<leads, failures, queue, worker, dog, seen, counts, unwatched>>

\* POST resume, whatever the status was.
Resume(r) ==
    /\ req[r] = "idle" /\ Ask
    /\ status' = "active"
    /\ Reach(r, "log")
    /\ UNCHANGED <<leads, failures, queue, worker, dog, seen, restarts, throws, losses, unwatched>>

\* startCampaign: the rows first, then the jobs, then a stats update.
LogAll(r) ==
    /\ req[r] = "log"
    /\ \/ Written(Mailboxes) /\ Reach(r, "add")
       \/ NotWritten(Mailboxes) /\ Reach(r, "again")
    /\ UNCHANGED <<campaign, job, tries, worker, dog, seen, asked, restarts, throws>>

AddAll(r) ==
    /\ req[r] \in {"add", "again"}
    /\ AddKeys(Mailboxes)
    /\ Reach(r, "stats")
    /\ UNCHANGED <<campaign, log, worker, dog, seen, counts, unwatched>>

\* POST pause, whatever the status was; then pauseCampaign.
Pause(r) ==
    /\ req[r] = "idle" /\ Ask
    /\ status' = "paused"
    /\ Reach(r, "remove")
    /\ UNCHANGED <<leads, failures, queue, worker, dog, seen, restarts, throws, losses, unwatched>>

Abort(r) ==
    /\ req[r] = "idle" /\ Ask
    /\ status' = "aborted"
    /\ Reach(r, "leads")
    /\ UNCHANGED <<leads, failures, queue, worker, dog, seen, restarts, throws, losses, unwatched>>

AbortLeads(r) ==
    /\ req[r] = "leads"
    /\ leads' = 0
    /\ Reach(r, "remove")
    /\ UNCHANGED <<status, failures, queue, worker, dog, seen, counts, unwatched>>

\* The jobs that wait or run already stay.
RemoveDelayed(r) ==
    /\ req[r] = "remove"
    /\ Remove(Delayed)
    /\ Reach(r, "idle")
    /\ UNCHANGED <<campaign, log, worker, dog, seen, counts>>

\* processSendBatch adds one after a send, debounced.
StatsJob(r) ==
    /\ req[r] = "idle" /\ Ask
    /\ Reach(r, "stats")
    /\ UNCHANGED <<campaign, queue, worker, dog, seen, restarts, throws, losses, unwatched>>

StatsRead(r) ==
    /\ req[r] = "stats"
    /\ IF status \in {"aborted", "paused"}
       THEN Reach(r, "idle") /\ UNCHANGED seen
       ELSE Reach(r, "statsWrite") /\ seen' = [seen EXCEPT ![r] = failures]
    /\ UNCHANGED <<campaign, queue, worker, dog, counts, unwatched>>

\* It writes stats whole, with the failure count it has read.  Finding no lead
\* left in a campaign that was active, it goes on to complete it.
StatsWrite(r) ==
    /\ req[r] = "statsWrite"
    /\ failures' = seen[r]
    /\ \/ Reach(r, "idle")
       \/ leads = 0 /\ Reach(r, "complete")
    /\ seen' = [seen EXCEPT ![r] = 0]
    /\ UNCHANGED <<status, leads, queue, worker, dog, counts, unwatched>>

StatsComplete(r) ==
    /\ \/ /\ req[r] = "complete" /\ status' = "completed" /\ Reach(r, "clean")
          /\ UNCHANGED <<job, tries, unwatched>>
       \/ /\ req[r] = "clean" /\ Remove(Leftover) /\ Reach(r, "idle")
          /\ UNCHANGED status
    /\ UNCHANGED <<leads, failures, log, worker, dog, seen, counts>>

\* The bounce handler and the expiry of a trial write the status and no more.
AutoPause ==
    /\ status = "active" /\ Ask
    /\ status' = "paused"
    /\ UNCHANGED <<leads, failures, queue, worker, dog, api, restarts, throws, losses, unwatched>>

-----------------------------------------------------------------------------
(* processSendBatch                                                         *)

\* The delay of a job is over.  The five seconds of the watchdog's jobs outlast
\* the write that follows.
Promote(j) ==
    /\ job[j] = "delayed"
    /\ ~ (j = Key(Box(j)) /\ dog = <<"mark", Box(j)>>)
    /\ job' = [job EXCEPT ![j] = "waiting"]
    /\ UNCHANGED <<campaign, tries, log, worker, dog, api, counts, unwatched>>

\* Mutant of Take: only a row that waits for its job is marked.
TakePendingOnly(j) ==
    LET m == Box(j) IN
    /\ job[j] = "waiting"
    /\ job' = [job EXCEPT ![j] = "active"]
    /\ log' = [log EXCEPT ![m].status = IF @ = "pending" THEN "processing" ELSE @]
    /\ unwatched' = IF log[m].status = "none" THEN unwatched ELSE unwatched \ {m}
    /\ Goto(j, "check")
    /\ UNCHANGED <<campaign, tries, listener, boot, dog, api, counts>>

\* markJobProcessing is an update: it makes no row.
Take(j) ==
    LET m == Box(j) IN
    /\ job[j] = "waiting"
    /\ job' = [job EXCEPT ![j] = "active"]
    /\ \/ /\ log[m].status = "none"
          /\ UNCHANGED <<log, unwatched, losses>>
       \/ /\ log[m].status # "none"
          /\ log' = [log EXCEPT ![m].status = "processing"]
          /\ unwatched' = unwatched \ {m} /\ UNCHANGED losses
       \/ log[m].status # "none" /\ NotWritten({m})
    /\ Goto(j, "check")
    /\ UNCHANGED <<campaign, tries, listener, boot, dog, api, asked, restarts, throws>>

CheckActive(j) ==
    /\ pc[j] = "check"
    /\ Goto(j, IF status = "active" THEN "batch" ELSE "finish")
    /\ UNCHANGED <<campaign, queue, listener, boot, dog, api, counts, unwatched>>

\* A weekend, a paused mailbox, a spent budget, a pending reply, a cooldown, or
\* a batch that sent nothing: rescheduleSendBatch, the row before the job.
Reschedule(j) ==
    /\ pc[j] \in {"batch", "loop"}
    /\ \/ Written({Box(j)}) /\ Goto(j, "add")
       \/ NotWritten({Box(j)}) /\ Goto(j, "again")
    /\ UNCHANGED <<campaign, job, tries, listener, boot, dog, api, asked, restarts, throws>>

\* No lead is due, or they wait for routing: the job is re-added without a row.
NoneReady(j) ==
    /\ pc[j] = "batch" /\ leads > 0
    /\ Goto(j, "again")
    /\ UNCHANGED <<campaign, queue, listener, boot, dog, api, counts, unwatched>>

\* A lead is excluded, or fails for good.
GiveUpLead(j) ==
    /\ pc[j] \in {"batch", "loop"} /\ leads > 0
    /\ leads' = leads - 1
    /\ UNCHANGED <<status, failures, queue, worker, dog, api, counts, unwatched>>

Send(j) ==
    /\ pc[j] \in {"batch", "loop"} /\ leads > 0
    /\ leads' = leads - 1
    /\ failures' = 0
    /\ Goto(j, "readd")
    /\ UNCHANGED <<status, queue, listener, boot, dog, api, counts, unwatched>>

ReAdd(j) ==
    /\ pc[j] \in {"add", "again", "readd"}
    /\ AddKeys({Box(j)})
    /\ Goto(j, IF pc[j] = "readd" THEN "loop" ELSE "finish")
    /\ UNCHANGED <<campaign, log, listener, boot, dog, api, counts, unwatched>>

EndLoop(j) ==
    /\ pc[j] = "loop"
    /\ Goto(j, "finish")
    /\ UNCHANGED <<campaign, queue, listener, boot, dog, api, counts, unwatched>>

\* No lead is left, or none is ready and the campaign's duration is over: the status
\* is written whatever it is by now.
NoLeadLeft(j) ==
    /\ pc[j] = "batch"
    /\ Goto(j, "complete")
    /\ UNCHANGED <<campaign, queue, listener, boot, dog, api, counts, unwatched>>

Complete(j) ==
    /\ \/ /\ pc[j] = "complete" /\ status' = "completed" /\ Goto(j, "clean")
          /\ UNCHANGED <<job, tries, unwatched>>
       \/ /\ pc[j] = "clean" /\ Remove(Leftover) /\ Goto(j, "finish")
          /\ UNCHANGED status
    /\ UNCHANGED <<leads, failures, log, listener, boot, dog, api, counts>>

\* Mutant of Finish: the job is a repeatable one, as it used to be.
FinishRepeats(j) ==
    /\ pc[j] = "finish"
    /\ job' = [job EXCEPT ![j] = "delayed"]
    /\ tries' = [tries EXCEPT ![j] = 0]
    /\ Goto(j, "idle")
    /\ UNCHANGED <<campaign, log, listener, boot, dog, api, counts, unwatched>>

\* removeOnComplete.
Finish(j) ==
    /\ pc[j] = "finish"
    /\ job' = [job EXCEPT ![j] = "none"]
    /\ tries' = [tries EXCEPT ![j] = 0]
    /\ Goto(j, "idle")
    /\ UNCHANGED <<campaign, log, listener, boot, dog, api, counts, unwatched>>

\* A query throws outside the per-lead try: BullMQ retries, or keeps the failed
\* job under its id; either way the listener runs.
Throw(j) ==
    /\ pc[j] \in {"check", "batch", "loop", "complete", "clean"} /\ throws < MaxThrows
    /\ listener[j] = "idle"
    /\ throws' = throws + 1
    /\ tries' = [tries EXCEPT ![j] = @ + 1]
    /\ job' = [job EXCEPT ![j] = IF tries[j] + 1 < Attempts THEN "delayed" ELSE "failed"]
    /\ Goto(j, "idle")
    /\ listener' = [listener EXCEPT ![j] = "count"]
    /\ UNCHANGED <<campaign, log, boot, dog, api, asked, restarts, losses, unwatched>>

-----------------------------------------------------------------------------
(* The 'failed' listener                                                    *)

Hear(j, s) == listener' = [listener EXCEPT ![j] = s]

\* handleCampaignFailure: the increment is atomic.
CountFailure(j) ==
    /\ listener[j] = "count"
    /\ failures' = IF failures < Breaker THEN failures + 1 ELSE failures
    /\ Hear(j, IF failures' = Breaker THEN "remove" ELSE "check")
    /\ UNCHANGED <<status, leads, queue, pc, boot, dog, api, counts, unwatched>>

TripRemove(j) ==
    /\ listener[j] = "remove"
    /\ Remove(Delayed)
    /\ Hear(j, "pause")
    /\ UNCHANGED <<campaign, log, pc, boot, dog, api, counts>>

TripPause(j) ==
    /\ listener[j] = "pause"
    /\ status' = "paused"
    /\ Hear(j, "check")
    /\ UNCHANGED <<leads, failures, queue, pc, boot, dog, api, counts, unwatched>>

\* A job that failed for good goes with a campaign that is over.
CheckOver(j) ==
    /\ listener[j] = "check"
    /\ IF job[j] = "failed" /\ status \in {"completed", "aborted"}
       THEN Remove({j})
       ELSE UNCHANGED <<job, tries, unwatched>>
    /\ Hear(j, "idle")
    /\ UNCHANGED <<campaign, log, pc, boot, dog, api, counts>>

-----------------------------------------------------------------------------
(* Restarts and losses                                                      *)

\* The worker restarts.  Its jobs stay active until they are found stalled.
Restart ==
    /\ restarts < MaxRestarts /\ boot = "done"
    /\ restarts' = restarts + 1
    /\ pc' = [j \in Jobs |-> IF pc[j] = "idle" THEN "idle" ELSE "dead"]
    /\ listener' = [j \in Jobs |-> "idle"]
    /\ boot' = "read"
    /\ UNCHANGED <<campaign, queue, dog, api, asked, throws, losses, unwatched>>

Stalled(j) ==
    /\ pc[j] = "dead"
    /\ job' = [job EXCEPT ![j] = "waiting"]
    /\ Goto(j, "idle")
    /\ UNCHANGED <<campaign, tries, log, listener, boot, dog, api, counts, unwatched>>

\* Auto-resume: one more job for every mailbox of an active campaign.
BootRead ==
    /\ boot = "read"
    /\ boot' = IF status = "active" THEN "add" ELSE "done"
    /\ UNCHANGED <<campaign, queue, pc, listener, dog, api, counts, unwatched>>

BootAdd ==
    /\ boot = "add"
    /\ job' = [j \in Jobs |-> IF j[2] = restarts THEN "delayed" ELSE job[j]]
    /\ boot' = "done"
    /\ UNCHANGED <<campaign, tries, log, pc, listener, dog, api, counts, unwatched>>

\* Redis comes back without a job, or has failed to add it, which the callers of
\* add swallow.
JobLost(j) ==
    /\ job[j] \in {"delayed", "waiting"} /\ Lose
    /\ Remove({j})
    /\ UNCHANGED <<campaign, log, worker, dog, api, asked, restarts, throws>>

\* An API process dies in a request, maybe before it has written the rows.
RequestDies(r) ==
    /\ req[r] # "idle" /\ Lose
    /\ Reach(r, "idle")
    /\ seen' = [seen EXCEPT ![r] = 0]
    /\ Unwatch(IF req[r] = "log" THEN Mailboxes ELSE {})
    /\ UNCHANGED <<campaign, queue, worker, dog, asked, restarts, throws>>

-----------------------------------------------------------------------------
(* The watchdog                                                             *)

\* The row is an hour past its scheduledAt, so whoever wrote it has long added the
\* job.
Old(m) ==
    /\ \A r \in Handlers : req[r] # "add"
    /\ \A j \in Jobs : Box(j) = m => pc[j] # "add"

\* Mutant of Overdue: a row that reads 'processing' is taken for a running job.
OverduePendingOnly(m) == log[m].status = "pending" /\ Swept(m) /\ Old(m)

Overdue(m) == Swept(m) /\ Old(m)

\* The row of an inactive campaign will be skipped.  A waiting job may pass for a
\* missing one: a job with a priority is in a state the sweep does not list.
Sweep(m) ==
    LET k == Key(m) IN
    /\ dog[1] = "idle" /\ Overdue(m)
    /\ \/ /\ status # "active"
          /\ dog' = <<"skip", m>> /\ UNCHANGED log
       \/ /\ status = "active" /\ job[k] \in {"none", "waiting"}
          /\ dog' = <<"add", m>> /\ UNCHANGED log
       \/ /\ status = "active" /\ job[k] = "failed"
          /\ log' = [log EXCEPT ![m].status = "failed"] /\ UNCHANGED dog
    /\ UNCHANGED <<campaign, job, tries, worker, api, counts, unwatched>>

\* By now the campaign may have been resumed: the job it was given is then the
\* only one to mend the row, when it runs.
SweepSkips(m) ==
    /\ dog = <<"skip", m>>
    /\ log' = [log EXCEPT ![m].status = "skipped"]
    /\ unwatched' = IF status = "active" THEN unwatched \cup {m} ELSE unwatched
    /\ dog' = <<"idle", m>>
    /\ UNCHANGED <<campaign, job, tries, worker, api, counts>>

SweepAdds(m) ==
    /\ dog = <<"add", m>>
    /\ AddKeys({m})
    /\ dog' = <<"mark", m>>
    /\ UNCHANGED <<campaign, log, worker, api, counts, unwatched>>

\* Where the add was ignored for a job that is running or done by now, the row
\* promises a job that no one will miss.
SweepMarks(m) ==
    /\ dog = <<"mark", m>>
    /\ log' = [log EXCEPT ![m].status = "re_queued", ![m].requeued = @ + 1]
    /\ unwatched' = IF job[Key(m)] \in {"delayed", "waiting"} THEN unwatched
                                                             ELSE unwatched \cup {m}
    /\ dog' = <<"idle", m>>
    /\ UNCHANGED <<campaign, job, tries, worker, api, counts>>

\* A write or the add fails: the row is left as it is until the next sweep.
SweepFails(m) ==
    /\ dog[1] # "idle" /\ dog[2] = m /\ Lose
    /\ dog' = <<"idle", m>>
    /\ unwatched' = IF Swept(m) THEN unwatched \ {m} ELSE unwatched
    /\ UNCHANGED <<campaign, queue, worker, api, asked, restarts, throws>>

-----------------------------------------------------------------------------
HandlerStep(r) ==
    \/ Activate(r) \/ LogAll(r) \/ AddAll(r) \/ AbortLeads(r) \/ RemoveDelayed(r)
    \/ StatsRead(r) \/ StatsWrite(r) \/ StatsComplete(r)

Asks(r) == Start(r) \/ Resume(r) \/ Pause(r) \/ Abort(r) \/ StatsJob(r)

BatchStep(j) ==
    \/ CheckActive(j) \/ Reschedule(j) \/ NoneReady(j) \/ GiveUpLead(j) \/ Send(j)
    \/ ReAdd(j) \/ EndLoop(j) \/ NoLeadLeft(j) \/ Complete(j) \/ Finish(j)

ListenerStep(j) == CountFailure(j) \/ TripRemove(j) \/ TripPause(j) \/ CheckOver(j)

DogStep(m) == Sweep(m) \/ SweepSkips(m) \/ SweepAdds(m) \/ SweepMarks(m)

Next ==
    \/ \E r \in Handlers : Asks(r) \/ HandlerStep(r) \/ RequestDies(r)
    \/ \E j \in Jobs : Promote(j) \/ Take(j) \/ BatchStep(j) \/ Throw(j)
    \/ \E j \in Jobs : ListenerStep(j) \/ Stalled(j) \/ JobLost(j)
    \/ \E m \in Mailboxes : DogStep(m) \/ SweepFails(m)
    \/ AutoPause \/ Restart \/ BootRead \/ BootAdd

Spec == Init /\ [][Next]_vars

\* Node goes on with what it awaits, BullMQ promotes, hands out and recovers jobs,
\* time passes and the watchdog sweeps.  Nothing is assumed of users or faults.
FairSpec ==
    /\ Spec
    /\ \A r \in Handlers : WF_vars(HandlerStep(r))
    /\ \A j \in Jobs :
          /\ WF_vars(Promote(j)) /\ WF_vars(Take(j)) /\ WF_vars(Stalled(j))
          /\ WF_vars(BatchStep(j)) /\ WF_vars(ListenerStep(j))
    /\ \A m \in Mailboxes : WF_vars(DogStep(m))
    /\ WF_vars(BootRead) /\ WF_vars(BootAdd)

-----------------------------------------------------------------------------
(* Properties                                                               *)

\* The watchdog has nothing to offer the mailbox: it has re-queued its row as often
\* as it will, its id belongs to a failed job, or a loss, a write that failed, a
\* late write of the sweep or an ignored add hit where no row is looked at.
Exhausted(m) ==
    log[m].requeued = MaxRequeues \/ job[Key(m)] = "failed" \/ m \in unwatched

\* A mailbox of an active campaign that has no job has a row the watchdog selects,
\* whatever pauses, resumes, restarts, losses and failed writes it has been
\* through, but for those reasons.
Recoverable ==
    \A m \in Mailboxes :
        /\ status = "active"
        /\ \A r \in Handlers : req[r] # "log"
        /\ \A j \in Jobs : Box(j) = m => ~ Live(j)
        => Swept(m) \/ Exhausted(m)

\* And so a mailbox's chain comes back, again and again, unless the watchdog has
\* nothing to offer it.
Revives ==
    \A m \in Mailboxes :
        []<>(status # "active" \/ Exhausted(m) \/ \E j \in Jobs : Box(j) = m /\ job[j] = "active")

\* Once a campaign has stopped for good its queue drains: no job outlives it but
\* those that failed.
Drains ==
    <>[](status # "active") => <>[](\A j \in Jobs : ~ Live(j))

\* campaign-queue.ts:917 re-adds a send-batch job "so the chain never breaks":
\* a batch that reschedules its mailbox leaves it a job.
ChainUnbroken ==
    [][\A j \in Jobs : pc[j] \in {"add", "again"} /\ pc'[j] = "finish"
          => \E k \in Jobs \ {j} : Box(k) = Box(j) /\ Live(k)']_vars

=============================================================================
