---------------------------- MODULE Chain_proofs ----------------------------
(* Theorems about Chain: types, and that a mailbox whose chain has ended is *)
(* still on the watchdog's list.                                            *)
EXTENDS Chain, TLAPS

\* A job has attempts left until it has failed; one that is gone starts anew.
TriesInv ==
    \A j \in Jobs :
        /\ Live(j) => tries[j] < Attempts
        /\ job[j] = "none" => tries[j] = 0

\* The anonymous jobs of restarts to come are not there yet.
BootInv ==
    /\ \A j \in Jobs : j[2] > restarts => job[j] = "none"
    /\ boot # "done" => restarts > 0 /\ \A j \in Jobs : j[2] = restarts => job[j] = "none"

\* The sweep goes on with a row it may re-queue.
DogInv == dog[1] \in {"add", "mark"} => log[dog[2]].requeued < MaxRequeues

\* What a row that is not looked at says of its mailbox: the campaign is not
\* active, or about to write the row; the job has failed; or it is on its way.
RowsInv ==
    \A m \in Mailboxes \ unwatched :
        /\ log[m].status \in {"none", "skipped"} =>
               status # "active" \/ \E r \in Handlers : req[r] = "log"
        /\ log[m].status = "failed" => job[Key(m)] = "failed"
        /\ log[m].status = "re_queued" => job[Key(m)] \in {"delayed", "waiting"}

ChainInv == ChainTypeOK /\ TriesInv /\ BootInv /\ DogInv /\ RowsInv

LEMMA KeyIsJob == \A m \in Mailboxes : Key(m) \in Jobs /\ Box(Key(m)) = m
BY ChainConstants DEF Key, Jobs, Box

LEMMA BoxIsMailbox == \A j \in Jobs : Box(j) \in Mailboxes /\ j[2] \in Nat
BY ChainConstants DEF Jobs, Box

\* What AddKeys and Remove do to one job.
LEMMA AddedKeys ==
    ASSUME ChainTypeOK, NEW boxes \in SUBSET Mailboxes, AddKeys(boxes)
    PROVE  /\ job' \in [Jobs -> JobStates] /\ tries' \in [Jobs -> 0 .. Attempts]
           /\ \A j \in Jobs : \/ job'[j] = job[j] /\ tries'[j] = tries[j]
                              \/ /\ job[j] = "none" /\ job'[j] = "delayed" /\ tries'[j] = 0
                                 /\ \E m \in boxes : j = Key(m)
<1> DEFINE new == {Key(m) : m \in {n \in boxes : job[Key(n)] = "none"}}
<1>1. job' = [j \in Jobs |-> IF j \in new THEN "delayed" ELSE job[j]]
  BY DEF AddKeys
<1>2. tries' = [j \in Jobs |-> IF j \in new THEN 0 ELSE tries[j]]
  BY DEF AddKeys
<1>3. \A j \in new : job[j] = "none" /\ \E m \in boxes : j = Key(m)
  OBVIOUS
<1> HIDE DEF new
<1> QED BY <1>1, <1>2, <1>3, ChainConstants DEF ChainTypeOK, JobStates

LEMMA Removed ==
    ASSUME ChainTypeOK, NEW gone \in SUBSET Jobs, Remove(gone)
    PROVE  /\ job' \in [Jobs -> JobStates] /\ tries' \in [Jobs -> 0 .. Attempts]
           /\ \A j \in Jobs : \/ job'[j] = job[j] /\ tries'[j] = tries[j]
                              \/ /\ j \in gone /\ job'[j] = "none" /\ tries'[j] = 0
           /\ \A m \in Mailboxes \ unwatched' :
                  /\ m \notin unwatched
                  /\ Key(m) \in gone => Watched(m)
           /\ unwatched' \subseteq Mailboxes
<1>1. unwatched' = unwatched \cup {m \in {Box(j) : j \in gone} : ~ Watched(m)}
  BY DEF Remove, Unwatch
<1>2. unwatched \subseteq unwatched' /\ unwatched' \subseteq Mailboxes
  BY <1>1, BoxIsMailbox DEF ChainTypeOK
<1>3. \A m \in Mailboxes : ~ Watched(m) /\ Key(m) \in gone => m \in unwatched'
  BY <1>1, KeyIsJob
<1>4. /\ job' = [j \in Jobs |-> IF j \in gone THEN "none" ELSE job[j]]
      /\ tries' = [j \in Jobs |-> IF j \in gone THEN 0 ELSE tries[j]]
  BY DEF Remove
<1> QED BY <1>2, <1>3, <1>4, ChainConstants DEF ChainTypeOK, JobStates

LEMMA PendingRows ==
    ASSUME ChainTypeOK, NEW boxes \in SUBSET Mailboxes, Pending(boxes)
    PROVE  /\ log' \in [Mailboxes -> [status : LogStatuses, requeued : 0 .. MaxRequeues]]
           /\ \A m \in Mailboxes : log'[m].requeued = log[m].requeued
           /\ \A m \in Mailboxes \ boxes : log'[m] = log[m]
           /\ \A m \in boxes : log'[m].status = "pending"
BY DEF ChainTypeOK, Pending, LogStatuses

\* Rows are written, or stay as they are where that fails: a row of those that is
\* not selected by the watchdog is then known.
LEMMA WriteRows ==
    ASSUME ChainTypeOK, NEW boxes \in SUBSET Mailboxes, Written(boxes) \/ NotWritten(boxes)
    PROVE  /\ log' \in [Mailboxes -> [status : LogStatuses, requeued : 0 .. MaxRequeues]]
           /\ \A m \in Mailboxes : log'[m].requeued = log[m].requeued
           /\ losses' \in 0 .. MaxLosses /\ unwatched' \subseteq Mailboxes
           /\ \A m \in Mailboxes \ unwatched' :
                  \/ log'[m].status \in {"pending", "processing"}
                  \/ m \notin unwatched /\ m \notin boxes /\ log'[m] = log[m]
<1>1. CASE Written(boxes)
  BY <1>1, PendingRows DEF Written, ChainTypeOK
<1>2. CASE NotWritten(boxes)
  <2>1. /\ UNCHANGED log /\ losses < MaxLosses /\ losses' = losses + 1
        /\ unwatched' = unwatched \cup {m \in boxes : ~ Watched(m)}
    BY <1>2 DEF NotWritten, Lose, Unwatch
  <2>2. \A m \in boxes \ unwatched' : log[m].status \in {"pending", "processing"}
    BY <2>1 DEF Watched, Swept
  <2> QED BY <2>1, <2>2, ChainConstants DEF ChainTypeOK
<1> QED BY <1>1, <1>2

\* Likewise for the row a job marks.
LEMMA TakeRow ==
    ASSUME ChainTypeOK, NEW j \in Jobs, Take(j)
    PROVE  /\ log' \in [Mailboxes -> [status : LogStatuses, requeued : 0 .. MaxRequeues]]
           /\ \A m \in Mailboxes : log'[m].requeued = log[m].requeued
           /\ losses' \in 0 .. MaxLosses /\ unwatched' \subseteq Mailboxes
           /\ \A m \in Mailboxes \ unwatched' :
                  \/ log'[m].status \in {"pending", "processing"}
                  \/ /\ m \notin unwatched /\ log'[m] = log[m]
                     /\ m = Box(j) => log[m].status = "none"
<1> DEFINE n == Box(j)
<1>1. n \in Mailboxes
  BY BoxIsMailbox
<1> HIDE DEF n
<1>2. \/ log[n].status = "none" /\ UNCHANGED <<log, unwatched, losses>>
      \/ /\ log' = [log EXCEPT ![n].status = "processing"]
         /\ unwatched' = unwatched \ {n} /\ UNCHANGED losses
      \/ NotWritten({n})
  BY DEF Take, n
<1>3. CASE NotWritten({n})
  BY <1>1, <1>3, WriteRows DEF n
<1>4. CASE log[n].status = "none" /\ UNCHANGED <<log, unwatched, losses>>
  BY <1>4 DEF ChainTypeOK, n
<1>5. CASE /\ log' = [log EXCEPT ![n].status = "processing"]
           /\ unwatched' = unwatched \ {n} /\ UNCHANGED losses
  BY <1>1, <1>5 DEF ChainTypeOK, LogStatuses, n
<1> QED BY <1>2, <1>3, <1>4, <1>5

LEMMA LeftoverJobs == Leftover \subseteq Jobs /\ \A j \in Leftover : job[j] \in {"delayed", "failed"}
BY DEF Leftover, Delayed

LEMMA TypeStep == ChainInv /\ [Next]_vars => ChainTypeOK'
<1> SUFFICES ASSUME ChainInv, [Next]_vars PROVE ChainTypeOK'
  OBVIOUS
<1> USE ChainConstants, KeyIsJob, BoxIsMailbox
<1>0. ChainTypeOK /\ TriesInv /\ DogInv
  BY DEF ChainInv
<1> USE <1>0 DEF ChainTypeOK, Ask, Reach, Goto, Hear, Lose, Statuses, JobStates,
                 LogStatuses, PCs, campaign, queue, worker, api, counts
<1>1. ASSUME NEW r \in Handlers, Asks(r) PROVE ChainTypeOK'
  BY <1>1 DEF Asks, Start, Resume, Pause, Abort, StatsJob
<1>2. ASSUME NEW r \in Handlers, HandlerStep(r) PROVE ChainTypeOK'
  <2>1. CASE AddAll(r)
    <3>1. \A j \in Jobs : job[j] = "active" => job'[j] = "active"
      BY <2>1, AddedKeys DEF AddAll
    <3> QED BY <2>1, <3>1, AddedKeys DEF AddAll
  <2>2. CASE RemoveDelayed(r)
    BY <2>2, Removed DEF RemoveDelayed, Delayed
  <2>3. CASE StatsComplete(r)
    <3>1. CASE req[r] = "clean"
      <4>1. \A j \in Leftover : job[j] # "active"
        BY DEF Leftover, Delayed
      <4> QED BY <2>3, <3>1, <4>1, Removed, LeftoverJobs DEF StatsComplete
    <3>2. CASE req[r] = "complete"
      BY <2>3, <3>2 DEF StatsComplete
    <3> QED BY <2>3, <3>1, <3>2 DEF StatsComplete
  <2>4. CASE Activate(r)
    BY <2>4 DEF Activate
  <2>5. CASE LogAll(r)
    <3>1. Written(Mailboxes) \/ NotWritten(Mailboxes)
      BY <2>5 DEF LogAll
    <3>2. Mailboxes \in SUBSET Mailboxes
      OBVIOUS
    <3>3. /\ req' \in [Handlers -> {"idle", "activate", "log", "add", "again", "remove", "leads",
                                    "stats", "statsWrite", "complete", "clean"}]
          /\ UNCHANGED <<campaign, job, tries, worker, dog, seen, asked, restarts, throws>>
      BY <2>5 DEF LogAll
    <3> QED BY <3>3, <3>1, <3>2, WriteRows
  <2>6. CASE AbortLeads(r)
    BY <2>6 DEF AbortLeads
  <2>7. CASE StatsRead(r)
    <3>1. CASE status \in {"aborted", "paused"}
      BY <2>7, <3>1 DEF StatsRead
    <3>2. CASE status \notin {"aborted", "paused"}
      <4>1. /\ req' = [req EXCEPT ![r] = "statsWrite"] /\ seen' = [seen EXCEPT ![r] = failures]
            /\ UNCHANGED <<campaign, queue, worker, dog, counts, unwatched>>
        BY <2>7, <3>2 DEF StatsRead
      <4> QED BY <4>1
    <3> QED BY <3>1, <3>2
  <2>8. CASE StatsWrite(r)
    <3>1. /\ seen' = [seen EXCEPT ![r] = 0] /\ failures' = seen[r]
          /\ \E s \in {"idle", "complete"} : req' = [req EXCEPT ![r] = s]
          /\ UNCHANGED <<status, leads, queue, worker, dog, counts, unwatched>>
      BY <2>8 DEF StatsWrite
    <3>2. /\ seen' \in [Handlers -> 0 .. Breaker] /\ failures' \in 0 .. Breaker
          /\ req' \in [Handlers -> {"idle", "activate", "log", "add", "again", "remove", "leads",
                                    "stats", "statsWrite", "complete", "clean"}]
      BY <3>1
    <3> QED BY <3>1, <3>2
  <2> QED BY <1>2, <2>1, <2>2, <2>3, <2>4, <2>5, <2>6, <2>7, <2>8 DEF HandlerStep
<1>3. ASSUME NEW r \in Handlers, RequestDies(r) PROVE ChainTypeOK'
  BY <1>3 DEF RequestDies, Unwatch
<1>4. ASSUME NEW j \in Jobs, Promote(j) \/ Take(j) \/ Stalled(j) PROVE ChainTypeOK'
  <2>1. CASE Promote(j)
    BY <2>1 DEF Promote
  <2>2. CASE Take(j)
    <3>1. /\ log' \in [Mailboxes -> [status : LogStatuses, requeued : 0 .. MaxRequeues]]
          /\ losses' \in 0 .. MaxLosses /\ unwatched' \subseteq Mailboxes
      BY <2>2, TakeRow
    <3>2. /\ job' \in [Jobs -> JobStates] /\ pc' \in [Jobs -> PCs]
          /\ \A k \in Jobs : pc'[k] # "idle" => job'[k] = "active"
          /\ UNCHANGED <<campaign, tries, listener, boot, dog, api, asked, restarts, throws>>
      BY <2>2 DEF Take
    <3> QED BY <3>1, <3>2
  <2>3. CASE Stalled(j)
    BY <2>3 DEF Stalled
  <2> QED BY <1>4, <2>1, <2>2, <2>3
<1>5. ASSUME NEW j \in Jobs, BatchStep(j) PROVE ChainTypeOK'
  <2>1. CASE ReAdd(j)
    <3>1. \A k \in Jobs : job[k] = "active" => job'[k] = "active"
      BY <2>1, AddedKeys DEF ReAdd
    <3> QED BY <2>1, <3>1, AddedKeys DEF ReAdd
  <2>2. CASE Complete(j)
    <3>1. pc' \in [Jobs -> PCs] /\ \A k \in Jobs : pc'[k] # "idle" => job[k] = "active"
      BY <2>2 DEF Complete
    <3>2. CASE pc[j] = "clean"
      <4>1. \A k \in Leftover : job[k] # "active"
        BY DEF Leftover, Delayed
      <4>2. Remove(Leftover) /\ UNCHANGED status
        BY <2>2, <3>2 DEF Complete
      <4> QED BY <2>2, <3>1, <4>1, <4>2, Removed, LeftoverJobs DEF Complete
    <3>3. CASE pc[j] = "complete"
      <4>1. status' = "completed" /\ UNCHANGED <<job, tries, unwatched>>
        BY <2>2, <3>3 DEF Complete
      <4> QED BY <2>2, <3>1, <4>1 DEF Complete
    <3> QED BY <2>2, <3>2, <3>3 DEF Complete
  <2>3. CASE Finish(j)
    BY <2>3 DEF Finish
  <2>4. CASE CheckActive(j) \/ NoneReady(j)
    BY <2>4 DEF CheckActive, NoneReady
  <2>5. CASE Reschedule(j)
    <3>1. Written({Box(j)}) \/ NotWritten({Box(j)})
      BY <2>5 DEF Reschedule
    <3>2. {Box(j)} \in SUBSET Mailboxes
      OBVIOUS
    <3>3. /\ pc[j] \in {"batch", "loop"}
          /\ pc' = [pc EXCEPT ![j] = "add"] \/ pc' = [pc EXCEPT ![j] = "again"]
          /\ UNCHANGED <<campaign, job, tries, listener, boot, dog, api, asked, restarts, throws>>
      BY <2>5 DEF Reschedule
    <3>4. pc' \in [Jobs -> PCs] /\ \A k \in Jobs : pc'[k] # "idle" => job[k] = "active"
      BY <3>3
    <3> QED BY <3>1, <3>2, <3>3, <3>4, WriteRows
  <2>6. CASE GiveUpLead(j) \/ Send(j)
    BY <2>6 DEF GiveUpLead, Send
  <2>7. CASE EndLoop(j) \/ NoLeadLeft(j)
    BY <2>7 DEF EndLoop, NoLeadLeft
  <2> QED BY <1>5, <2>1, <2>2, <2>3, <2>4, <2>5, <2>6, <2>7 DEF BatchStep
<1>6. ASSUME NEW j \in Jobs, Throw(j) PROVE ChainTypeOK'
  BY <1>6 DEF Throw, TriesInv, Live
<1>7. ASSUME NEW j \in Jobs, ListenerStep(j) PROVE ChainTypeOK'
  <2>1. CASE CountFailure(j)
    BY <2>1 DEF CountFailure
  <2>4. CASE TripPause(j)
    BY <2>4 DEF TripPause
  <2>2. CASE TripRemove(j)
    BY <2>2, Removed DEF TripRemove, Delayed
  <2>3. CASE CheckOver(j)
    BY <2>3, Removed DEF CheckOver
  <2> QED BY <1>7, <2>1, <2>2, <2>3, <2>4 DEF ListenerStep
<1>8. ASSUME NEW j \in Jobs, JobLost(j) PROVE ChainTypeOK'
  BY <1>8, Removed DEF JobLost
<1>9. ASSUME NEW m \in Mailboxes, DogStep(m) PROVE ChainTypeOK'
  <2>1. CASE Sweep(m)
    <3>1. CASE UNCHANGED log
      BY <2>1, <3>1 DEF Sweep
    <3>2. CASE log' = [log EXCEPT ![m].status = "failed"] /\ UNCHANGED dog
      BY <2>1, <3>2 DEF Sweep
    <3> QED BY <2>1, <3>1, <3>2 DEF Sweep
  <2>2. CASE SweepSkips(m)
    BY <2>2 DEF SweepSkips
  <2>3. CASE SweepAdds(m)
    <3>1. /\ AddKeys({m}) /\ {m} \in SUBSET Mailboxes
          /\ dog' = <<"mark", m>>
          /\ UNCHANGED <<campaign, log, worker, api, counts, unwatched>>
      BY <2>3 DEF SweepAdds
    <3>2. /\ job' \in [Jobs -> JobStates] /\ tries' \in [Jobs -> 0 .. Attempts]
          /\ \A k \in Jobs : job[k] = "active" => job'[k] = "active"
      BY <3>1, AddedKeys
    <3>3. dog' \in {"idle", "skip", "add", "mark"} \X Mailboxes
      BY <3>1
    <3> QED BY <3>1, <3>2, <3>3
  <2>4. CASE SweepMarks(m)
    BY <2>4 DEF SweepMarks, DogInv
  <2> QED BY <1>9, <2>1, <2>2, <2>3, <2>4 DEF DogStep
<1>10. CASE AutoPause
  BY <1>10 DEF AutoPause
<1>11. CASE Restart
  BY <1>11 DEF Restart
<1>12. CASE BootRead
  BY <1>12 DEF BootRead
<1>13. CASE BootAdd
  BY <1>13 DEF BootAdd, BootInv, ChainInv
<1>14. CASE UNCHANGED vars
  BY <1>14 DEF vars
<1>15. ASSUME NEW m \in Mailboxes, SweepFails(m) PROVE ChainTypeOK'
  BY <1>15 DEF SweepFails
<1> QED BY <1>1, <1>2, <1>3, <1>4, <1>5, <1>6, <1>7, <1>8, <1>9, <1>10, <1>11, <1>12, <1>13,
           <1>14, <1>15 DEF Next

\* A step that adds keys, or removes jobs, and leaves restarts alone.
LEMMA AddKeepsJobs ==
    ASSUME ChainInv, NEW boxes \in SUBSET Mailboxes, AddKeys(boxes), UNCHANGED <<boot, restarts>>
    PROVE  TriesInv' /\ BootInv'
<1>1. \A m \in Mailboxes : Key(m)[2] = 0
  BY DEF Key
<1>2. ChainTypeOK
  BY DEF ChainInv
<1> QED BY <1>1, <1>2, AddedKeys, BoxIsMailbox, ChainConstants
        DEF ChainInv, ChainTypeOK, TriesInv, BootInv, Live, JobStates

LEMMA RemoveKeepsJobs ==
    ASSUME ChainInv, NEW gone \in SUBSET Jobs, Remove(gone), UNCHANGED <<boot, restarts>>
    PROVE  TriesInv' /\ BootInv'
BY Removed, BoxIsMailbox, ChainConstants
   DEF ChainInv, ChainTypeOK, TriesInv, BootInv, Live, JobStates

LEMMA JobsStep == ChainInv /\ [Next]_vars => TriesInv' /\ BootInv'
<1> SUFFICES ASSUME ChainInv, [Next]_vars PROVE TriesInv' /\ BootInv'
  OBVIOUS
<1> USE ChainConstants, KeyIsJob, BoxIsMailbox
<1>0. ChainTypeOK /\ TriesInv /\ BootInv
  BY DEF ChainInv
<1>a. ASSUME UNCHANGED <<job, tries, boot, restarts>> PROVE TriesInv' /\ BootInv'
  BY <1>0, <1>a DEF TriesInv, BootInv, Live
<1> USE DEF Goto, Hear, campaign, queue, worker, api, counts
<1>1. ASSUME NEW r \in Handlers, Asks(r) \/ RequestDies(r) PROVE TriesInv' /\ BootInv'
  BY <1>1, <1>a DEF Asks, Start, Resume, Pause, Abort, StatsJob, RequestDies
<1>2. ASSUME NEW r \in Handlers, HandlerStep(r) PROVE TriesInv' /\ BootInv'
  <2>1. CASE AddAll(r)
    BY <2>1, AddKeepsJobs DEF AddAll
  <2>2. CASE RemoveDelayed(r)
    BY <2>2, RemoveKeepsJobs DEF RemoveDelayed, Delayed
  <2>3. CASE StatsComplete(r)
    BY <2>3, RemoveKeepsJobs, LeftoverJobs, <1>a DEF StatsComplete
  <2>4. CASE Activate(r) \/ LogAll(r) \/ AbortLeads(r) \/ StatsRead(r) \/ StatsWrite(r)
    BY <2>4, <1>a DEF Activate, LogAll, AbortLeads, StatsRead, StatsWrite
  <2> QED BY <1>2, <2>1, <2>2, <2>3, <2>4 DEF HandlerStep
<1>4. ASSUME NEW j \in Jobs, Promote(j) \/ Take(j) \/ Stalled(j) PROVE TriesInv' /\ BootInv'
  <2>1. /\ job[j] \in {"delayed", "waiting", "active"}
        /\ \E s \in {"waiting", "active"} : job' = [job EXCEPT ![j] = s]
        /\ UNCHANGED <<tries, boot, restarts>>
    BY <1>0, <1>4 DEF Promote, Take, Stalled, ChainTypeOK
  <2> QED BY <1>0, <2>1 DEF ChainTypeOK, TriesInv, BootInv, Live
<1>5. ASSUME NEW j \in Jobs, BatchStep(j) PROVE TriesInv' /\ BootInv'
  <2>1. CASE ReAdd(j)
    BY <2>1, AddKeepsJobs DEF ReAdd
  <2>2. CASE Complete(j)
    BY <2>2, RemoveKeepsJobs, LeftoverJobs, <1>a DEF Complete
  <2>3. CASE Finish(j)
    BY <1>0, <2>3 DEF Finish, ChainTypeOK, TriesInv, BootInv, Live
  <2>4. CASE \/ CheckActive(j) \/ NoneReady(j) \/ Reschedule(j) \/ GiveUpLead(j) \/ Send(j)
             \/ EndLoop(j) \/ NoLeadLeft(j)
    BY <2>4, <1>a DEF CheckActive, NoneReady, Reschedule, GiveUpLead, Send, EndLoop, NoLeadLeft
  <2> QED BY <1>5, <2>1, <2>2, <2>3, <2>4 DEF BatchStep
<1>6. ASSUME NEW j \in Jobs, Throw(j) PROVE TriesInv' /\ BootInv'
  <2>1. job[j] = "active" /\ tries[j] < Attempts
    BY <1>0, <1>6 DEF Throw, ChainTypeOK, TriesInv, Live
  <2> QED BY <1>0, <1>6, <2>1 DEF Throw, ChainTypeOK, TriesInv, BootInv, Live
<1>7. ASSUME NEW j \in Jobs, ListenerStep(j) PROVE TriesInv' /\ BootInv'
  <2>1. CASE CountFailure(j) \/ TripPause(j)
    BY <2>1, <1>a DEF CountFailure, TripPause
  <2>2. CASE TripRemove(j)
    BY <2>2, RemoveKeepsJobs DEF TripRemove, Delayed
  <2>3. CASE CheckOver(j)
    BY <2>3, RemoveKeepsJobs, <1>a DEF CheckOver
  <2> QED BY <1>7, <2>1, <2>2, <2>3 DEF ListenerStep
<1>8. ASSUME NEW j \in Jobs, JobLost(j) PROVE TriesInv' /\ BootInv'
  BY <1>8, RemoveKeepsJobs DEF JobLost
<1>9. ASSUME NEW m \in Mailboxes, DogStep(m) PROVE TriesInv' /\ BootInv'
  BY <1>9, AddKeepsJobs, <1>a DEF DogStep, Sweep, SweepSkips, SweepAdds, SweepMarks
<1>10. CASE AutoPause
  BY <1>10, <1>a DEF AutoPause
<1>11. CASE Restart
  BY <1>0, <1>11 DEF Restart, ChainTypeOK, TriesInv, BootInv, Live
<1>12. CASE BootRead
  BY <1>0, <1>12 DEF BootRead, ChainTypeOK, TriesInv, BootInv, Live
<1>13. CASE BootAdd
  BY <1>0, <1>13 DEF BootAdd, ChainTypeOK, TriesInv, BootInv, Live
<1>14. CASE UNCHANGED vars
  BY <1>14, <1>a DEF vars
<1>15. ASSUME NEW m \in Mailboxes, SweepFails(m) PROVE TriesInv' /\ BootInv'
  BY <1>15, <1>a DEF SweepFails
<1> QED BY <1>1, <1>2, <1>4, <1>5, <1>6, <1>7, <1>8, <1>9, <1>10, <1>11, <1>12, <1>13, <1>14,
           <1>15 DEF Next

\* The caps of the rows, and the one the sweep holds.
LEMMA DogStepKeeps == ChainInv /\ [Next]_vars => DogInv'
<1> SUFFICES ASSUME ChainInv, [Next]_vars PROVE DogInv'
  OBVIOUS
<1>0. ChainTypeOK /\ DogInv
  BY DEF ChainInv
<1>1. dog \in {"idle", "skip", "add", "mark"} \X Mailboxes
  BY <1>0 DEF ChainTypeOK
<1>2. ASSUME UNCHANGED dog, \A m \in Mailboxes : log'[m].requeued = log[m].requeued
      PROVE  DogInv'
  BY <1>0, <1>1, <1>2 DEF DogInv
<1>3. ASSUME NEW m \in Mailboxes, DogStep(m) PROVE DogInv'
  <2>1. CASE Sweep(m)
    <3>1. CASE log' = [log EXCEPT ![m].status = "failed"] /\ UNCHANGED dog
      BY <1>0, <1>1, <3>1 DEF DogInv, ChainTypeOK
    <3>2. CASE dog' \in {<<"skip", m>>, <<"add", m>>} /\ UNCHANGED log
      BY <2>1, <3>2 DEF DogInv, Sweep, Overdue, Swept
    <3> QED BY <2>1, <3>1, <3>2 DEF Sweep
  <2>2. CASE SweepSkips(m) \/ SweepMarks(m)
    BY <2>2 DEF SweepSkips, SweepMarks, DogInv
  <2>3. CASE SweepAdds(m)
    BY <1>0, <2>3 DEF SweepAdds, DogInv
  <2> QED BY <1>3, <2>1, <2>2, <2>3 DEF DogStep
<1>4. ASSUME NEW j \in Jobs, Take(j) PROVE DogInv'
  <2>1. UNCHANGED dog
    BY <1>4 DEF Take
  <2> QED BY <1>0, <1>2, <1>4, <2>1, TakeRow
<1>5. ASSUME NEW j \in Jobs, Reschedule(j) PROVE DogInv'
  <2>1. /\ {Box(j)} \in SUBSET Mailboxes /\ UNCHANGED dog
        /\ Written({Box(j)}) \/ NotWritten({Box(j)})
    BY <1>5, BoxIsMailbox DEF Reschedule
  <2> QED BY <1>0, <1>2, <2>1, WriteRows
<1>6. ASSUME NEW r \in Handlers, LogAll(r) PROVE DogInv'
  <2>1. /\ Mailboxes \in SUBSET Mailboxes /\ UNCHANGED dog
        /\ Written(Mailboxes) \/ NotWritten(Mailboxes)
    BY <1>6 DEF LogAll
  <2> QED BY <1>0, <1>2, <2>1, WriteRows
<1>7. ASSUME UNCHANGED <<log, dog>> PROVE DogInv'
  BY <1>2, <1>7
<1> USE DEF campaign, queue, worker, api, counts
<1>8. ASSUME NEW r \in Handlers, Asks(r) \/ HandlerStep(r) \/ RequestDies(r) PROVE DogInv'
  BY <1>6, <1>7, <1>8 DEF Asks, Start, Resume, Pause, Abort, StatsJob, RequestDies, HandlerStep,
     AddAll, RemoveDelayed, StatsComplete, Activate, AbortLeads, StatsRead, StatsWrite
<1>9. ASSUME NEW j \in Jobs, BatchStep(j) PROVE DogInv'
  BY <1>5, <1>7, <1>9 DEF BatchStep, ReAdd, Complete, Finish, CheckActive, NoneReady, GiveUpLead,
     Send, EndLoop, NoLeadLeft
<1>10. ASSUME NEW j \in Jobs, ListenerStep(j) PROVE DogInv'
  BY <1>7, <1>10 DEF ListenerStep, CountFailure, TripPause, TripRemove, CheckOver
<1>11. ASSUME NEW j \in Jobs, Promote(j) \/ Throw(j) \/ Stalled(j) \/ JobLost(j) PROVE DogInv'
  BY <1>7, <1>11 DEF Promote, Throw, Stalled, JobLost
<1>12. CASE AutoPause \/ Restart \/ BootRead \/ BootAdd \/ UNCHANGED vars
  BY <1>7, <1>12 DEF AutoPause, Restart, BootRead, BootAdd, vars
<1>13. ASSUME NEW m \in Mailboxes, SweepFails(m) PROVE DogInv'
  BY <1>13 DEF SweepFails, DogInv
<1> QED BY <1>3, <1>4, <1>8, <1>9, <1>10, <1>11, <1>12, <1>13 DEF Next

\* A step leaves the rows true if it does not activate the campaign, takes no
\* request past the rows, and takes no job from where a row says it is.
LEMMA RowsKept ==
    ASSUME ChainInv, UNCHANGED log, unwatched \subseteq unwatched',
           status' = "active" => status = "active",
           \A r \in Handlers : req[r] = "log" => req'[r] = "log",
           \A m \in Mailboxes \ unwatched' :
               \/ log[m].status \in {"pending", "processing"}
               \/ job'[Key(m)] = job[Key(m)]
               \/ job[Key(m)] \in {"none", "active"}
               \/ job[Key(m)] = "delayed" /\ job'[Key(m)] = "waiting"
    PROVE  RowsInv'
BY DEF ChainInv, RowsInv

LEMMA AddKeepsRows ==
    ASSUME ChainInv, NEW boxes \in SUBSET Mailboxes, AddKeys(boxes),
           UNCHANGED <<status, log, unwatched>>,
           \A r \in Handlers : req[r] = "log" => req'[r] = "log"
    PROVE  RowsInv'
<1>1. \A j \in Jobs : job'[j] = job[j] \/ job[j] = "none"
  BY AddedKeys DEF ChainInv
<1> QED BY <1>1, RowsKept, KeyIsJob

LEMMA RemoveKeepsRows ==
    ASSUME ChainInv, NEW gone \in SUBSET Jobs, Remove(gone), UNCHANGED <<status, log>>,
           \A r \in Handlers : req[r] = "log" => req'[r] = "log"
    PROVE  RowsInv'
<1>1. \A m \in Mailboxes \ unwatched' : job'[Key(m)] = job[Key(m)] \/ Watched(m)
  BY Removed, KeyIsJob DEF ChainInv
<1>2. unwatched \subseteq unwatched'
  BY DEF Remove, Unwatch
<1> QED BY <1>1, <1>2, RowsKept DEF Watched, Swept

LEMMA RowsStep == ChainInv /\ [Next]_vars => RowsInv'
<1> SUFFICES ASSUME ChainInv, [Next]_vars PROVE RowsInv'
  OBVIOUS
<1> USE KeyIsJob, BoxIsMailbox
<1>0. ChainTypeOK /\ BootInv /\ RowsInv
  BY DEF ChainInv
<1>q. req \in [Handlers -> {"idle", "activate", "log", "add", "again", "remove", "leads",
                            "stats", "statsWrite", "complete", "clean"}]
  BY <1>0 DEF ChainTypeOK
<1>a. ASSUME UNCHANGED <<log, unwatched, job>>, status' \in {status, "paused", "aborted", "completed"},
             \A r \in Handlers : req[r] = "log" => req'[r] = "log"
      PROVE  RowsInv'
  BY <1>a, RowsKept
<1> USE DEF Reach, campaign, queue, worker, api, counts
<1>1. ASSUME NEW r \in Handlers, Asks(r) PROVE RowsInv'
  <2>1. CASE Resume(r)
    BY <1>0, <1>q, <2>1 DEF Resume, RowsInv
  <2>2. CASE Start(r) \/ Pause(r) \/ Abort(r) \/ StatsJob(r)
    BY <1>a, <1>q, <2>2 DEF Start, Pause, Abort, StatsJob
  <2> QED BY <1>1, <2>1, <2>2 DEF Asks
<1>2. ASSUME NEW r \in Handlers, HandlerStep(r) PROVE RowsInv'
  <2>1. CASE AddAll(r)
    BY <1>q, <2>1, AddKeepsRows DEF AddAll
  <2>2. CASE RemoveDelayed(r)
    BY <1>q, <2>2, RemoveKeepsRows DEF RemoveDelayed, Delayed
  <2>3. CASE StatsComplete(r)
    <3>1. CASE Remove(Leftover) /\ UNCHANGED status
      BY <1>q, <2>3, <3>1, RemoveKeepsRows, LeftoverJobs DEF StatsComplete
    <3>2. CASE status' = "completed" /\ UNCHANGED <<job, tries, unwatched>>
      BY <1>a, <1>q, <2>3, <3>2 DEF StatsComplete
    <3> QED BY <2>3, <3>1, <3>2 DEF StatsComplete
  <2>4. CASE Activate(r)
    BY <1>0, <1>q, <2>4 DEF Activate, RowsInv
  <2>5. CASE LogAll(r)
    <3>1. Written(Mailboxes) \/ NotWritten(Mailboxes)
      BY <2>5 DEF LogAll
    <3>2. Mailboxes \in SUBSET Mailboxes
      OBVIOUS
    <3>3. \A m \in Mailboxes \ unwatched' : log'[m].status \in {"pending", "processing"}
      BY <1>0, <3>1, <3>2, WriteRows
    <3> QED BY <3>3 DEF RowsInv
  <2>6. CASE AbortLeads(r) \/ StatsRead(r) \/ StatsWrite(r)
    BY <1>a, <1>q, <2>6 DEF AbortLeads, StatsRead, StatsWrite
  <2> QED BY <1>2, <2>1, <2>2, <2>3, <2>4, <2>5, <2>6 DEF HandlerStep
<1>3. ASSUME NEW r \in Handlers, RequestDies(r) PROVE RowsInv'
  <2>1. CASE req[r] = "log"
    <3>1. /\ unwatched' = unwatched \cup {m \in Mailboxes : ~ Watched(m)}
          /\ UNCHANGED <<log, job, status>>
      BY <1>3, <2>1 DEF RequestDies, Unwatch
    <3>2. \A m \in Mailboxes \ unwatched' : log[m].status \in {"pending", "processing"}
      BY <3>1 DEF Watched, Swept
    <3> QED BY <3>1, <3>2 DEF RowsInv
  <2>2. CASE req[r] # "log"
    <3>1. unwatched' = unwatched
      BY <1>3, <2>2 DEF RequestDies, Unwatch
    <3> QED BY <1>a, <1>q, <1>3, <2>2, <3>1 DEF RequestDies
  <2> QED BY <2>1, <2>2
<1> USE DEF Goto, Hear
<1>4. ASSUME NEW j \in Jobs, Promote(j) \/ Stalled(j) PROVE RowsInv'
  <2>1. job[j] = "delayed" \/ job[j] = "active"
    BY <1>0, <1>4 DEF Promote, Stalled, ChainTypeOK
  <2>2. job' = [job EXCEPT ![j] = "waiting"] /\ UNCHANGED <<status, log, unwatched, req>>
    BY <1>4 DEF Promote, Stalled
  <2> QED BY <1>0, <2>1, <2>2, RowsKept DEF ChainTypeOK
<1>5. ASSUME NEW j \in Jobs, Take(j) PROVE RowsInv'
  <2>1. \A m \in Mailboxes : m # Box(j) => job'[Key(m)] = job[Key(m)]
    BY <1>0, <1>5 DEF Take, ChainTypeOK
  <2>2. UNCHANGED <<status, req>>
    BY <1>5 DEF Take
  <2>3. \A m \in Mailboxes \ unwatched' :
            \/ log'[m].status \in {"pending", "processing"}
            \/ /\ m \notin unwatched /\ log'[m] = log[m]
               /\ m = Box(j) => log[m].status = "none"
    BY <1>0, <1>5, TakeRow
  <2> QED BY <1>0, <2>1, <2>2, <2>3 DEF RowsInv
<1>6. ASSUME NEW j \in Jobs, BatchStep(j) PROVE RowsInv'
  <2>1. CASE ReAdd(j)
    BY <2>1, AddKeepsRows DEF ReAdd
  <2>2. CASE Complete(j)
    <3>1. CASE Remove(Leftover) /\ UNCHANGED status
      BY <2>2, <3>1, RemoveKeepsRows, LeftoverJobs DEF Complete
    <3>2. CASE status' = "completed" /\ UNCHANGED <<job, tries, unwatched>>
      BY <1>a, <2>2, <3>2 DEF Complete
    <3> QED BY <2>2, <3>1, <3>2 DEF Complete
  <2>3. CASE Finish(j)
    <3>1. job[j] = "active" /\ job' = [job EXCEPT ![j] = "none"]
      BY <1>0, <2>3 DEF Finish, ChainTypeOK
    <3> QED BY <1>0, <2>3, <3>1, RowsKept DEF Finish, ChainTypeOK
  <2>4. CASE Reschedule(j)
    <3>1. /\ {Box(j)} \in SUBSET Mailboxes /\ UNCHANGED <<status, req, job>>
          /\ Written({Box(j)}) \/ NotWritten({Box(j)})
      BY <2>4 DEF Reschedule
    <3>2. \A m \in Mailboxes \ unwatched' :
              \/ log'[m].status \in {"pending", "processing"}
              \/ m \notin unwatched /\ log'[m] = log[m]
      BY <1>0, <3>1, WriteRows
    <3> QED BY <1>0, <3>1, <3>2 DEF RowsInv
  <2>5. CASE \/ CheckActive(j) \/ NoneReady(j) \/ GiveUpLead(j) \/ Send(j)
             \/ EndLoop(j) \/ NoLeadLeft(j)
    BY <2>5, <1>a DEF CheckActive, NoneReady, GiveUpLead, Send, EndLoop, NoLeadLeft
  <2> QED BY <1>6, <2>1, <2>2, <2>3, <2>4, <2>5 DEF BatchStep
<1>7. ASSUME NEW j \in Jobs, Throw(j) PROVE RowsInv'
  <2>1. /\ job[j] = "active" /\ \A k \in Jobs \ {j} : job'[k] = job[k]
        /\ UNCHANGED <<status, log, unwatched, req>>
    BY <1>0, <1>7 DEF Throw, ChainTypeOK
  <2> QED BY <2>1, RowsKept
<1>8. ASSUME NEW j \in Jobs, ListenerStep(j) PROVE RowsInv'
  <2>1. CASE CountFailure(j) \/ TripPause(j)
    BY <2>1, <1>a DEF CountFailure, TripPause
  <2>2. CASE TripRemove(j)
    BY <2>2, RemoveKeepsRows DEF TripRemove, Delayed
  <2>3. CASE CheckOver(j)
    BY <2>3, RemoveKeepsRows, <1>a DEF CheckOver
  <2> QED BY <1>8, <2>1, <2>2, <2>3 DEF ListenerStep
<1>9. ASSUME NEW j \in Jobs, JobLost(j) PROVE RowsInv'
  BY <1>9, RemoveKeepsRows DEF JobLost
<1>10. ASSUME NEW m \in Mailboxes, DogStep(m) PROVE RowsInv'
  <2>0. UNCHANGED <<status, req>>
    BY <1>10 DEF DogStep, Sweep, SweepSkips, SweepAdds, SweepMarks
  <2>1. CASE Sweep(m)
    <3>1. CASE UNCHANGED log
      BY <1>a, <2>1, <3>1 DEF Sweep
    <3>2. CASE log' = [log EXCEPT ![m].status = "failed"] /\ job[Key(m)] = "failed"
      BY <1>0, <2>1, <3>2 DEF Sweep, RowsInv, ChainTypeOK
    <3> QED BY <2>1, <3>1, <3>2 DEF Sweep
  <2>2. CASE SweepSkips(m)
    BY <1>0, <2>0, <2>2 DEF SweepSkips, RowsInv, ChainTypeOK
  <2>3. CASE SweepAdds(m)
    BY <2>3, AddKeepsRows DEF SweepAdds
  <2>4. CASE SweepMarks(m)
    <3>1. /\ log'[m].status = "re_queued"
          /\ \A n \in Mailboxes : n # m => log'[n] = log[n]
      BY <1>0, <2>4 DEF SweepMarks, ChainTypeOK
    <3> QED BY <1>0, <2>0, <2>4, <3>1 DEF SweepMarks, RowsInv
  <2> QED BY <1>10, <2>1, <2>2, <2>3, <2>4 DEF DogStep
<1>11. CASE AutoPause
  BY <1>11, <1>a DEF AutoPause
<1>12. CASE Restart \/ BootRead \/ UNCHANGED vars
  BY <1>12, <1>a DEF Restart, BootRead, vars
<1>13. CASE BootAdd
  <2>1. \A m \in Mailboxes : Key(m)[2] # restarts
    BY <1>0, <1>13 DEF BootAdd, BootInv, Key
  <2>2. \A m \in Mailboxes : job'[Key(m)] = job[Key(m)]
    BY <2>1, <1>13 DEF BootAdd
  <2> QED BY <1>13, <2>2, RowsKept DEF BootAdd
<1>14. ASSUME NEW m \in Mailboxes, SweepFails(m) PROVE RowsInv'
  <2>1. UNCHANGED <<log, job, status, req>>
    BY <1>14 DEF SweepFails
  <2>2. \A n \in Mailboxes \ unwatched' : n \notin unwatched \/ Swept(n)
    BY <1>14 DEF SweepFails
  <2> QED BY <1>0, <2>1, <2>2 DEF RowsInv, Swept
<1> QED BY <1>1, <1>2, <1>3, <1>4, <1>5, <1>6, <1>7, <1>8, <1>9, <1>10, <1>11, <1>12, <1>13,
           <1>14 DEF Next

LEMMA ChainInvHolds == Spec => []ChainInv
<1>1. Init => ChainInv
  BY ChainConstants DEF Init, ChainInv, ChainTypeOK, TriesInv, BootInv, DogInv, RowsInv, Live,
     Statuses, JobStates, LogStatuses, PCs, Jobs
<1>2. ChainInv /\ [Next]_vars => ChainInv'
  BY TypeStep, JobsStep, DogStepKeeps, RowsStep DEF ChainInv
<1> QED BY <1>1, <1>2, PTL DEF Spec

\* The types, with a job's place in its processor only while it is active.
THEOREM ChainTypeCorrect == Spec => []ChainTypeOK
<1>1. ChainInv => ChainTypeOK
  BY DEF ChainInv
<1> QED BY <1>1, ChainInvHolds, PTL

\* For any number of mailboxes, requests, restarts, failures, losses and row writes
\* that fail, a mailbox of an active campaign without a job has a row the watchdog
\* selects, but for the exceptions that Exhausted names.
THEOREM RecoverableHolds == Spec => []Recoverable
<1>1. ChainInv => Recoverable
  <2> SUFFICES ASSUME ChainInv, NEW m \in Mailboxes, status = "active",
                      \A r \in Handlers : req[r] # "log",
                      \A j \in Jobs : Box(j) = m => ~ Live(j), ~ Exhausted(m)
               PROVE  Swept(m)
    BY DEF Recoverable
  <2>1. log[m].status \in LogStatuses /\ log[m].requeued \in 0 .. MaxRequeues
    BY DEF ChainInv, ChainTypeOK
  <2>2. /\ log[m].requeued < MaxRequeues /\ m \notin unwatched
        /\ job[Key(m)] # "failed"
    BY <2>1, ChainConstants DEF Exhausted
  <2>3. job[Key(m)] \notin {"delayed", "waiting"}
    BY KeyIsJob DEF Live
  <2>4. log[m].status \notin {"none", "skipped", "failed", "re_queued"}
    BY <2>2, <2>3 DEF ChainInv, RowsInv
  <2> QED BY <2>1, <2>2, <2>4 DEF LogStatuses, Swept
<1> QED BY <1>1, ChainInvHolds, PTL

=============================================================================
