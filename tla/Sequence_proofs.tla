-------------------------- MODULE Sequence_proofs --------------------------
(***************************************************************************)
(* Proofs about Sequence: the callers keep to the delivery pipeline, and a *)
(* lead's steps go out in order, for any leads, workers, number of steps,  *)
(* faults and Disturbances.                                                *)
(***************************************************************************)
EXTENDS Sequence, Delivery_proofs

allvars == <<vars, seqvars>>

-----------------------------------------------------------------------------
(* Types.                                                                  *)

\* What the stages of a caller have to do with the steps of a delivery.
JointAt(w) ==
    /\ task[w].stage = "deliver" <=> pc[w] # "idle"
    /\ task[w].stage = "deliver" => Item(w) = This(w)
    /\ task[w].kind = "follow" => This(w) \in FollowUps
    /\ task[w].stage = "add" => task[w].step < LastStep
    /\ task[w].stage \in {"gate", "prev", "mark", "done"} => task[w].kind = "follow"
    /\ task[w].stage = "picked" => task[w].kind = "batch"
Joint == \A w \in Workers : JointAt(w)

\* The part of SeqTypeOK that is about the callers.
CallersOK ==
    /\ task \in [Workers -> Tasks \cup {NoTask}]
    /\ \A w \in Workers : task[w].stage # "free" => task[w] \in Tasks

\* A caller that is at work has a lead, a step and a copy of the lead's row.
LEMMA CallerFacts ==
    ASSUME CallersOK, NEW w \in Workers, task[w].stage # "free"
    PROVE  /\ task[w] \in Tasks
           /\ Lead(w) \in Leads /\ task[w].step \in Steps
           /\ This(w) \in Items
BY DEF CallersOK, Tasks, Lead, This, Items

\* Moving to another stage keeps the rest of the copy.
LEMMA EnterFacts ==
    ASSUME CallersOK, NEW w \in Workers, task[w].stage # "free",
           NEW s \in Stages, task' = [task EXCEPT ![w].stage = s]
    PROVE  /\ CallersOK'
           /\ \A v \in Workers : v # w => task'[v] = task[v]
           /\ task'[w].stage = s
           /\ task'[w].kind = task[w].kind /\ task'[w].lead = task[w].lead
           /\ task'[w].step = task[w].step /\ task'[w].fails = task[w].fails
<1>1. task[w] \in Tasks
  BY DEF CallersOK
<1>2. task'[w] = [task[w] EXCEPT !.stage = s]
  BY DEF CallersOK
<1>3. task'[w] \in Tasks
  BY <1>1, <1>2 DEF Tasks
<1>4. \A v \in Workers : v # w => task'[v] = task[v]
  BY DEF CallersOK
<1>5. CallersOK'
  BY <1>3, <1>4 DEF CallersOK
<1> QED BY <1>1, <1>2, <1>4, <1>5 DEF Tasks

\* Leaving frees the worker and no other.
LEMMA LeaveFacts ==
    ASSUME CallersOK, NEW w \in Workers, Leave(w)
    PROVE  /\ CallersOK'
           /\ \A v \in Workers : v # w => task'[v] = task[v]
           /\ task'[w] = NoTask /\ task'[w].stage = "free"
BY DEF CallersOK, Leave, NoTask

\* The leads' rows and the follow-up queue.  A sweep holds on to a follow-up
\* only while its tries are not spent.
RecordsOK ==
    /\ lstatus \in [Leads -> LeadStatuses]
    /\ cursor \in [Leads -> 0 .. TopStep + 1]
    /\ fails \in [Leads -> 0 .. MaxFailures]
    /\ killed \in [Leads -> 0 .. 2]
    /\ fjob \in [FollowUps -> {"none", "waiting", "failed"} \cup Workers]
    /\ flog \in [FollowUps -> LogStatuses]
    /\ requeues \in [FollowUps -> 0 .. MaxRequeues]
    /\ sweep \in [FollowUps -> Sweeps]
    /\ \A f \in FollowUps : sweep[f] # "no" => requeues[f] < MaxRequeues
    /\ losses \in 0 .. MaxLosses

LEMMA TypeSplit == TypeOK /\ RecordsOK /\ CallersOK => SeqTypeOK
BY DEF SeqTypeOK, RecordsOK, CallersOK

\* Each of the operators the actions are built from keeps the type of the
\* variable it assigns.
LEMMA LossType ==
    ASSUME losses \in 0 .. MaxLosses, Loss \/ NoLoss
    PROVE  losses' \in 0 .. MaxLosses
BY LimitsAssumption DEF Loss, NoLoss

LEMMA LogType ==
    ASSUME flog \in [FollowUps -> LogStatuses], NEW f \in FollowUps,
           NEW s \in LogStatuses, SetLog(f, s)
    PROVE  flog' \in [FollowUps -> LogStatuses]
BY DEF SetLog

LEMMA LogWriteType ==
    ASSUME flog \in [FollowUps -> LogStatuses], losses \in 0 .. MaxLosses,
           NEW f \in FollowUps, NEW s \in LogStatuses, LogPending(f) \/ LogAs(f, s)
    PROVE  /\ flog' \in [FollowUps -> LogStatuses]
           /\ losses' \in 0 .. MaxLosses
<1>1. "none" \in LogStatuses /\ "pending" \in LogStatuses
  BY DEF LogStatuses
<1>2. flog' = flog \/ \E r \in LogStatuses : SetLog(f, r)
  BY <1>1 DEF LogPending, LogAs
<1>3. Loss \/ NoLoss
  BY DEF LogPending, LogAs
<1> QED BY <1>2, <1>3, LogType, LossType

LEMMA JobType ==
    ASSUME fjob \in [FollowUps -> {"none", "waiting", "failed"} \cup Workers],
           NEW f \in FollowUps,
           \/ AddJob(f)
           \/ \E x \in {"none", "waiting", "failed"} \cup Workers :
                 fjob' = [fjob EXCEPT ![f] = x]
    PROVE  fjob' \in [FollowUps -> {"none", "waiting", "failed"} \cup Workers]
BY DEF AddJob

LEMMA FailsType ==
    ASSUME NEW n \in 0 .. MaxFailures
    PROVE  OneMore(n) \in 0 .. MaxFailures
BY LimitsAssumption DEF OneMore

\* The records keep their types.
LEMMA RecordsStep ==
    ASSUME RecordsOK, CallersOK, Joint, [SeqNext]_allvars
    PROVE  RecordsOK'
<1>1. ASSUME NEW w \in Workers, BatchStep(w) PROVE RecordsOK'
  <2>1. CASE Yield(w) \/ \E l \in Leads : PickLead(w, l)
    BY <2>1 DEF Yield, PickLead, RecordsOK, lead, queue
  <2>2. task[w].stage # "free" => Lead(w) \in Leads /\ task[w].fails \in 0 .. MaxFailures
    BY CallerFacts DEF Tasks
  <2>3. CASE Claim(w)
    BY <2>2, <2>3 DEF Claim, At, RecordsOK, SetStatus, LeadStatuses, Unstarted, queue
  <2>4. CASE Exclude(w)
    BY <2>2, <2>4 DEF Exclude, At, RecordsOK, SetStatus, LeadStatuses, Unstarted, queue
  <2>5. CASE ProviderLimit(w)
    BY <2>2, <2>5 DEF ProviderLimit, At, RecordsOK, SetStatus, LeadStatuses, Unstarted,
        queue
  <2>6. CASE EmailUndeliverable(w)
    BY <2>2, <2>6, FailsType
    DEF EmailUndeliverable, At, RecordsOK, SetStatus, LeadStatuses, Unstarted, queue
  <2>7. CASE BatchCatch(w)
    BY <2>2, <2>7, FailsType DEF BatchCatch, At, RecordsOK, SetStatus, LeadStatuses,
        Unstarted, queue
  <2> QED BY <1>1, <2>1, <2>3, <2>4, <2>5, <2>6, <2>7 DEF BatchStep
<1>2. ASSUME NEW w \in Workers, FollowStep(w) PROVE RecordsOK'
  <2>1. ASSUME NEW f \in FollowUps, TakeFollowUp(w, f) PROVE RecordsOK'
    <3>1. \/ LogAs(f, "processing")
          \/ UNCHANGED <<flog, losses>>
      BY <2>1 DEF TakeFollowUp
    <3>2. /\ fjob' = [fjob EXCEPT ![f] = w]
          /\ UNCHANGED <<lstatus, cursor, fails, killed, requeues, sweep>>
      BY <2>1 DEF TakeFollowUp, lead, dog
    <3>3. "processing" \in LogStatuses
      BY DEF LogStatuses
    <3>4. flog' \in [FollowUps -> LogStatuses] /\ losses' \in 0 .. MaxLosses
      BY <3>1, <3>3, LogWriteType DEF RecordsOK
    <3> QED BY <3>2, <3>4, JobType DEF RecordsOK
  <2>2. task[w].stage # "free" => Lead(w) \in Leads /\ task[w].fails \in 0 .. MaxFailures
    BY CallerFacts DEF Tasks
  <2>3. task[w].kind = "follow" => This(w) \in FollowUps
    BY DEF Joint, JointAt
  <2>4. CASE GateLead(w)
    BY <2>4 DEF GateLead, RecordsOK, lead, queue
  <2>5. ASSUME This(w) \in FollowUps, Defer(w)
        PROVE  /\ flog' \in [FollowUps -> LogStatuses]
               /\ losses' \in 0 .. MaxLosses
               /\ fjob' \in [FollowUps -> {"none", "waiting", "failed"} \cup Workers]
               /\ UNCHANGED dog
    BY <2>5, LogWriteType, JobType DEF Defer, RecordsOK, LogStatuses
  <2>6. CASE Postpone(w) \/ CheckPrevious(w)
    <3>1. This(w) \in FollowUps
      BY <2>3, <2>6 DEF Postpone, CheckPrevious, At
    <3>2. /\ Defer(w) \/ UNCHANGED <<queue, losses>>
          /\ UNCHANGED <<lead, killed>>
      BY <2>6 DEF Postpone, CheckPrevious
    <3>3. CASE Defer(w)
      BY <3>1, <3>2, <3>3, <2>5 DEF RecordsOK, lead, dog
    <3>4. CASE UNCHANGED <<queue, losses>>
      BY <3>2, <3>4 DEF RecordsOK, lead, queue
    <3> QED BY <3>2, <3>3, <3>4
  <2>7. CASE FollowCatch(w)
    <3>1. Lead(w) \in Leads /\ This(w) \in FollowUps
      BY <2>2, <2>3, <2>7 DEF FollowCatch, At
    <3>2. OneMore(task[w].fails) \in 0 .. MaxFailures
      BY <2>2, <2>7, FailsType DEF FollowCatch, At
    <3>3. /\ fails' = [fails EXCEPT ![Lead(w)] = OneMore(task[w].fails)]
          /\ \/ /\ SetStatus(Lead(w), "failed") /\ LogAs(This(w), "failed")
                /\ UNCHANGED <<fjob, dog>>
             \/ Defer(w) /\ lstatus' = lstatus
          /\ UNCHANGED <<cursor, killed>>
      BY <2>7 DEF FollowCatch
    <3>4. "failed" \in LogStatuses
      BY DEF LogStatuses
    <3>5. /\ flog' \in [FollowUps -> LogStatuses]
          /\ losses' \in 0 .. MaxLosses
          /\ fjob' \in [FollowUps -> {"none", "waiting", "failed"} \cup Workers]
          /\ UNCHANGED dog
      BY <3>1, <3>3, <3>4, <2>5, LogWriteType DEF RecordsOK
    <3>6. lstatus' \in [Leads -> LeadStatuses] /\ fails' \in [Leads -> 0 .. MaxFailures]
      BY <3>1, <3>2, <3>3 DEF RecordsOK, SetStatus, LeadStatuses, Unstarted
    <3> QED BY <3>3, <3>5, <3>6 DEF RecordsOK, dog
  <2>8. CASE MarkSent(w)
    <3>1. This(w) \in FollowUps /\ "sent" \in LogStatuses
      BY <2>3, <2>8 DEF MarkSent, At, LogStatuses
    <3>2. /\ LogAs(This(w), "sent")
          /\ UNCHANGED <<lstatus, cursor, fails, killed, fjob, requeues, sweep>>
      BY <2>8 DEF MarkSent, lead, dog
    <3> QED BY <3>1, <3>2, LogWriteType DEF RecordsOK
  <2>9. CASE Done(w)
    BY <2>3, <2>9 DEF Done, At, RecordsOK, lead, dog
  <2>10. CASE FollowThrows(w)
    <3>1. Lead(w) \in Leads /\ This(w) \in FollowUps
      BY <2>2, <2>3, <2>10 DEF FollowThrows, At
    <3>2. /\ Loss
          /\ \E x \in {"none", "waiting", "failed"} \cup Workers :
                fjob' = [fjob EXCEPT ![This(w)] = x]
          /\ SetStatus(Lead(w), "failed") \/ lstatus' = lstatus
          /\ flog' = flog \/ SetLog(This(w), "pending")
          /\ \/ fails' = fails
             \/ fails' = [fails EXCEPT ![Lead(w)] = OneMore(task[w].fails)]
          /\ UNCHANGED <<cursor, killed, requeues, sweep>>
      BY <2>10 DEF FollowThrows, dog
    <3>3. lstatus' \in [Leads -> LeadStatuses]
      BY <3>1, <3>2 DEF RecordsOK, SetStatus, LeadStatuses, Unstarted
    <3>4. OneMore(task[w].fails) \in 0 .. MaxFailures
      BY <2>2, <2>10, FailsType DEF FollowThrows, At
    <3>5. fails' \in [Leads -> 0 .. MaxFailures]
      BY <3>1, <3>2, <3>4 DEF RecordsOK
    <3>6. flog' \in [FollowUps -> LogStatuses]
      BY <3>1, <3>2 DEF RecordsOK, SetLog, LogStatuses
    <3> QED BY <3>1, <3>2, <3>3, <3>5, <3>6, JobType, LossType DEF RecordsOK
  <2> QED BY <1>2, <2>1, <2>4, <2>6, <2>7, <2>8, <2>9, <2>10 DEF FollowStep
<1>3. ASSUME NEW w \in Workers, DeliverStep(w) PROVE RecordsOK'
  <2>1. task[w].stage # "free" => /\ Lead(w) \in Leads /\ task[w].step \in Steps
                                 /\ task[w].fails \in 0 .. MaxFailures
    BY CallerFacts DEF Tasks
  <2>2. CASE \/ StartDelivery(w) \/ StepDelivery(w) \/ EndDelivery(w)
             \/ NoNextStep(w) \/ TryFails(w)
    <3>1. UNCHANGED <<lead, killed, queue>> /\ (Loss \/ losses' = losses)
      BY <2>2 DEF StartDelivery, StepDelivery, EndDelivery, NoNextStep, TryFails,
                  seqvars, lead, queue
    <3> QED BY <3>1, LossType DEF RecordsOK, lead, queue, NoLoss
  <2>3. CASE CommitDelivery(w)
    <3>1. /\ Lead(w) \in Leads /\ task[w].step + 1 \in 0 .. TopStep + 1
          /\ task[w].fails \in 0 .. MaxFailures
      BY <2>1, <2>3, StepsAssumption DEF CommitDelivery
    <3>2. /\ lstatus' = [lstatus EXCEPT ![Lead(w)] = "sent"]
          /\ cursor' = [cursor EXCEPT ![Lead(w)] = task[w].step + 1]
          /\ \/ fails' = [fails EXCEPT ![Lead(w)] = task[w].fails]
             \/ fails' = [fails EXCEPT ![Lead(w)] = fails[Lead(w)]]
          /\ UNCHANGED <<killed, fjob, flog, requeues, sweep, losses>>
      BY <2>3 DEF CommitDelivery, SetStatus, queue
    <3> QED BY <3>1, <3>2 DEF RecordsOK, LeadStatuses, Unstarted
  <2>4. task[w].stage \in {"next",
      "add"} /\ task[w].step < LastStep => After(w) \in FollowUps
    BY <2>1, StepsAssumption DEF After, Lead, FollowUps
  <2>5. CASE LogNext(w)
    <3>1. After(w) \in FollowUps /\ "pending" \in LogStatuses
      BY <2>4, <2>5 DEF LogNext, LogStatuses
    <3>2. /\ LogPending(After(w))
          /\ UNCHANGED <<lstatus, cursor, fails, killed, fjob, requeues, sweep>>
      BY <2>5 DEF LogNext, lead, dog
    <3> QED BY <3>1, <3>2, LogWriteType DEF RecordsOK
  <2>6. CASE AddNext(w)
    <3>1. After(w) \in FollowUps
      BY <2>4, <2>6 DEF AddNext, Joint, JointAt
    <3>2. /\ AddJob(After(w))
          /\ UNCHANGED <<lstatus, cursor, fails, killed, flog, requeues, sweep, losses>>
      BY <2>6 DEF AddNext, lead, dog
    <3> QED BY <3>1, <3>2, JobType DEF RecordsOK
  <2> QED BY <1>3, <2>2, <2>3, <2>5, <2>6 DEF DeliverStep
<1>4. ASSUME NEW w \in Workers, CrashInside(w) \/ CrashOutside(w) PROVE RecordsOK'
  BY <1>4, LossType DEF CrashInside, CrashOutside, RecordsOK, lead, queue
<1>5. CASE SeqSurroundings
  <2>1. ASSUME NEW f \in FollowUps, Stalled(f) \/ JobLost(f) PROVE RecordsOK'
    <3>1. /\ \E x \in {"none", "waiting", "failed"} : fjob' = [fjob EXCEPT ![f] = x]
          /\ Loss \/ NoLoss
          /\ UNCHANGED <<lstatus, cursor, fails, killed, flog, requeues, sweep>>
      BY <2>1 DEF Stalled, JobLost, lead, dog
    <3> QED BY <3>1, JobType, LossType DEF RecordsOK
  <2>4. ASSUME NEW f \in FollowUps, WatchdogReads(f) \/ WatchdogLooks(f)
        PROVE  RecordsOK'
    <3>1. /\ \E x \in Sweeps : sweep' = [sweep EXCEPT ![f] = x]
          /\ sweep[f] = "no" => requeues[f] < MaxRequeues
          /\ AddJob(f) \/ fjob' = fjob
          /\ (\E x \in LogStatuses : SetLog(f, x)) \/ flog' = flog
          /\ UNCHANGED <<lstatus, cursor, fails, killed, requeues, losses>>
      BY <2>4 DEF WatchdogReads, WatchdogLooks, lead, Sweeps, LogStatuses
    <3>2. /\ sweep' \in [FollowUps -> Sweeps]
          /\ \A g \in FollowUps : sweep'[g] # "no" => requeues[g] < MaxRequeues
      BY <3>1 DEF RecordsOK
    <3> QED BY <3>1, <3>2, JobType, LogType DEF RecordsOK
  <2>5. ASSUME NEW f \in FollowUps, WatchdogMarks(f) PROVE RecordsOK'
    <3>1. /\ sweep[f] # "no" /\ sweep' = [sweep EXCEPT ![f] = "no"]
          /\ \/ SetLog(f,
              "re_queued") /\ requeues' = [requeues EXCEPT ![f] = requeues[f] + 1]
             \/ UNCHANGED <<flog, requeues>>
          /\ Loss \/ NoLoss
          /\ UNCHANGED <<lstatus, cursor, fails, killed, fjob>>
      BY <2>5 DEF WatchdogMarks, lead
    <3>2. "re_queued" \in LogStatuses /\ "no" \in Sweeps
      BY DEF LogStatuses, Sweeps
    <3>3. flog' \in [FollowUps -> LogStatuses] /\ sweep' \in [FollowUps -> Sweeps]
      BY <3>1, <3>2, LogType DEF RecordsOK
    <3>4. /\ requeues' \in [FollowUps -> 0 .. MaxRequeues]
          /\ \A g \in FollowUps : sweep'[g] # "no" => requeues'[g] < MaxRequeues
      BY <3>1, LimitsAssumption DEF RecordsOK
    <3> QED BY <3>1, <3>3, <3>4, LossType DEF RecordsOK
  <2>2. ASSUME NEW l \in Leads, KillStatus(l) \/ KillPause(l) PROVE RecordsOK'
    <3>1. /\ \/ lstatus' = lstatus
             \/ lstatus' = [lstatus EXCEPT ![l] = "replied"]
          /\ fails' = fails \/ fails' = [fails EXCEPT ![l] = 0]
          /\ \E n \in {1, 2} : killed' = [killed EXCEPT ![l] = n]
          /\ UNCHANGED <<cursor, fjob, flog, requeues, sweep>>
          /\ losses' \in 0 .. MaxLosses
      BY <2>2, LimitsAssumption DEF KillStatus, KillPause, SetStatus, Loss, NoLoss,
          RecordsOK, lead, queue
    <3>2. lstatus' \in [Leads -> LeadStatuses]
      BY <3>1 DEF RecordsOK, LeadStatuses, Unstarted
    <3>3. fails' \in [Leads -> 0 .. MaxFailures]
      BY <3>1, LimitsAssumption DEF RecordsOK
    <3>4. killed' \in [Leads -> 0 .. 2]
      BY <3>1 DEF RecordsOK
    <3> QED BY <3>1, <3>2, <3>3, <3>4 DEF RecordsOK
  <2>6. ASSUME NEW l \in Leads, ToPool(l) \/ ToMailbox(l) \/ Answered(l) \/ Bounced(l)
        PROVE  RecordsOK'
    <3>1. /\ \E s \in LeadStatuses : lstatus' = [lstatus EXCEPT ![l] = s]
          /\ UNCHANGED <<cursor, fails, killed, fjob, flog, requeues, sweep, losses>>
      BY <2>6 DEF ToPool, ToMailbox, Answered, Bounced, SetStatus, queue, LeadStatuses,
          Unstarted
    <3> QED BY <3>1 DEF RecordsOK
  <2>3. CASE UNCHANGED seqvars
    BY <2>3 DEF seqvars, RecordsOK
  <2> QED BY <1>5, <2>1, <2>2, <2>3, <2>4, <2>5, <2>6 DEF SeqSurroundings
<1>6. CASE UNCHANGED allvars
  BY <1>6 DEF allvars, seqvars, RecordsOK
<1> QED BY <1>1, <1>2, <1>3, <1>4, <1>5, <1>6 DEF SeqNext

-----------------------------------------------------------------------------
(* The callers use the pipeline as Delivery describes it.                  *)

\* Every step of a caller is a step of Delivery or leaves its state alone.
LEMMA Simulation ==
    ASSUME CallersOK, [SeqNext]_allvars
    PROVE  [Next]_vars
<1>1. ASSUME NEW w \in Workers, BatchStep(w) \/ FollowStep(w) PROVE UNCHANGED vars
  BY <1>1 DEF BatchStep, PickLead, Claim, Exclude, Yield, ProviderLimit,
              EmailUndeliverable, BatchCatch, FollowStep, TakeFollowUp, GateLead,
              Postpone, CheckPrevious, FollowCatch, MarkSent, Done, FollowThrows
<1>2. ASSUME NEW w \in Workers, DeliverStep(w) PROVE [Next]_vars
  <2>1. CASE StartDelivery(w)
    <3>1. This(w) \in Items
      BY <2>1, CallerFacts DEF StartDelivery
    <3>2. TheJob(w) \in Jobs
      BY <3>1 DEF TheJob, Jobs, Channels
    <3>3. Begin(w, TheJob(w)) \/ AlreadySent(w, TheJob(w))
      BY <2>1 DEF StartDelivery
    <3> QED BY <3>2, <3>3 DEF Next
  <2>2. CASE StepDelivery(w)
    BY <2>2 DEF StepDelivery, Next, Attempt
  <2>3. CASE CommitDelivery(w)
    BY <2>3 DEF CommitDelivery, Next, Attempt
  <2>4. CASE EndDelivery(w)
    BY <2>4 DEF EndDelivery, Next, Attempt
  <2>5. CASE NoNextStep(w) \/ LogNext(w) \/ AddNext(w) \/ TryFails(w)
    BY <2>5 DEF NoNextStep, LogNext, AddNext, TryFails
  <2> QED BY <1>2, <2>1, <2>2, <2>3, <2>4, <2>5 DEF DeliverStep
<1>3. ASSUME NEW w \in Workers, CrashInside(w) \/ CrashOutside(w) PROVE [Next]_vars
  BY <1>3 DEF CrashInside, CrashOutside, Next
<1>4. CASE SeqSurroundings
  BY <1>4 DEF SeqSurroundings, Next, Stalled, JobLost, WatchdogReads,
              WatchdogLooks, WatchdogMarks, KillStatus, KillPause, ToPool, ToMailbox,
                  Answered, Bounced
<1>5. CASE UNCHANGED allvars
  BY <1>5 DEF allvars
<1> QED BY <1>1, <1>2, <1>3, <1>4, <1>5 DEF SeqNext

-----------------------------------------------------------------------------
(* The callers.                                                            *)

\* A caller that moves to another stage outside a delivery, ...
LEMMA EnterJoint ==
    ASSUME CallersOK, Joint, NEW w \in Workers,
           task[w].stage \notin {"free", "deliver"},
           NEW s \in Stages \ {"free", "picked", "deliver"}, Enter(w, s),
           s = "add" => task[w].step < LastStep,
           s \in {"gate", "prev", "mark", "done"} => task[w].kind = "follow",
           UNCHANGED <<pc, job>>
    PROVE  CallersOK' /\ Joint'
<1>1. task' = [task EXCEPT ![w].stage = s] /\ task[w].stage # "free" /\ s \in Stages
  BY DEF Enter
<1>2. /\ CallersOK'
      /\ \A v \in Workers : v # w => task'[v] = task[v]
      /\ task'[w].stage = s
      /\ task'[w].kind = task[w].kind /\ task'[w].lead = task[w].lead
      /\ task'[w].step = task[w].step
  BY <1>1, EnterFacts
<1>3. ASSUME NEW v \in Workers, v # w PROVE JointAt(v)'
  BY <1>2, <1>3 DEF Joint, JointAt, Item, This
<1>4. JointAt(w)'
  BY <1>2 DEF Joint, JointAt, Item, This
<1> QED BY <1>2, <1>3, <1>4 DEF Joint

\* ... a caller that ends, its delivery over or cut short, ...
LEMMA LeaveJoint ==
    ASSUME CallersOK, Joint, NEW w \in Workers, Leave(w),
           \A v \in Workers : v # w => pc'[v] = pc[v] /\ job'[v] = job[v],
           pc'[w] = "idle"
    PROVE  CallersOK' /\ Joint'
<1>1. /\ CallersOK'
      /\ \A v \in Workers : v # w => task'[v] = task[v]
      /\ task'[w] = NoTask
  BY LeaveFacts
<1>2. ASSUME NEW v \in Workers, v # w PROVE JointAt(v)'
  BY <1>1, <1>2 DEF Joint, JointAt, Item, This
<1>3. JointAt(w)'
  BY <1>1 DEF JointAt, NoTask
<1> QED BY <1>1, <1>2, <1>3 DEF Joint

\* ... and a caller that works on keep Joint.
LEMMA StayJoint ==
    ASSUME CallersOK, Joint, task' = task,
           \A v \in Workers : (pc'[v] # "idle" <=> pc[v] # "idle") /\ job'[v] = job[v]
    PROVE  CallersOK' /\ Joint'
<1>1. CallersOK'
  BY DEF CallersOK
<1>2. ASSUME NEW v \in Workers PROVE JointAt(v)'
  BY <1>2 DEF Joint, JointAt, Item, This
<1> QED BY <1>1, <1>2 DEF Joint

\* A caller that takes up a lead's row or a job.
LEMMA TakeJoint ==
    ASSUME CallersOK, Joint, NEW w \in Workers, task[w].stage # "deliver",
           NEW t \in Tasks, task' = [task EXCEPT ![w] = t],
           t.stage \in {"picked", "prev", "done", "gate"},
           t.stage = "picked" <=> t.kind = "batch",
           t.kind = "follow" => <<t.lead, t.step>> \in FollowUps,
           UNCHANGED <<pc, job>>
    PROVE  CallersOK' /\ Joint'
<1>1. /\ CallersOK' /\ task'[w] = t
      /\ \A v \in Workers : v # w => task'[v] = task[v]
  BY DEF CallersOK
<1>2. ASSUME NEW v \in Workers, v # w PROVE JointAt(v)'
  BY <1>1, <1>2 DEF Joint, JointAt, Item, This
<1>3. t.kind \in {"batch", "follow"}
  BY DEF Tasks
<1>4. JointAt(w)'
  BY <1>1, <1>3 DEF Joint, JointAt, Item, This
<1> QED BY <1>1, <1>2, <1>4 DEF Joint

LEMMA CallersStep ==
    ASSUME TypeOK, RecordsOK, CallersOK, Joint, [SeqNext]_allvars
    PROVE  CallersOK' /\ Joint'
<1> USE DEF vars
<1>1. ASSUME NEW w \in Workers, BatchStep(w) PROVE CallersOK' /\ Joint'
  <2>1. ASSUME NEW l \in Leads, PickLead(w, l) PROVE CallersOK' /\ Joint'
    <3> DEFINE t == [kind |-> "batch", lead |-> l, step |-> cursor[l],
                     fails |-> fails[l], status |-> lstatus[l], stage |-> "picked"]
    <3>1. t \in Tasks
      BY <2>1, StepsAssumption DEF PickLead, RecordsOK, Tasks, Stages
    <3>2. task' = [task EXCEPT ![w] = t] /\ UNCHANGED <<pc, job>> /\ task[w] = NoTask
      BY <2>1 DEF PickLead
    <3>3. t.kind = "batch" /\ t.stage = "picked"
      OBVIOUS
    <3>4. task[w].stage # "deliver"
      BY <3>2 DEF NoTask
    <3> HIDE DEF t
    <3> QED BY <3>1, <3>2, <3>3, <3>4, TakeJoint
  <2>2. CASE Claim(w)
    BY <2>2, EnterJoint, LeaveJoint DEF Claim, At, Stages, Joint, JointAt
  <2>3. CASE Exclude(w) \/ Yield(w) \/ ProviderLimit(w) \/ EmailUndeliverable(w)
    BY <2>3, LeaveJoint DEF Exclude, Yield, ProviderLimit, EmailUndeliverable, At,
                            Joint, JointAt
  <2>4. CASE BatchCatch(w)
    BY <2>4, LeaveJoint DEF BatchCatch, At, Joint, JointAt
  <2> QED BY <1>1, <2>1, <2>2, <2>3, <2>4 DEF BatchStep
<1>2. ASSUME NEW w \in Workers, FollowStep(w) PROVE CallersOK' /\ Joint'
  <2>1. ASSUME NEW f \in FollowUps, TakeFollowUp(w, f) PROVE CallersOK' /\ Joint'
    <3> DEFINE t == [kind |-> "follow", lead |-> f[1], step |-> f[2], fails |-> 0,
                     status |-> "pending",
                     stage |-> IF flog[f] = "sent" THEN "done" ELSE "gate"]
    <3>1. f[1] \in Leads /\ f[2] \in 1 .. LastStep /\ f = <<f[1], f[2]>>
      BY DEF FollowUps
    <3>2. t \in Tasks
      BY <3>1, StepsAssumption, LimitsAssumption DEF Tasks, Stages, LeadStatuses, Unstarted
    <3>3. task' = [task EXCEPT ![w] = t] /\ UNCHANGED <<pc, job>> /\ task[w] = NoTask
      BY <2>1 DEF TakeFollowUp
    <3>4. /\ t.kind = "follow" /\ t.stage \in {"done", "gate"}
          /\ <<t.lead, t.step>> \in FollowUps
      BY <3>1
    <3>5. task[w].stage # "deliver"
      BY <3>3 DEF NoTask
    <3> HIDE DEF t
    <3> QED BY <3>2, <3>3, <3>4, <3>5, TakeJoint
  <2>2. CASE GateLead(w)
    <3>1. CASE Enter(w, "done")
      BY <2>2, <3>1, EnterJoint DEF GateLead, At, Stages
    <3>2. CASE task' = [task EXCEPT ![w].stage = "prev", ![w].fails = fails[Lead(w)],
                                    ![w].status = lstatus[Lead(w)]]
      <4> DEFINE t == [task[w] EXCEPT !.stage = "prev", !.fails = fails[Lead(w)],
                                      !.status = lstatus[Lead(w)]]
      <4>1. task[w] \in Tasks /\ Lead(w) \in Leads
        BY <2>2, CallerFacts DEF GateLead, At
      <4>2. t \in Tasks /\ t.stage = "prev" /\ t.kind = task[w].kind
            /\ t.lead = task[w].lead /\ t.step = task[w].step
        BY <4>1 DEF Tasks, Stages, RecordsOK
      <4>3. task' = [task EXCEPT ![w] = t]
        BY <3>2
      <4>4. task[w].kind = "follow" /\ task[w].stage = "gate" /\ UNCHANGED <<pc, job>>
        BY <2>2 DEF GateLead, At
      <4> QED BY <4>2, <4>3, <4>4, TakeJoint DEF Joint, JointAt, This
    <3> QED BY <2>2, <3>1, <3>2 DEF GateLead
  <2>3. CASE Postpone(w) \/ CheckPrevious(w)
    BY <2>3, EnterJoint DEF Postpone, CheckPrevious, Defer, At, Stages
  <2>4. CASE FollowCatch(w)
    BY <2>4, EnterJoint DEF FollowCatch, Defer, At, Stages
  <2>5. CASE MarkSent(w)
    BY <2>5, EnterJoint DEF MarkSent, At, Stages
  <2>6. CASE Done(w) \/ FollowThrows(w)
    BY <2>6, LeaveJoint DEF Done, FollowThrows, At, Joint, JointAt
  <2> QED BY <1>2, <2>1, <2>2, <2>3, <2>4, <2>5, <2>6 DEF FollowStep
<1>3. ASSUME NEW w \in Workers, DeliverStep(w) PROVE CallersOK' /\ Joint'
  <2>1. CASE StartDelivery(w)
    <3>1. /\ task' = [task EXCEPT ![w].stage = "deliver"]
          /\ task[w].stage # "free" /\ "deliver" \in Stages
      BY <2>1 DEF StartDelivery, Enter, Stages
    <3>2. /\ CallersOK'
          /\ \A v \in Workers : v # w => task'[v] = task[v]
          /\ task'[w].stage = "deliver" /\ task'[w].kind = task[w].kind
          /\ task'[w].lead = task[w].lead /\ task'[w].step = task[w].step
      BY <3>1, EnterFacts
    <3>3. /\ pc' = [pc EXCEPT ![w] = "prep"] \/ pc' = [pc EXCEPT ![w] = "returned"]
          /\ job' = [job EXCEPT ![w] = TheJob(w)]
      BY <2>1 DEF StartDelivery, Begin, AlreadySent, Goto
    <3>4. /\ pc'[w] # "idle" /\ job'[w] = TheJob(w)
          /\ \A v \in Workers : v # w => pc'[v] = pc[v] /\ job'[v] = job[v]
      BY <3>3 DEF TypeOK
    <3>5. ASSUME NEW v \in Workers, v # w PROVE JointAt(v)'
      BY <3>2, <3>4, <3>5 DEF Joint, JointAt, Item, This
    <3>6. JointAt(w)'
      BY <3>2, <3>4 DEF Joint, JointAt, Item, This, TheJob
    <3> QED BY <3>2, <3>5, <3>6 DEF Joint
  <2>2. CASE StepDelivery(w) \/ CommitDelivery(w)
    <3>1. job' = job /\ task' = task
      BY <2>2 DEF StepDelivery, CommitDelivery, seqvars, SkipWeekend, NoBody, Insert,
          InsertAckLost, ReadConflict, Purge, AcquireGuard, GuardHeld, DedupPass,
          DedupSkip, SkipNoMx, SendOk, SendFail, SendAckLost, ReleaseOnError,
          DeleteRow, ReleaseAfterSend, MarkLead, DbError, Promote
    <3>2. \E from, to \in PCs \ {"idle"} : Goto(w, from, to)
      BY <2>2 DEF StepDelivery, CommitDelivery, PCs, SkipWeekend, NoBody, Insert,
          InsertAckLost, ReadConflict, Purge, AcquireGuard, GuardHeld, DedupPass,
          DedupSkip, SkipNoMx, SendOk, SendFail, SendAckLost, ReleaseOnError,
          DeleteRow, ReleaseAfterSend, MarkLead, DbError, Promote
    <3>3. \A v \in Workers : pc'[v] # "idle" <=> pc[v] # "idle"
      BY <3>2 DEF Goto, TypeOK
    <3> QED BY <3>1, <3>3, StayJoint
  <2>3. CASE EndDelivery(w)
    <3>1. task[w].stage = "deliver" /\ (Enter(w, "catch") \/ Enter(w, "next"))
      BY <2>3 DEF EndDelivery
    <3>2. /\ pc'[w] = "idle"
          /\ \A v \in Workers : v # w => pc'[v] = pc[v] /\ job'[v] = job[v]
      BY <2>3 DEF EndDelivery, Finish, Goto, TypeOK
    <3>3. PICK s \in {"catch", "next"} : task' = [task EXCEPT ![w].stage = s]
      BY <3>1 DEF Enter
    <3>4. /\ CallersOK'
          /\ \A v \in Workers : v # w => task'[v] = task[v]
          /\ task'[w].stage = s /\ task'[w].kind = task[w].kind
          /\ task'[w].lead = task[w].lead /\ task'[w].step = task[w].step
      BY <3>1, <3>3, EnterFacts DEF Stages
    <3>5. ASSUME NEW v \in Workers, v # w PROVE JointAt(v)'
      BY <3>2, <3>4, <3>5 DEF Joint, JointAt, Item, This
    <3>6. JointAt(w)'
      BY <3>2, <3>4 DEF Joint, JointAt, Item, This
    <3> QED BY <3>4, <3>5, <3>6 DEF Joint
  <2>4. CASE NoNextStep(w) \/ AddNext(w)
    BY <2>4, EnterJoint, LeaveJoint DEF NoNextStep, AddNext, Stages, Joint, JointAt
  <2>5. CASE LogNext(w)
    BY <2>5, EnterJoint DEF LogNext, Stages
  <2>6. CASE TryFails(w)
    BY <2>6, EnterJoint DEF TryFails, At, Stages
  <2> QED BY <1>3, <2>1, <2>2, <2>3, <2>4, <2>5, <2>6 DEF DeliverStep
<1>4. ASSUME NEW w \in Workers, CrashInside(w) \/ CrashOutside(w)
      PROVE  CallersOK' /\ Joint'
  <2>1. Leave(w)
    BY <1>4 DEF CrashInside, CrashOutside
  <2>2. /\ pc'[w] = "idle"
        /\ \A v \in Workers : v # w => pc'[v] = pc[v] /\ job'[v] = job[v]
    BY <1>4 DEF CrashInside, CrashOutside, Crash, Goto, TypeOK, Joint, JointAt
  <2> QED BY <2>1, <2>2, LeaveJoint
<1>5. CASE SeqSurroundings
  BY <1>5, StayJoint
  DEF SeqSurroundings, Surroundings, GuardExpires, RecentExpires, MailedElsewhere,
      RowAges, Engage, seqvars, Stalled, JobLost, WatchdogReads,
      WatchdogLooks, WatchdogMarks, KillStatus, KillPause, ToPool, ToMailbox, Answered,
          Bounced
<1>6. CASE UNCHANGED allvars
  BY <1>6, StayJoint DEF allvars, seqvars
<1> QED BY <1>1, <1>2, <1>3, <1>4, <1>5, <1>6 DEF SeqNext

-----------------------------------------------------------------------------
(* The order of a lead's steps.                                            *)

\* A step that sends nothing, commits nothing and brings callers no nearer to
\* a delivery than they were keeps OrderInv.
LEMMA OrderMove ==
    ASSUME OrderInv, mail' = mail, cursor' = cursor,
           \A l \in Leads : lstatus'[l] = "sent" => lstatus[l] = "sent",
           \A w \in Workers :
              task'[w].stage \in {"picked", "check", "deliver"} =>
                 /\ task[w].stage \in {"picked", "check", "deliver"}
                 /\ task'[w].lead = task[w].lead /\ task'[w].step = task[w].step
    PROVE  OrderInv'
<1>1. InOrder' /\ CursorTruth'
  BY DEF OrderInv, InOrder, CursorTruth
<1>2. CallersInOrder'
  BY DEF OrderInv, CallersInOrder, Lead
<1> QED BY <1>1, <1>2 DEF OrderInv

\* A caller that comes to work on a lead's step finds every earlier one mailed.
LEMMA OrderTake ==
    ASSUME OrderInv, UNCHANGED <<mail, cursor, lstatus>>, NEW w \in Workers,
           \A v \in Workers : v # w => task'[v] = task[v],
           \A r \in 0 .. task'[w].step - 1 : mail[<<task'[w].lead, r>>] > 0
    PROVE  OrderInv'
<1>1. InOrder' /\ CursorTruth'
  BY DEF OrderInv, InOrder, CursorTruth
<1>2. ASSUME NEW v \in Workers,
             task'[v].stage \in {"picked", "check", "deliver"},
             NEW r \in 0 .. task'[v].step - 1
      PROVE  mail[<<task'[v].lead, r>>] > 0
  BY <1>2 DEF OrderInv, CallersInOrder, Lead
<1>3. CallersInOrder'
  BY <1>2 DEF CallersInOrder, Lead
<1> QED BY <1>1, <1>3 DEF OrderInv

\* A message that leaves is the next one of its lead.
LEMMA OrderSend ==
    ASSUME TypeOK, RecordsOK, CallersOK, Joint, OrderInv, NEW w \in Workers,
           task[w].stage = "deliver",
           mail' = [mail EXCEPT ![Item(w)] = @ + 1],
           UNCHANGED <<cursor, lstatus, task>>
    PROVE  OrderInv'
<1>1. Item(w) = This(w) /\ This(w) \in Items /\ Lead(w) \in Leads
  BY CallerFacts DEF Joint, JointAt
<1>2. /\ \A i \in Items : mail[i] \in Nat
      /\ \A i \in Items : mail[i] > 0 => mail'[i] > 0
      /\ \A i \in Items : i # This(w) => mail'[i] = mail[i]
  BY <1>1 DEF TypeOK
<1>3. \A r \in 0 .. task[w].step - 1 : mail[<<Lead(w), r>>] > 0
  BY DEF OrderInv, CallersInOrder
<1>4. \A s \in Steps : \A r \in 0 .. s - 1 : r \in Steps
  BY StepsAssumption
<1>5. InOrder'
  <2> SUFFICES ASSUME NEW l \in Leads, NEW s \in Steps, mail'[<<l, s>>] > 0,
                      NEW r \in 0 .. s - 1
               PROVE  mail'[<<l, r>>] > 0
    BY DEF InOrder
  <2>1. <<l, s>> \in Items /\ <<l, r>> \in Items
    BY <1>4 DEF Items
  <2>2. CASE <<l, s>> = This(w)
    <3>1. l = Lead(w) /\ s = task[w].step
      BY <2>2 DEF This, Lead
    <3> QED BY <3>1, <2>1, <1>2, <1>3
  <2>3. CASE <<l, s>> # This(w)
    <3>1. mail[<<l, s>>] > 0
      BY <2>1, <2>3, <1>2
    <3>2. mail[<<l, r>>] > 0
      BY <3>1 DEF OrderInv, InOrder
    <3> QED BY <3>2, <2>1, <1>2
  <2> QED BY <2>2, <2>3
<1>6. CallersInOrder'
  <2> SUFFICES ASSUME NEW v \in Workers,
                      task[v].stage \in {"picked", "check", "deliver"},
                      NEW r \in 0 .. task[v].step - 1
               PROVE  mail'[<<Lead(v), r>>] > 0
    BY DEF CallersInOrder, Lead
  <2>1. Lead(v) \in Leads /\ task[v].step \in Steps
    BY CallerFacts
  <2>2. <<Lead(v), r>> \in Items
    BY <2>1, <1>4 DEF Items
  <2> QED BY <2>2, <1>2 DEF OrderInv, CallersInOrder
<1>7. CursorTruth'
  <2> SUFFICES ASSUME NEW l \in Leads, NEW r \in 0 .. cursor[l] - 1
               PROVE  mail'[<<l, r>>] > 0
    BY DEF OrderInv, CursorTruth
  <2>1. <<l, r>> \in Items
    BY StepsAssumption DEF RecordsOK, Items
  <2> QED BY <2>1, <1>2 DEF OrderInv, CursorTruth
<1> QED BY <1>5, <1>6, <1>7 DEF OrderInv

\* A transaction moves the cursor of a lead past a step that was mailed.
LEMMA OrderCommit ==
    ASSUME RecordsOK, CallersOK, Joint, SentTruth, OrderInv, NEW w \in Workers,
           CommitDelivery(w)
    PROVE  OrderInv'
<1>1. /\ task[w].stage = "deliver" /\ pc[w] = "tx" /\ task' = task /\ mail' = mail
      /\ lstatus' = [lstatus EXCEPT ![Lead(w)] = "sent"]
      /\ cursor' = [cursor EXCEPT ![Lead(w)] = task[w].step + 1]
  BY DEF CommitDelivery, Promote, Goto, past, SetStatus
<1>2. Item(w) = This(w) /\ Lead(w) \in Leads /\ task[w].step \in Nat
  BY <1>1, CallerFacts, StepsAssumption DEF Joint, JointAt
<1>3. \A r \in 0 .. task[w].step : mail[<<Lead(w), r>>] > 0
  <2> SUFFICES ASSUME NEW r \in 0 .. task[w].step PROVE mail[<<Lead(w), r>>] > 0
    OBVIOUS
  <2>1. CASE r = task[w].step
    BY <2>1, <1>1, <1>2 DEF SentTruth, This, Lead
  <2>2. CASE r # task[w].step
    BY <2>2, <1>1, <1>2 DEF OrderInv, CallersInOrder
  <2> QED BY <2>1, <2>2
<1>4. CursorTruth'
  <2> SUFFICES ASSUME NEW l \in Leads
               PROVE  /\ \A r \in 0 .. cursor'[l] - 1 : mail[<<l, r>>] > 0
                      /\ lstatus'[l] = "sent" => cursor'[l] > 0
    BY <1>1 DEF CursorTruth
  <2>1. CASE l = Lead(w)
    <3>1. cursor'[l] = task[w].step + 1
      BY <2>1, <1>1 DEF RecordsOK
    <3> QED BY <2>1, <3>1, <1>2, <1>3
  <2>2. CASE l # Lead(w)
    <3>1. cursor'[l] = cursor[l] /\ lstatus'[l] = lstatus[l]
      BY <2>2, <1>1 DEF RecordsOK
    <3> QED BY <3>1 DEF OrderInv, CursorTruth
  <2> QED BY <2>1, <2>2
<1>5. InOrder' /\ CallersInOrder'
  BY <1>1 DEF OrderInv, InOrder, CallersInOrder, Lead
<1> QED BY <1>4, <1>5 DEF OrderInv

\* Every step of the callers and of their surroundings keeps the order.
LEMMA OrderStep ==
    ASSUME TypeOK, RecordsOK, CallersOK, Joint, TruthInv, OrderInv, [SeqNext]_allvars
    PROVE  OrderInv'
<1> DEFINE Calm == /\ mail' = mail /\ cursor' = cursor
                   /\ \A l \in Leads : lstatus'[l] = "sent" => lstatus[l] = "sent"
<1>0. ASSUME Calm, NEW w \in Workers,
             \A v \in Workers : v # w => task'[v] = task[v],
             task'[w].stage \in {"picked", "check", "deliver"} =>
                 /\ task[w].stage \in {"picked", "check", "deliver"}
                 /\ task'[w].lead = task[w].lead /\ task'[w].step = task[w].step
      PROVE  OrderInv'
  BY <1>0, OrderMove
<1>1. ASSUME NEW w \in Workers, BatchStep(w) PROVE OrderInv'
  <2>1. ASSUME NEW l \in Leads, PickLead(w, l) PROVE OrderInv'
    <3>1. /\ UNCHANGED <<mail, cursor, lstatus>>
          /\ \A v \in Workers : v # w => task'[v] = task[v]
          /\ task'[w].lead = l /\ task'[w].step = cursor[l]
      BY <2>1 DEF PickLead, vars, lead, CallersOK
    <3>2. \A r \in 0 .. cursor[l] - 1 : mail[<<l, r>>] > 0
      BY DEF OrderInv, CursorTruth
    <3> QED BY <3>1, <3>2, OrderTake
  <2>2. CASE Claim(w)
    <3>1. Calm
      BY <2>2 DEF Claim, SetStatus, vars, RecordsOK
    <3>2. task[w].stage = "picked" /\ (Enter(w, "check") \/ Leave(w))
      BY <2>2 DEF Claim, At
    <3>3. CASE Enter(w, "check")
      <4>1. /\ \A v \in Workers : v # w => task'[v] = task[v]
            /\ task'[w].lead = task[w].lead /\ task'[w].step = task[w].step
        BY <3>2, <3>3, EnterFacts DEF Enter, Stages
      <4> QED BY <3>1, <3>2, <4>1, <1>0
    <3>4. CASE Leave(w)
      BY <3>1, <3>4, LeaveFacts, <1>0
    <3> QED BY <3>2, <3>3, <3>4
  <2>3. CASE \/ Exclude(w) \/ Yield(w) \/ ProviderLimit(w) \/ EmailUndeliverable(w)
             \/ BatchCatch(w)
    <3>1. Calm
      BY <2>3 DEF Exclude, Yield, ProviderLimit, EmailUndeliverable, BatchCatch,
                  SetStatus, vars, lead, RecordsOK
    <3>2. Leave(w)
      BY <2>3 DEF Exclude, Yield, ProviderLimit, EmailUndeliverable, BatchCatch
    <3> QED BY <3>1, <3>2, LeaveFacts, <1>0
  <2> QED BY <1>1, <2>1, <2>2, <2>3 DEF BatchStep
<1>2. ASSUME NEW w \in Workers, FollowStep(w) PROVE OrderInv'
  <2>1. ASSUME NEW f \in FollowUps, TakeFollowUp(w, f) PROVE OrderInv'
    <3>1. /\ Calm
          /\ \A v \in Workers : v # w => task'[v] = task[v]
          /\ task'[w].stage \in {"done", "gate"}
      BY <2>1 DEF TakeFollowUp, vars, lead, CallersOK
    <3> QED BY <3>1, <1>0
  <2>2. CASE GateLead(w)
    <3>1. Calm
      BY <2>2 DEF GateLead, vars, lead
    <3>2. task[w] \in Tasks
      BY <2>2, CallerFacts DEF GateLead, At
    <3>3. PICK t : /\ task' = [task EXCEPT ![w] = t]
                   /\ t.stage \in {"done", "prev"}
      <4>1. CASE Enter(w, "done")
        <5> DEFINE t == [task[w] EXCEPT !.stage = "done"]
        <5>1. task' = [task EXCEPT ![w] = t]
          BY <4>1 DEF Enter
        <5>2. t.stage = "done"
          BY <3>2 DEF Tasks
        <5> QED BY <5>1, <5>2
      <4>2. CASE task' = [task EXCEPT ![w].stage = "prev", ![w].fails = fails[Lead(w)],
                                      ![w].status = lstatus[Lead(w)]]
        <5> DEFINE t == [task[w] EXCEPT !.stage = "prev", !.fails = fails[Lead(w)],
                                        !.status = lstatus[Lead(w)]]
        <5>1. task' = [task EXCEPT ![w] = t]
          BY <4>2
        <5>2. t.stage = "prev"
          BY <3>2 DEF Tasks
        <5> QED BY <5>1, <5>2
      <4> QED BY <2>2, <4>1, <4>2 DEF GateLead
    <3>4. /\ \A v \in Workers : v # w => task'[v] = task[v]
          /\ task'[w].stage \in {"done", "prev"}
      BY <3>3 DEF CallersOK
    <3> QED BY <3>1, <3>4, <1>0
  <2>3. CASE CheckPrevious(w) /\ row[<<Lead(w), task[w].step - 1>>] = "sent"
    <3>1. /\ task[w].stage = "prev" /\ task[w].kind = "follow" /\ Enter(w, "check")
          /\ UNCHANGED <<mail, cursor, lstatus>>
      BY <2>3 DEF CheckPrevious, At, vars, lead
    <3>2. /\ \A v \in Workers : v # w => task'[v] = task[v]
          /\ task'[w].lead = task[w].lead /\ task'[w].step = task[w].step
      BY <3>1, EnterFacts DEF Enter, Stages
    <3>3. Lead(w) \in Leads /\ task[w].step \in 1 .. LastStep
      BY <3>1 DEF Joint, JointAt, This, Lead, FollowUps
    <3>4. task[w].step - 1 \in Steps /\ <<Lead(w), task[w].step - 1>> \in Items
      BY <3>3, StepsAssumption DEF Items
    <3>5. mail[<<Lead(w), task[w].step - 1>>] > 0
      BY <2>3, <3>4 DEF TruthInv, RowTruth, Settled
    <3>6. \A r \in 0 .. task[w].step - 2 : mail[<<Lead(w), r>>] > 0
      BY <3>3, <3>4, <3>5 DEF OrderInv, InOrder
    <3>7. \A r \in 0 .. task[w].step - 1 : mail[<<Lead(w), r>>] > 0
      BY <3>3, <3>5, <3>6
    <3> QED BY <3>1, <3>2, <3>7, OrderTake DEF Lead
  <2>4. CASE \/ Postpone(w) \/ FollowCatch(w) \/ MarkSent(w)
             \/ CheckPrevious(w) /\ row[<<Lead(w), task[w].step - 1>>] # "sent"
    <3>1. Calm
      BY <2>4 DEF Postpone, FollowCatch, MarkSent, CheckPrevious, Defer, SetStatus,
                  vars, lead, RecordsOK
    <3>2. Enter(w, "done")
      BY <2>4 DEF Postpone, FollowCatch, MarkSent, CheckPrevious, Defer
    <3>3. \A v \in Workers : v # w => task'[v] = task[v]
      BY <3>2 DEF Enter, CallersOK
    <3>4. task'[w].stage = "done"
      BY <3>2, <2>4, EnterFacts
      DEF Enter, Stages, Postpone, FollowCatch, MarkSent, CheckPrevious, At
    <3> QED BY <3>1, <3>3, <3>4, <1>0
  <2>5. CASE Done(w) \/ FollowThrows(w)
    <3>1. Calm
      BY <2>5 DEF Done, FollowThrows, SetStatus, vars, lead, RecordsOK
    <3>2. Leave(w)
      BY <2>5 DEF Done, FollowThrows
    <3> QED BY <3>1, <3>2, LeaveFacts, <1>0
  <2>6. CASE CheckPrevious(w)
    BY <2>3, <2>4, <2>6
  <2> QED BY <1>2, <2>1, <2>2, <2>4, <2>5, <2>6 DEF FollowStep
<1>3. ASSUME NEW w \in Workers, DeliverStep(w) PROVE OrderInv'
  <2>1. CASE StartDelivery(w)
    <3>1. Calm
      BY <2>1 DEF StartDelivery, Begin, AlreadySent, past, lead
    <3>2. task[w].stage = "check" /\ Enter(w, "deliver")
      BY <2>1 DEF StartDelivery
    <3>3. /\ \A v \in Workers : v # w => task'[v] = task[v]
          /\ task'[w].lead = task[w].lead /\ task'[w].step = task[w].step
      BY <3>2, EnterFacts DEF Enter, Stages
    <3> QED BY <3>1, <3>2, <3>3, <1>0
  <2>2. CASE StepDelivery(w)
    <3>1. task[w].stage = "deliver" /\ UNCHANGED <<cursor, lstatus, task>>
      BY <2>2 DEF StepDelivery, seqvars
    <3>2. mail' = mail \/ mail' = [mail EXCEPT ![Item(w)] = @ + 1]
      BY <2>2 DEF StepDelivery, past, SkipWeekend, NoBody, Insert, InsertAckLost,
          ReadConflict, Purge, AcquireGuard, GuardHeld, DedupPass, DedupSkip,
          SkipNoMx, SendOk, SendFail, SendAckLost, ReleaseOnError, DeleteRow,
          ReleaseAfterSend, MarkLead, DbError
    <3>3. CASE mail' = mail
      BY <3>1, <3>3, <1>0
    <3>4. CASE mail' = [mail EXCEPT ![Item(w)] = @ + 1]
      BY <3>1, <3>4, OrderSend
    <3> QED BY <3>2, <3>3, <3>4
  <2>3. CASE CommitDelivery(w)
    BY <2>3, OrderCommit DEF TruthInv
  <2>4. CASE \/ EndDelivery(w) \/ NoNextStep(w) \/ LogNext(w) \/ AddNext(w)
             \/ TryFails(w)
    <3>1. Calm
      BY <2>4 DEF EndDelivery, Finish, NoNextStep, LogNext, AddNext, TryFails,
                  past, vars, lead
    <3>2. /\ task[w].stage # "free"
          /\ \/ Leave(w)
             \/ \E s \in {"catch", "next", "mark", "add"} : Enter(w, s)
      BY <2>4 DEF EndDelivery, NoNextStep, LogNext, AddNext, TryFails, At
    <3>3. CASE Leave(w)
      BY <3>1, <3>3, LeaveFacts, <1>0
    <3>4. ASSUME NEW s \in {"catch", "next", "mark", "add"}, Enter(w, s)
          PROVE  OrderInv'
      <4>1. /\ \A v \in Workers : v # w => task'[v] = task[v]
            /\ task'[w].stage = s
        BY <3>2, <3>4, EnterFacts DEF Enter, Stages
      <4> QED BY <3>1, <4>1, <1>0
    <3> QED BY <3>2, <3>3, <3>4
  <2> QED BY <1>3, <2>1, <2>2, <2>3, <2>4 DEF DeliverStep
<1>4. ASSUME NEW w \in Workers, CrashInside(w) \/ CrashOutside(w) PROVE OrderInv'
  <2>1. Calm /\ Leave(w)
    BY <1>4 DEF CrashInside, CrashOutside, Crash, past, vars, lead
  <2> QED BY <2>1, LeaveFacts, <1>0
<1>5. CASE SeqSurroundings
  <2>1. Calm
    <3>1. ASSUME NEW l \in Leads, ToPool(l) \/ ToMailbox(l) \/ Answered(l) \/ Bounced(l)
          PROVE  Calm
      <4>1. /\ mail' = mail /\ cursor' = cursor
            /\ \E s \in Unstarted \cup {"replied", "failed"} :
                  lstatus' = [lstatus EXCEPT ![l] = s]
        BY <3>1 DEF ToPool, ToMailbox, Answered, Bounced, SetStatus, Unstarted, vars, past
      <4> QED BY <4>1 DEF RecordsOK, Unstarted
    <3>2. ASSUME NEW l \in Leads, KillStatus(l) \/ KillPause(l) PROVE Calm
      BY <3>2 DEF KillStatus, KillPause, SetStatus, vars, lead, past, RecordsOK
    <3>3. ASSUME NEW f \in FollowUps,
                 \/ Stalled(f) \/ JobLost(f)
                 \/ WatchdogReads(f) \/ WatchdogLooks(f) \/ WatchdogMarks(f)
          PROVE  Calm
      BY <3>3 DEF Stalled, JobLost, WatchdogReads, WatchdogLooks, WatchdogMarks,
                  vars, lead, past
    <3>4. CASE Surroundings /\ UNCHANGED seqvars
      BY <3>4 DEF Surroundings, GuardExpires, RecentExpires, MailedElsewhere, RowAges,
                  Engage, past, seqvars
    <3> QED BY <1>5, <3>1, <3>2, <3>3, <3>4 DEF SeqSurroundings
  <2>2. task' = task
    BY <1>5 DEF SeqSurroundings, seqvars, Stalled, JobLost, WatchdogReads,
        WatchdogLooks, WatchdogMarks, KillStatus, KillPause, ToPool, ToMailbox,
            Answered, Bounced
  <2> QED BY <2>1, <2>2, OrderMove
<1>6. CASE UNCHANGED allvars
  BY <1>6, OrderMove DEF allvars, vars, seqvars
<1> QED BY <1>1, <1>2, <1>3, <1>4, <1>5, <1>6 DEF SeqNext

-----------------------------------------------------------------------------
(* The theorems.                                                           *)

\* What every reachable state satisfies.
SeqInv == TypeOK /\ RecordsOK /\ CallersOK /\ Joint /\ TruthInv /\ OrderInv

LEMMA SeqInvInit == SeqInit => SeqInv
<1> SUFFICES ASSUME SeqInit PROVE SeqInv
  OBVIOUS
<1>1. TypeOK
  BY FaultsAssumption DEF SeqInit, Init, TypeOK, Statuses, PCs
<1>2. RecordsOK
  BY StepsAssumption, LimitsAssumption
  DEF SeqInit, RecordsOK, LeadStatuses, Unstarted, LogStatuses, Sweeps
<1>3. CallersOK /\ Joint
  BY DEF SeqInit, Init, CallersOK, Joint, JointAt, NoTask
<1>4. TruthInv
  BY DEF SeqInit, Init, TruthInv, SentTruth, RowTruth, Settled
<1>5. OrderInv
  BY DEF SeqInit, Init, OrderInv, InOrder, CursorTruth, CallersInOrder, NoTask, Items
<1> QED BY <1>1, <1>2, <1>3, <1>4, <1>5 DEF SeqInv

LEMMA SeqInvStep == SeqInv /\ [SeqNext]_allvars => SeqInv' /\ [Next]_vars
<1> SUFFICES ASSUME SeqInv, [SeqNext]_allvars PROVE SeqInv' /\ [Next]_vars
  OBVIOUS
<1>1. [Next]_vars
  BY Simulation DEF SeqInv
<1>2. TypeOK'
  BY <1>1, TypeStep DEF SeqInv
<1>3. TruthInv'
  BY <1>1, TruthStep DEF SeqInv
<1>4. RecordsOK' /\ CallersOK' /\ Joint' /\ OrderInv'
  BY RecordsStep, CallersStep, OrderStep DEF SeqInv
<1> QED BY <1>1, <1>2, <1>3, <1>4 DEF SeqInv

LEMMA SeqInvHolds == SeqSpec => []SeqInv
BY SeqInvInit, SeqInvStep, PTL DEF SeqSpec, allvars

\* The state of the callers and of their jobs is always well formed.
THEOREM SeqTypeCorrect == SeqSpec => []SeqTypeOK
<1>1. SeqInv => SeqTypeOK
  BY TypeSplit DEF SeqInv
<1> QED BY <1>1, SeqInvHolds, PTL

\* A step is mailed only after every earlier one, for any template, workers,
\* faults and Disturbances.
THEOREM InOrderHolds == SeqSpec => []InOrder
<1>1. SeqInv => InOrder
  BY DEF SeqInv, OrderInv
<1> QED BY <1>1, SeqInvHolds, PTL

\* currentStep and the status 'sent' tell the truth about what was mailed.
THEOREM CursorTruthHolds == SeqSpec => []CursorTruth
<1>1. SeqInv => CursorTruth
  BY DEF SeqInv, OrderInv
<1> QED BY <1>1, SeqInvHolds, PTL

\* The batches and the follow-ups implement Delivery: whatever Delivery_proofs
\* shows of the delivery holds of the callers too.
THEOREM DeliveryImplemented == SeqSpec => ImplementsDelivery
<1>1. SeqInit => Init
  BY DEF SeqInit
<1> QED BY <1>1, SeqInvHolds, SeqInvStep, PTL DEF SeqSpec, ImplementsDelivery, Spec, allvars

\* So that, without Disturbances, no lead gets a step of the sequence twice.
THEOREM SequenceAtMostOnce ==
    ASSUME Admitted = {} PROVE SeqSpec => []AtMostOnce
BY DeliveryImplemented, AtMostOnceHolds, PTL DEF ImplementsDelivery
=============================================================================
