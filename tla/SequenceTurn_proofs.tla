------------------------ MODULE SequenceTurn_proofs ------------------------
(***************************************************************************)
(* Proofs about Sequence: a lead's steps are delivered one at a time, each  *)
(* when every earlier one is on record, and currentStep moves forward only  *)
(* (in a quiet environment); a lead between two steps keeps its next step's *)
(* record (as long as nothing fails).                                       *)
(***************************************************************************)
EXTENDS Sequence_proofs

-----------------------------------------------------------------------------
(* What a step of the pipeline does to rows and their owners.              *)

\* Nobody comes to own an item, ...
NoNewOwner == \A v \in Workers : pc'[v] \in Owning => pc[v] \in Owning /\ job'[v] = job[v]

\* ... or w inserts the row of its item, ...
Inserts(w) ==
    /\ pc[w] = "prep" /\ row[Item(w)] = "none"
    /\ row' = [row EXCEPT ![Item(w)] = "sending"]
    /\ \E to \in {"guard", "conflict", "threw"} : pc' = [pc EXCEPT ![w] = to]
    /\ job' = job

\* ... removes it after a send that failed, ...
Removes(w) ==
    /\ pc[w] = "undo"
    /\ row' = [row EXCEPT ![Item(w)] = "none"]
    /\ NoNewOwner

\* ... or promotes it, and gives it up.
Promotes(w) ==
    /\ pc[w] = "tx" /\ row[Item(w)] # "none"
    /\ row' = [row EXCEPT ![Item(w)] = "sent"]
    /\ \E to \in {"returned", "threw"} : pc' = [pc EXCEPT ![w] = to]
    /\ job' = job

\* A lead engages with a message.
Engages(i) ==
    /\ row[i] \in {"sending", "sent"}
    /\ row' = [row EXCEPT ![i] = "engaged"]
    /\ NoNewOwner

\* In a quiet environment there is nothing else.
LEMMA RowMoves ==
    ASSUME Quiet, TypeOK, QuietInv, [Next]_vars
    PROVE  \/ row' = row /\ NoNewOwner
           \/ \E w \in Workers : Inserts(w) \/ Removes(w) \/ Promotes(w)
           \/ \E i \in Items : Engages(i)
<1> DEFINE Goal == \/ row' = row /\ NoNewOwner
                   \/ \E w \in Workers : Inserts(w) \/ Removes(w) \/ Promotes(w)
                   \/ \E i \in Items : Engages(i)
<1>1. ASSUME NEW w \in Workers, Attempt(w) PROVE Goal
  <2>1. ASSUME row' = row, job' = job, NEW from, NEW to, Goto(w, from, to),
               to \in Owning => from \in Owning
        PROVE  Goal
    BY <2>1 DEF Goto, NoNewOwner, TypeOK
  <2>2. CASE SkipWeekend(w) \/ NoBody(w)
    BY <2>1, <2>2 DEF SkipWeekend, NoBody, db, past, Owning
  <2>3. CASE Insert(w) \/ InsertAckLost(w)
    <3>1. CASE row[Item(w)] = "none"
      <4>1. Inserts(w)
        BY <2>3, <3>1 DEF Insert, InsertAckLost, AddRow, SetRow, Goto, Inserts, past
      <4> QED BY <4>1
    <3>2. CASE row[Item(w)] # "none"
      <4>1. Goto(w, "prep", "conflict") /\ row' = row /\ job' = job
        BY <2>3, <3>2 DEF Insert, InsertAckLost, AddRow, db, past
      <4> QED BY <2>1, <4>1 DEF Owning
    <3> QED BY <3>1, <3>2
  <2>4. CASE ReadConflict(w)
    <3>1. Goto(w, "conflict", "purge") \/ Goto(w, "conflict", "returned")
      BY <2>4 DEF ReadConflict
    <3> QED BY <2>1, <2>4, <3>1 DEF ReadConflict, db, past, Owning
  <2>5. CASE Purge(w)
    BY <2>5 DEF Purge, Goto, QuietInv, NoPurge
  <2>6. CASE AcquireGuard(w)
    <3>1. Goto(w, "guard", "dedup") \/ Goto(w, "guard", "send")
      BY <2>6 DEF AcquireGuard
    <3> QED BY <2>1, <2>6, <3>1 DEF AcquireGuard, db, past, Owning
  <2>7. CASE GuardHeld(w) \/ DedupPass(w) \/ DedupSkip(w) \/ SkipNoMx(w)
    BY <2>1, <2>7 DEF GuardHeld, DedupPass, DedupSkip, SkipNoMx, db, past, Owning
  <2>8. CASE SendOk(w)
    <3>1. Goto(w, "send", "sent") \/ Goto(w, "send", "tx")
      BY <2>8 DEF SendOk
    <3> QED BY <2>1, <2>8, <3>1 DEF SendOk, db, Owning
  <2>9. CASE SendFail(w) \/ SendAckLost(w) \/ ReleaseOnError(w)
    BY <2>1, <2>9 DEF SendFail, SendAckLost, ReleaseOnError, db, past, Owning
  <2>10. CASE DeleteRow(w)
    <3>1. /\ Goto(w, "undo", "threw") /\ job' = job
          /\ row' = row \/ row' = [row EXCEPT ![Item(w)] = "none"]
      BY <2>10 DEF DeleteRow, DropRow, SetRow, Quiet, db, past
    <3>2. NoNewOwner /\ pc[w] = "undo"
      BY <3>1 DEF NoNewOwner, Goto, TypeOK, Owning
    <3> QED BY <3>1, <3>2 DEF Removes
  <2>11. CASE ReleaseAfterSend(w) \/ MarkLead(w)
    BY <2>1, <2>11 DEF ReleaseAfterSend, MarkLead, db, past, Owning
  <2>12. CASE Promote(w)
    <3>1. pc[w] = "tx" /\ row[Item(w)] # "none"
      BY <2>12 DEF Promote, Goto, QuietInv, OwnersHaveRows, Owning
    <3>2. Promotes(w)
      BY <2>12, <3>1 DEF Promote, Promotes, Goto, SetRow, past
    <3> QED BY <3>2
  <2>13. CASE DbError(w)
    BY <2>1, <2>13 DEF DbError, db, past, Owning
  <2>14. CASE Finish(w)
    BY <2>14 DEF Finish, Goto, NoNewOwner, TypeOK, Owning, db
  <2> QED BY <1>1, <2>2, <2>3, <2>4, <2>5, <2>6, <2>7, <2>8, <2>9, <2>10, <2>11, <2>12,
      <2>13, <2>14 DEF Attempt
<1>2. ASSUME NEW w \in Workers, Crash(w) PROVE Goal
  BY <1>2 DEF Crash, Goto, NoNewOwner, TypeOK, Owning, db
<1>3. ASSUME NEW w \in Workers, NEW j \in Jobs, Begin(w, j) \/ AlreadySent(w, j)
      PROVE  Goal
  BY <1>3 DEF Begin, AlreadySent, Goto, NoNewOwner, TypeOK, Owning, db
<1>4. CASE Surroundings
  <2>1. ASSUME NEW i \in Items, Engage(i) PROVE Goal
    <3>1. Engages(i)
      BY <2>1 DEF Engage, Engages, SetRow, NoNewOwner
    <3> QED BY <3>1
  <2>2. CASE row' = row /\ pc' = pc /\ job' = job
    BY <2>2 DEF NoNewOwner
  <2> QED BY <1>4, <2>1, <2>2 DEF Surroundings, GuardExpires, RecentExpires,
          MailedElsewhere, RowAges, db
<1>5. CASE UNCHANGED vars
  BY <1>5 DEF vars, NoNewOwner
<1> QED BY <1>1, <1>2, <1>3, <1>4, <1>5 DEF Next

\* What is through stays through: its row is there, so that nobody inserts it,
\* and nobody owns it, so that nobody deletes it.
LEMMA ThroughStays ==
    ASSUME Quiet, TypeOK, QuietInv, [Next]_vars, NEW i \in Items, Through(i)
    PROVE  Through(i)'
<1> USE DEF TypeOK, Through, Settled, Owns, Item
<1>1. row[i] \in {"sent", "engaged"} /\ \A v \in Workers : ~ Owns(v, i)
  OBVIOUS
<1>2. CASE row' = row /\ NoNewOwner
  BY <1>2 DEF NoNewOwner
<1>3. ASSUME NEW w \in Workers, Inserts(w) PROVE Through(i)'
  <2>1. Item(w) # i /\ job' = job
    BY <1>3 DEF Inserts
  <2>2. row'[i] = row[i]
    BY <1>3, <2>1 DEF Inserts
  <2>3. \A v \in Workers : v # w => pc'[v] = pc[v]
    BY <1>3 DEF Inserts
  <2> QED BY <2>1, <2>2, <2>3
<1>4. ASSUME NEW w \in Workers, Removes(w) PROVE Through(i)'
  <2>1. Item(w) # i
    BY <1>4 DEF Removes, Owning
  <2>2. row'[i] = row[i]
    BY <1>4, <2>1 DEF Removes
  <2> QED BY <1>4, <2>2 DEF Removes, NoNewOwner
<1>5. ASSUME NEW w \in Workers, Promotes(w) PROVE Through(i)'
  <2>1. Item(w) # i /\ job' = job
    BY <1>5 DEF Promotes, Owning
  <2>2. row'[i] = row[i]
    BY <1>5, <2>1 DEF Promotes
  <2>3. \A v \in Workers : pc'[v] \in Owning => pc[v] \in Owning
    BY <1>5 DEF Promotes, Owning
  <2> QED BY <2>1, <2>2, <2>3
<1>6. ASSUME NEW j \in Items, Engages(j) PROVE Through(i)'
  BY <1>6 DEF Engages, NoNewOwner
<1> QED BY <1>2, <1>3, <1>4, <1>5, <1>6, RowMoves

\* A row that reads 'sent' has lost its owner, the only one it had.
LEMMA SentFreeStep ==
    ASSUME Quiet, TypeOK, QuietInv, SentFree, [Next]_vars
    PROVE  SentFree'
<1> SUFFICES ASSUME NEW i \in Items, row'[i] = "sent" PROVE Through(i)'
  BY DEF SentFree
<1>1. CASE row[i] = "sent"
  BY <1>1, ThroughStays DEF SentFree
<1>2. CASE row[i] # "sent"
  <2>1. PICK w \in Workers : Promotes(w) /\ Item(w) = i
    BY <1>2, RowMoves DEF Inserts, Removes, Promotes, Engages, TypeOK
  <2>2. \A v \in Workers : Owns(v, i) => v = w
    BY <2>1 DEF QuietInv, OneSender, Owns, Promotes, Owning
  <2>3. \A v \in Workers : ~ Owns(v, i)'
    BY <2>1, <2>2 DEF Owns, Promotes, Owning, Item, TypeOK
  <2> QED BY <2>3 DEF Through, Settled
<1> QED BY <1>1, <1>2

-----------------------------------------------------------------------------
(* What a step of the callers does to currentStep and to their approach to *)
(* a delivery.                                                             *)

\* Only the commit of a delivery moves currentStep.
LEMMA CursorMoves ==
    ASSUME [SeqNext]_allvars
    PROVE  cursor' = cursor \/ \E w \in Workers : CommitDelivery(w)
<1>1. ASSUME NEW w \in Workers, BatchStep(w) \/ FollowStep(w) PROVE cursor' = cursor
  BY <1>1 DEF BatchStep, PickLead, Claim, Exclude, Yield, ProviderLimit, lead,
              EmailUndeliverable, BatchCatch, FollowStep, TakeFollowUp, GateLead,
              Postpone, CheckPrevious, FollowCatch, MarkSent, Done, FollowThrows
<1>2. ASSUME NEW w \in Workers, DeliverStep(w)
      PROVE  cursor' = cursor \/ CommitDelivery(w)
  BY <1>2 DEF DeliverStep, StartDelivery, StepDelivery, EndDelivery, NoNextStep,
              LogNext, AddNext, TryFails, lead, seqvars
<1>3. ASSUME NEW w \in Workers, CrashInside(w) \/ CrashOutside(w)
      PROVE  cursor' = cursor
  BY <1>3 DEF CrashInside, CrashOutside, lead
<1>4. CASE SeqSurroundings
  BY <1>4 DEF SeqSurroundings, seqvars, lead, Stalled, JobLost, WatchdogReads,
              WatchdogLooks, WatchdogMarks, KillStatus, KillPause, ToPool, ToMailbox,
              Answered, Bounced
<1>5. CASE UNCHANGED allvars
  BY <1>5 DEF allvars, seqvars
<1> QED BY <1>1, <1>2, <1>3, <1>4, <1>5 DEF SeqNext

\* A caller on its way to a delivery.
Approaching(w) == task[w].stage \in {"picked", "check", "deliver"}

\* It has been on its way to the same step already, or takes the step from the
\* lead's row, or has seen that the previous step's row reads 'sent'.
LEMMA Approach ==
    ASSUME CallersOK, Joint, [SeqNext]_allvars, NEW w \in Workers, Approaching(w)'
    PROVE  \/ /\ Approaching(w)
              /\ task'[w].lead = task[w].lead /\ task'[w].step = task[w].step
           \/ task'[w].lead \in Leads /\ task'[w].step = cursor[task'[w].lead]
           \/ /\ task[w].kind = "follow" /\ task[w].stage # "free"
              /\ task'[w].lead = task[w].lead /\ task'[w].step = task[w].step
              /\ row[<<Lead(w), task[w].step - 1>>] = "sent"
<1> DEFINE Goal == \/ /\ Approaching(w)
                      /\ task'[w].lead = task[w].lead /\ task'[w].step = task[w].step
                   \/ task'[w].lead \in Leads /\ task'[w].step = cursor[task'[w].lead]
                   \/ /\ task[w].kind = "follow" /\ task[w].stage # "free"
                      /\ task'[w].lead = task[w].lead /\ task'[w].step = task[w].step
                      /\ row[<<Lead(w), task[w].step - 1>>] = "sent"
<1>0. ASSUME task'[w] = task[w] PROVE Goal
  BY <1>0 DEF Approaching
<1>1. ASSUME NEW v \in Workers, Leave(v) PROVE Goal
  BY <1>0, <1>1, LeaveFacts DEF Approaching
<1>2. ASSUME NEW v \in Workers, task[v].stage # "free",
             NEW s \in Stages \ {"picked", "check", "deliver"}, Enter(v, s)
      PROVE  Goal
  BY <1>0, <1>2, EnterFacts DEF Approaching, Enter
<1>3. ASSUME NEW v \in Workers, task[v].stage \in {"picked", "check", "deliver"},
             NEW s \in Stages, Enter(v, s)
      PROVE  Goal
  BY <1>0, <1>3, EnterFacts DEF Approaching, Enter
<1>4. ASSUME NEW v \in Workers, BatchStep(v) PROVE Goal
  <2>1. ASSUME NEW l \in Leads, PickLead(v, l) PROVE Goal
    BY <1>0, <2>1 DEF PickLead, CallersOK
  <2>2. CASE Claim(v)
    BY <1>1, <1>3, <2>2 DEF Claim, At, Stages
  <2>3. CASE \/ Exclude(v) \/ Yield(v) \/ ProviderLimit(v) \/ EmailUndeliverable(v)
             \/ BatchCatch(v)
    BY <1>1, <2>3 DEF Exclude, Yield, ProviderLimit, EmailUndeliverable, BatchCatch
  <2> QED BY <1>4, <2>1, <2>2, <2>3 DEF BatchStep
<1>5. ASSUME NEW v \in Workers, FollowStep(v) PROVE Goal
  <2>1. ASSUME NEW f \in FollowUps, TakeFollowUp(v, f) PROVE Goal
    BY <1>0, <2>1 DEF TakeFollowUp, CallersOK, Approaching
  <2>2. CASE GateLead(v)
    <3>1. CASE Enter(v, "done")
      BY <1>2, <2>2, <3>1 DEF GateLead, At, Stages
    <3>2. CASE task' = [task EXCEPT ![v].stage = "prev", ![v].fails = fails[Lead(v)],
                                    ![v].status = lstatus[Lead(v)]]
      <4>1. task[v] \in Tasks
        BY <2>2, CallerFacts DEF GateLead, At
      <4>2. CASE v = w
        BY <3>2, <4>1, <4>2 DEF Approaching, Tasks, CallersOK
      <4> QED BY <1>0, <3>2, <4>2 DEF CallersOK
    <3> QED BY <2>2, <3>1, <3>2 DEF GateLead
  <2>3. CASE CheckPrevious(v) /\ row[<<Lead(v), task[v].step - 1>>] = "sent"
    <3>1. /\ task[v].stage = "prev" /\ task[v].kind = "follow" /\ Enter(v, "check")
      BY <2>3 DEF CheckPrevious, At
    <3>2. /\ \A u \in Workers : u # v => task'[u] = task[u]
          /\ task'[v].lead = task[v].lead /\ task'[v].step = task[v].step
      BY <3>1, EnterFacts DEF Enter, Stages
    <3> QED BY <1>0, <2>3, <3>1, <3>2
  <2>4. CASE \/ Postpone(v) \/ FollowCatch(v) \/ MarkSent(v)
             \/ CheckPrevious(v) /\ row[<<Lead(v), task[v].step - 1>>] # "sent"
    <3>1. task[v].stage # "free" /\ Enter(v, "done")
      BY <2>4 DEF Postpone, FollowCatch, MarkSent, CheckPrevious, Defer, At
    <3> QED BY <1>2, <3>1 DEF Stages
  <2>5. CASE Done(v) \/ FollowThrows(v)
    BY <1>1, <2>5 DEF Done, FollowThrows
  <2> QED BY <1>5, <2>1, <2>2, <2>3, <2>4, <2>5 DEF FollowStep
<1>6. ASSUME NEW v \in Workers, DeliverStep(v) PROVE Goal
  <2>1. CASE StartDelivery(v)
    BY <1>3, <2>1 DEF StartDelivery, Stages
  <2>2. CASE StepDelivery(v) \/ CommitDelivery(v)
    BY <1>0, <2>2 DEF StepDelivery, CommitDelivery, seqvars
  <2>3. CASE EndDelivery(v) \/ NoNextStep(v) \/ LogNext(v) \/ AddNext(v) \/ TryFails(v)
    <3>1. /\ task[v].stage # "free"
          /\ \/ Leave(v)
             \/ \E s \in {"catch", "next", "mark", "add"} : Enter(v, s)
      BY <2>3 DEF EndDelivery, NoNextStep, LogNext, AddNext, TryFails, At
    <3> QED BY <1>1, <1>2, <3>1 DEF Stages
  <2> QED BY <1>6, <2>1, <2>2, <2>3 DEF DeliverStep
<1>7. ASSUME NEW v \in Workers, CrashInside(v) \/ CrashOutside(v) PROVE Goal
  BY <1>1, <1>7 DEF CrashInside, CrashOutside
<1>8. CASE SeqSurroundings
  BY <1>0, <1>8
  DEF SeqSurroundings, seqvars, Stalled, JobLost, WatchdogReads, WatchdogLooks,
      WatchdogMarks, KillStatus, KillPause, ToPool, ToMailbox, Answered, Bounced
<1>9. CASE UNCHANGED allvars
  BY <1>0, <1>9 DEF allvars, seqvars
<1> QED BY <1>4, <1>5, <1>6, <1>7, <1>8, <1>9 DEF SeqNext

-----------------------------------------------------------------------------
(* One step of a lead at a time.                                           *)

\* The state as far as these proofs need it.
TurnFacts == SeqInv /\ QuietInv /\ TurnInv

\* A step of a lead and the earlier ones are items.
LEMMA EarlierItems ==
    ASSUME NEW l \in Leads, NEW s \in 0 .. TopStep + 1, NEW r \in 0 .. s - 1
    PROVE  r \in Steps /\ <<l, r>> \in Items
BY StepsAssumption DEF Items

\* Steps that have been gone through stay so.
LEMMA BeforeStays ==
    ASSUME Quiet, TypeOK, QuietInv, [Next]_vars
    PROVE  \A l \in Leads, s \in 0 .. TopStep + 1 :
               Before(l, s) => \A r \in 0 .. s - 1 : Through(<<l, r>>)'
<1> SUFFICES ASSUME NEW l \in Leads, NEW s \in 0 .. TopStep + 1, Before(l, s),
                    NEW r \in 0 .. s - 1
             PROVE  Through(<<l, r>>)'
  OBVIOUS
<1>1. <<l, r>> \in Items /\ Through(<<l, r>>)
  BY EarlierItems DEF Before
<1> QED BY <1>1, ThroughStays

\* A caller about to deliver has a lead and a step.
LEMMA ApproachingFacts ==
    ASSUME CallersOK, NEW w \in Workers, Approaching(w)
    PROVE  Lead(w) \in Leads /\ task[w].step \in 0 .. TopStep + 1
<1>1. Lead(w) \in Leads /\ task[w].step \in Steps
  BY CallerFacts DEF Approaching
<1> QED BY <1>1, StepsAssumption

\* The delivery of a caller is about its step.
LEMMA DeliveryFacts ==
    ASSUME CallersOK, Joint, NEW w \in Workers, pc[w] # "idle"
    PROVE  /\ task[w].stage = "deliver" /\ Item(w) = <<Lead(w), task[w].step>>
           /\ Lead(w) \in Leads /\ task[w].step \in 0 .. TopStep
           /\ task[w].step \in Steps /\ Item(w) \in Items
<1>1. task[w].stage = "deliver" /\ Item(w) = This(w)
  BY DEF Joint, JointAt
<1>2. Lead(w) \in Leads /\ task[w].step \in Steps /\ This(w) \in Items
  BY <1>1, CallerFacts
<1> QED BY <1>1, <1>2, StepsAssumption DEF This, Lead

\* CursorThrough: the commit of a step moves currentStep past a step that is
\* through by then, and all the earlier ones were when it was taken up.
LEMMA CursorThroughStep ==
    ASSUME Quiet, TurnFacts, [SeqNext]_allvars, [Next]_vars, SentFree'
    PROVE  CursorThrough'
<1> SUFFICES ASSUME NEW l \in Leads PROVE Before(l, cursor[l])'
  BY DEF CursorThrough
<1>0. TypeOK /\ RecordsOK /\ CallersOK /\ Joint /\ QuietInv /\ TurnInv
  BY DEF TurnFacts, SeqInv
<1>1. cursor[l] \in 0 .. TopStep + 1 /\ Before(l, cursor[l])
  BY <1>0 DEF RecordsOK, TurnInv, CursorThrough
<1>2. cursor'[l] = cursor[l] => Before(l, cursor[l])'
  BY <1>0, <1>1, BeforeStays DEF Before
<1>3. ASSUME NEW w \in Workers, CommitDelivery(w), l = Lead(w)
      PROVE  Before(l, cursor[l])'
  <2> DEFINE s == task[w].step
  <2>1. /\ task[w].stage = "deliver" /\ pc[w] = "tx"
        /\ cursor' = [cursor EXCEPT ![Lead(w)] = s + 1]
        /\ row' = [row EXCEPT ![Item(w)] = IF row[Item(w)] = "none" THEN "none" ELSE "sent"]
    BY <1>3 DEF CommitDelivery, Promote, Goto, SetRow
  <2>2. Item(w) = <<l, s>> /\ s \in 0 .. TopStep /\ Item(w) \in Items
    BY <1>0, <1>3, <2>1, DeliveryFacts
  <2>3. Before(l, s)
    BY <1>0, <1>3, <2>1 DEF TurnInv, CallersThrough
  <2>4. \A r \in 0 .. s - 1 : Through(<<l, r>>)'
    BY <1>0, <2>2, <2>3, BeforeStays, StepsAssumption
  <2>5. row'[<<l, s>>] = "sent"
    BY <1>0, <2>1, <2>2 DEF TypeOK, QuietInv, OwnersHaveRows, Owning
  <2>6. \A i \in Items : row'[i] = "sent" => Through(i)'
    BY DEF SentFree
  <2>7. cursor'[l] = s + 1
    BY <1>0, <1>3, <2>1 DEF RecordsOK
  <2>8. \A r \in 0 .. s : Through(<<l, r>>)'
    <3> SUFFICES ASSUME NEW r \in 0 .. s PROVE Through(<<l, r>>)'
      OBVIOUS
    <3>1. CASE r \in 0 .. s - 1
      BY <2>4, <3>1
    <3>2. CASE r = s
      BY <2>2, <2>5, <2>6, <3>2
    <3> QED BY <2>2, <3>1, <3>2
  <2> QED BY <2>2, <2>7, <2>8 DEF Before
<1>4. ASSUME NEW w \in Workers, CommitDelivery(w), l # Lead(w)
      PROVE  cursor'[l] = cursor[l]
  BY <1>0, <1>4 DEF CommitDelivery, RecordsOK
<1> QED BY <1>1, <1>2, <1>3, <1>4, CursorMoves

\* CallersThrough: each of the three ways towards a delivery finds the earlier
\* steps through.
LEMMA CallersThroughStep ==
    ASSUME Quiet, TurnFacts, [SeqNext]_allvars, [Next]_vars
    PROVE  CallersThrough'
<1> SUFFICES ASSUME NEW w \in Workers, Approaching(w)'
             PROVE  Before(Lead(w), task[w].step)'
  BY DEF CallersThrough, Approaching
<1>0. TypeOK /\ RecordsOK /\ CallersOK /\ Joint /\ QuietInv /\ TurnInv
  BY DEF TurnFacts, SeqInv
<1>1. PICK l \in Leads, s \in 0 .. TopStep + 1 :
           task'[w].lead = l /\ task'[w].step = s
  <2>1. CallersOK'
    BY <1>0, CallersStep
  <2>2. task'[w].stage # "free" => task'[w] \in Tasks
    BY <2>1 DEF CallersOK
  <2> QED BY <2>2, StepsAssumption DEF Approaching, Tasks
<1>2. Before(l, s)
  <2>1. CASE Approaching(w) /\ l = task[w].lead /\ s = task[w].step
    BY <1>0, <2>1 DEF Approaching, TurnInv, CallersThrough, Lead
  <2>2. CASE s = cursor[l]
    BY <1>0, <2>2 DEF TurnInv, CursorThrough
  <2>3. CASE /\ task[w].kind = "follow" /\ task[w].stage # "free"
             /\ l = task[w].lead /\ s = task[w].step
             /\ row[<<Lead(w), task[w].step - 1>>] = "sent"
    <3>1. l \in Leads /\ s \in 1 .. LastStep
      BY <1>0, <2>3 DEF Joint, JointAt, This, FollowUps
    <3>2. s - 1 \in Steps /\ <<l, s - 1>> \in Items
      BY <3>1, StepsAssumption DEF Items
    <3>3. row[<<l, s - 1>>] = "sent"
      BY <2>3 DEF Lead
    <3>4. Through(<<l, s - 1>>)
      BY <1>0, <3>2, <3>3 DEF TurnInv, SentFree
    <3>5. Before(l, s - 1)
      BY <1>0, <3>1, <3>2, <3>3 DEF TurnInv, RowsInTurn
    <3> QED BY <3>1, <3>4, <3>5 DEF Before
  <2> QED BY <1>0, <1>1, <2>1, <2>2, <2>3, Approach
<1>3. \A r \in 0 .. s - 1 : Through(<<l, r>>)'
  BY <1>0, <1>2, BeforeStays
<1> QED BY <1>1, <1>3 DEF Lead, Before

\* RowsInTurn: a row is inserted by a caller that found the earlier steps
\* through.
LEMMA RowsInTurnStep ==
    ASSUME Quiet, TurnFacts, [Next]_vars
    PROVE  RowsInTurn'
<1> SUFFICES ASSUME NEW l \in Leads, NEW s \in Steps, row'[<<l, s>>] # "none"
             PROVE  Before(l, s)'
  BY DEF RowsInTurn
<1>0. TypeOK /\ CallersOK /\ Joint /\ QuietInv /\ TurnInv
  BY DEF TurnFacts, SeqInv
<1>1. s \in 0 .. TopStep + 1 /\ <<l, s>> \in Items
  BY StepsAssumption DEF Items
<1>2. CASE row[<<l, s>>] # "none"
  BY <1>0, <1>1, <1>2, BeforeStays DEF TurnInv, RowsInTurn, Before
<1>3. CASE row[<<l, s>>] = "none"
  <2>1. PICK w \in Workers : pc[w] = "prep" /\ Item(w) = <<l, s>>
    BY <1>0, <1>1, <1>3, RowMoves DEF Inserts, Removes, Promotes, Engages, TypeOK
  <2>2. task[w].stage = "deliver" /\ Lead(w) = l /\ task[w].step = s
    BY <1>0, <2>1, DeliveryFacts
  <2>3. Before(l, s)
    BY <1>0, <2>2 DEF TurnInv, CallersThrough
  <2> QED BY <1>0, <1>1, <2>3, BeforeStays DEF Before
<1> QED BY <1>2, <1>3

LEMMA TurnStep ==
    ASSUME Quiet, TurnFacts, [SeqNext]_allvars
    PROVE  TurnFacts'
<1>1. SeqInv' /\ [Next]_vars
  BY SeqInvStep DEF TurnFacts
<1>2. QuietInv'
  BY <1>1, QuietStep DEF TurnFacts, SeqInv
<1>3. SentFree'
  BY <1>1, SentFreeStep DEF TurnFacts, SeqInv, TurnInv
<1>4. CursorThrough' /\ CallersThrough' /\ RowsInTurn'
  BY <1>1, <1>3, CursorThroughStep, CallersThroughStep, RowsInTurnStep
<1> QED BY <1>1, <1>2, <1>3, <1>4 DEF TurnFacts, TurnInv

LEMMA TurnInit == SeqInit => TurnFacts
<1> SUFFICES ASSUME SeqInit PROVE TurnFacts
  OBVIOUS
<1>1. SeqInv /\ QuietInv
  BY SeqInvInit, QuietInit DEF SeqInit
<1>2. \A l \in Leads : Before(l, 0)
  BY DEF Before
<1>3. TurnInv
  BY <1>2 DEF SeqInit, Init, TurnInv, SentFree, CursorThrough, CallersThrough,
              RowsInTurn, NoTask, Items
<1> QED BY <1>1, <1>3 DEF TurnFacts

LEMMA TurnFactsHold ==
    ASSUME Quiet PROVE SeqSpec => []TurnFacts
BY TurnInit, TurnStep, PTL DEF SeqSpec, allvars

\* In a quiet environment, whatever leads to a delivery finds every earlier step
\* of the lead settled and given up by its worker.
THEOREM TurnInvHolds ==
    ASSUME Quiet PROVE SeqSpec => []TurnInv
<1>1. TurnFacts => TurnInv
  BY DEF TurnFacts
<1> QED BY <1>1, TurnFactsHold, PTL

\* So no two workers ever deliver steps of one lead at the same time, though a
\* batch with an old copy of the row, a follow-up, its retry and a job the
\* watchdog has added again may all be under way.
THEOREM OneStepAtATimeHolds ==
    ASSUME Quiet PROVE SeqSpec => []OneStepAtATime
<1>1. TurnFacts => OneStepAtATime
  <2> SUFFICES ASSUME TurnFacts, NEW v \in Workers, NEW w \in Workers,
                      pc[v] \in Owning, pc[w] \in Owning,
                      LeadOf(Item(v)) = LeadOf(Item(w))
               PROVE  v = w
    BY DEF OneStepAtATime
  <2>0. TypeOK /\ CallersOK /\ Joint /\ QuietInv /\ TurnInv
    BY DEF TurnFacts, SeqInv
  <2>1. /\ Item(v) = <<Lead(v), task[v].step>> /\ Item(w) = <<Lead(w), task[w].step>>
        /\ task[v].step \in Steps /\ task[w].step \in Steps
        /\ Lead(v) \in Leads /\ Item(v) \in Items
    BY <2>0, DeliveryFacts DEF Owning
  <2>2. Lead(v) = Lead(w)
    BY <2>1 DEF LeadOf
  <2>3. /\ Before(Lead(v), task[v].step) /\ Before(Lead(v), task[w].step)
    <3>1. row[Item(v)] # "none" /\ row[Item(w)] # "none"
      BY <2>0 DEF QuietInv, OwnersHaveRows
    <3> QED BY <2>0, <2>1, <2>2, <3>1 DEF TurnInv, RowsInTurn
  <2>4. Owns(v, Item(v)) /\ Owns(w, Item(w))
    BY DEF Owns
  <2>5. ~ task[v].step < task[w].step /\ ~ task[w].step < task[v].step
    BY <2>1, <2>2, <2>3, <2>4, StepsAssumption DEF Before, Through
  <2>6. Item(v) = Item(w)
    BY <2>1, <2>2, <2>5, StepsAssumption
  <2> QED BY <2>0, <2>1, <2>4, <2>6 DEF QuietInv, OneSender
<1> QED BY <1>1, TurnFactsHold, PTL

\* And currentStep never goes back: a worker that commits a step owns it, and
\* every step below currentStep has been given up.
THEOREM CursorForwardHolds ==
    ASSUME Quiet PROVE SeqSpec => CursorForward
<1>1. ASSUME TurnFacts, [SeqNext]_allvars
      PROVE  \A l \in Leads : cursor'[l] >= cursor[l]
  <2> SUFFICES ASSUME NEW l \in Leads PROVE cursor'[l] >= cursor[l]
    OBVIOUS
  <2>0. TypeOK /\ RecordsOK /\ CallersOK /\ Joint /\ QuietInv /\ TurnInv
    BY <1>1 DEF TurnFacts, SeqInv
  <2>1. cursor[l] \in 0 .. TopStep + 1
    BY <2>0 DEF RecordsOK
  <2>2. ASSUME NEW w \in Workers, CommitDelivery(w) PROVE cursor'[l] >= cursor[l]
    <3>1. /\ pc[w] = "tx"
          /\ cursor' = [cursor EXCEPT ![Lead(w)] = task[w].step + 1]
      BY <2>2 DEF CommitDelivery, Promote, Goto
    <3>2. Item(w) = <<Lead(w), task[w].step>> /\ task[w].step \in 0 .. TopStep
      BY <2>0, <3>1, DeliveryFacts
    <3>3. CASE l = Lead(w)
      <4>1. ~ Through(<<l, task[w].step>>)
        BY <3>1, <3>2, <3>3 DEF Through, Owns, Owning
      <4>2. Before(l, cursor[l])
        BY <2>0 DEF TurnInv, CursorThrough
      <4>3. task[w].step >= cursor[l]
        BY <2>1, <3>2, <4>1, <4>2 DEF Before
      <4> QED BY <2>0, <2>1, <3>1, <3>2, <3>3, <4>3, StepsAssumption DEF RecordsOK
    <3>4. CASE l # Lead(w)
      BY <2>0, <2>1, <3>1, <3>4, StepsAssumption DEF RecordsOK
    <3> QED BY <3>3, <3>4
  <2> QED BY <1>1, <2>1, <2>2, CursorMoves, StepsAssumption
<1> QED BY <1>1, TurnFactsHold, PTL DEF SeqSpec, CursorForward, allvars

-----------------------------------------------------------------------------
(* Refinement: the callers implement SendInTurn.                           *)

\* Only a worker at its send mails anything, and it mails its item.
LEMMA MailMoves ==
    ASSUME [Next]_vars
    PROVE  \/ mail' = mail
           \/ \E w \in Workers : /\ pc[w] = "send"
                                 /\ mail' = [mail EXCEPT ![Item(w)] = @ + 1]
<1>1. ASSUME NEW w \in Workers, Attempt(w)
      PROVE  \/ mail' = mail
             \/ pc[w] = "send" /\ mail' = [mail EXCEPT ![Item(w)] = @ + 1]
  BY <1>1 DEF Attempt, SkipWeekend, NoBody, Insert, InsertAckLost, ReadConflict,
      Purge, AcquireGuard, GuardHeld, DedupPass, DedupSkip, SkipNoMx, SendOk,
      SendFail, SendAckLost, ReleaseOnError, DeleteRow, ReleaseAfterSend,
      MarkLead, Promote, DbError, Finish, Goto, past
<1>2. ASSUME NEW w \in Workers, Crash(w) PROVE mail' = mail
  BY <1>2 DEF Crash, past
<1>3. ASSUME NEW w \in Workers, NEW j \in Jobs, Begin(w, j) \/ AlreadySent(w, j)
      PROVE  mail' = mail
  BY <1>3 DEF Begin, AlreadySent, past
<1>4. CASE Surroundings \/ UNCHANGED vars
  BY <1>4 DEF Surroundings, GuardExpires, RecentExpires, MailedElsewhere,
              RowAges, Engage, past, vars
<1> QED BY <1>1, <1>2, <1>3, <1>4 DEF Next

\* The commit of a delivery is the abstract Advance: the row it promotes is the
\* committing worker's own, and currentStep has not passed the step.
LEMMA CommitAdvances ==
    ASSUME TurnFacts, Honest, NEW w \in Workers, CommitDelivery(w)
    PROVE  InTurn!Next
<1>0. /\ TypeOK /\ RecordsOK /\ CallersOK /\ Joint /\ QuietInv /\ TurnInv
      /\ Facts
  BY DEF TurnFacts, SeqInv, Facts
<1> DEFINE l == Lead(w)
           s == task[w].step
<1>1. /\ pc[w] = "tx" /\ mail' = mail
      /\ cursor' = [cursor EXCEPT ![l] = s + 1]
      /\ row' = [row EXCEPT ![Item(w)] = IF row[Item(w)] = "none" THEN "none" ELSE "sent"]
  BY DEF CommitDelivery, Promote, Goto, SetRow, past
<1>2. Item(w) = <<l, s>> /\ l \in Leads /\ s \in Steps /\ s \in 0 .. TopStep
  BY <1>0, <1>1, DeliveryFacts
<1>3. mail[<<l, s>>] = 1 /\ <<l, s>> \in Items /\ row[<<l, s>>] # "none"
  BY <1>0, <1>1, <1>2, OwnersMail DEF Owning, Unsent, QuietInv, OwnersHaveRows
<1>4. cursor[l] <= s
  <2>1. ~ Through(<<l, s>>)
    BY <1>1, <1>2 DEF Through, Owns, Owning
  <2>2. Before(l, cursor[l]) /\ cursor[l] \in 0 .. TopStep + 1
    BY <1>0, <1>2 DEF TurnInv, CursorThrough, RecordsOK
  <2> QED BY <1>2, <2>1, <2>2, StepsAssumption DEF Before
<1>5. Settled' = Settled \cup {<<l, s>>}
  BY <1>0, <1>1, <1>2, <1>3 DEF Settled, TypeOK
<1>6. InTurn!Advance(l, s)
  BY <1>1, <1>3, <1>4, <1>5 DEF InTurn!Advance
<1> QED BY <1>2, <1>6 DEF InTurn!Next

\* Any other step is a step of SendOnce, and the message of a step leaves only
\* when every earlier one is settled.
LEMMA InTurnStep ==
    ASSUME Admitted = {}, TurnFacts, Honest, [SeqNext]_allvars
    PROVE  [InTurn!Next]_(InTurn!vars)
<1>0. /\ TypeOK /\ CallersOK /\ Joint /\ TurnInv /\ Facts /\ [Next]_vars
  BY Simulation DEF TurnFacts, SeqInv, Facts
<1>1. CASE \E w \in Workers : CommitDelivery(w)
  BY <1>1, CommitAdvances
<1>2. CASE cursor' = cursor
  <2>1. [Once!Next]_(Once!vars)
    BY <1>0, SimulationStep
  <2>2. CASE UNCHANGED Once!vars
    BY <1>2, <2>2 DEF Once!vars, InTurn!vars
  <2>3. ASSUME NEW i \in Items, Once!Settle(i) PROVE InTurn!Next
    <3>1. PICK l \in Leads, s \in Steps : i = <<l, s>>
      BY DEF Items
    <3>2. InTurn!Settle(l, s)
      BY <1>2, <2>3, <3>1 DEF Once!Settle, InTurn!Settle
    <3> QED BY <3>2 DEF InTurn!Next
  <2>4. ASSUME NEW i \in Items, Once!Mail(i) PROVE InTurn!Next
    <3>1. mail[i] = 0 /\ mail' = [mail EXCEPT ![i] = 1] /\ Settled' = Settled
      BY <2>4 DEF Once!Mail
    <3>2. PICK w \in Workers : pc[w] = "send" /\ Item(w) = i
      <4>1. mail'[i] # mail[i]
        BY <1>0, <3>1 DEF TypeOK
      <4>2. PICK w \in Workers :
               pc[w] = "send" /\ mail' = [mail EXCEPT ![Item(w)] = @ + 1]
        BY <1>0, <4>1, MailMoves
      <4> QED BY <1>0, <4>1, <4>2 DEF TypeOK
    <3> DEFINE l == Lead(w)
               s == task[w].step
    <3>3. i = <<l, s>> /\ l \in Leads /\ s \in Steps /\ task[w].stage = "deliver"
      BY <1>0, <3>2, DeliveryFacts
    <3>4. \A r \in 0 .. s - 1 : <<l, r>> \in Settled
      BY <1>0, <3>3 DEF TurnInv, CallersThrough, Before, Through
    <3>5. InTurn!Mail(l, s)
      BY <1>2, <3>1, <3>3, <3>4 DEF InTurn!Mail
    <3> QED BY <3>3, <3>5 DEF InTurn!Next
  <2> QED BY <2>1, <2>2, <2>3, <2>4 DEF Once!Next
<1> QED BY <1>1, <1>2, CursorMoves

\* Without Disturbances the batches, the follow-ups, their retries, the watchdog
\* and the other writers of the rows together implement SendInTurn: each lead
\* gets the steps one after the other, each once and on record before the next
\* leaves, and currentStep follows.
THEOREM InTurnRefinement ==
    ASSUME Admitted = {} PROVE SeqSpec => ImplementsInTurn
<1>1. Quiet
  BY DEF Quiet
<1>2. SeqInit => InTurn!Init
  BY DEF SeqInit, Init, InTurn!Init, Settled, Items
<1>3. SeqSpec => []Honest
  BY DeliveryImplemented, HonestHolds, PTL DEF ImplementsDelivery
<1> QED BY <1>1, <1>2, <1>3, TurnFactsHold, InTurnStep, PTL
        DEF SeqSpec, ImplementsInTurn, InTurn!Spec, allvars

\* Nor is the record of a lead's step ever removed or taken back.
THEOREM SequenceSettledStays ==
    ASSUME Admitted = {} PROVE SeqSpec => SettledStays
BY DeliveryImplemented, SettledStaysHolds, PTL DEF ImplementsDelivery

-----------------------------------------------------------------------------
(* A lead between two steps keeps its next step's record.                  *)

\* Faults and losses are counted for good.
LEMMA FaultsGrow ==
    ASSUME [Next]_vars
    PROVE  faults' = faults \/ Fault
<1>1. ASSUME NEW w \in Workers, Attempt(w) PROVE faults' = faults \/ Fault
  BY <1>1 DEF Attempt, SkipWeekend, NoBody, Insert, InsertAckLost, ReadConflict,
      Purge, AcquireGuard, GuardHeld, DedupPass, DedupSkip, SkipNoMx, SendOk,
      SendFail, SendAckLost, ReleaseOnError, DeleteRow, ReleaseAfterSend,
      MarkLead, Promote, DbError, Finish, ReleaseLock, NoFault
<1>2. ASSUME NEW w \in Workers, Crash(w) PROVE Fault
  BY <1>2 DEF Crash
<1>3. ASSUME NEW w \in Workers, NEW j \in Jobs, Begin(w, j) \/ AlreadySent(w, j)
      PROVE  faults' = faults
  BY <1>3 DEF Begin, AlreadySent
<1>4. CASE Surroundings \/ UNCHANGED vars
  BY <1>4 DEF Surroundings, GuardExpires, RecentExpires, MailedElsewhere,
              RowAges, Engage, NoFault, vars
<1> QED BY <1>1, <1>2, <1>3, <1>4 DEF Next

LEMMA LossesGrow ==
    ASSUME [SeqNext]_allvars
    PROVE  losses' = losses \/ Loss
<1>1. ASSUME NEW w \in Workers, BatchStep(w) \/ FollowStep(w)
      PROVE  losses' = losses \/ Loss
  BY <1>1 DEF BatchStep, PickLead, Claim, Exclude, Yield, ProviderLimit,
              EmailUndeliverable, BatchCatch, FollowStep, TakeFollowUp, GateLead,
              Postpone, CheckPrevious, FollowCatch, MarkSent, Done, FollowThrows,
              Defer, LogPending, LogAs, NoLoss
<1>2. ASSUME NEW w \in Workers, DeliverStep(w) PROVE losses' = losses \/ Loss
  BY <1>2 DEF DeliverStep, StartDelivery, StepDelivery, CommitDelivery, EndDelivery,
              NoNextStep, LogNext, AddNext, TryFails, LogPending, NoLoss, seqvars
<1>3. ASSUME NEW w \in Workers, CrashInside(w) \/ CrashOutside(w)
      PROVE  losses' = losses \/ Loss
  BY <1>3 DEF CrashInside, CrashOutside
<1>4. CASE SeqSurroundings
  BY <1>4 DEF SeqSurroundings, seqvars, Stalled, JobLost, WatchdogReads,
              WatchdogLooks, WatchdogMarks, KillStatus, KillPause, ToPool, ToMailbox,
              Answered, Bounced, NoLoss
<1>5. CASE UNCHANGED allvars
  BY <1>5 DEF allvars, seqvars
<1> QED BY <1>1, <1>2, <1>3, <1>4, <1>5 DEF SeqNext

\* The part of KeptInv that is about one lead.
Kept(l) ==
    lstatus[l] = "sent" /\ cursor[l] <= LastStep =>
        \/ flog[<<l, cursor[l]>>] # "none"
        \/ \E w \in Workers : Scheduling(w, l, cursor[l])

\* A step that no lead reads 'sent' after unless it did before, that moves no
\* currentStep and removes no row keeps KeptInv, if whoever was about to write
\* a row still is, or has written it, or had none to write.
LEMMA KeptMove ==
    ASSUME RecordsOK, CursorTruth, \A l \in Leads : Kept(l), cursor' = cursor,
           \A l \in Leads : lstatus'[l] = "sent" => lstatus[l] = "sent",
           \A f \in FollowUps : flog[f] # "none" => flog'[f] # "none",
           \A w \in Workers : \A l \in Leads, s \in 1 .. LastStep :
              Scheduling(w, l, s) =>
                 \/ /\ task'[w] # NoTask /\ task'[w].lead = l /\ task'[w].step + 1 = s
                    /\ \/ task'[w].stage = "deliver" /\ pc'[w] = "returned"
                       \/ task'[w].stage = "next"
                 \/ flog'[<<l, s>>] # "none"
    PROVE  \A l \in Leads : Kept(l)'
<1> SUFFICES ASSUME NEW l \in Leads, lstatus'[l] = "sent", cursor[l] <= LastStep
             PROVE  \/ flog'[<<l, cursor[l]>>] # "none"
                    \/ \E w \in Workers :
                          /\ task'[w] # NoTask /\ task'[w].lead = l
                          /\ task'[w].step + 1 = cursor[l]
                          /\ \/ task'[w].stage = "deliver" /\ pc'[w] = "returned"
                             \/ task'[w].stage = "next"
  BY DEF Kept, Scheduling, Lead
<1>1. cursor[l] \in 1 .. LastStep
  BY StepsAssumption DEF RecordsOK, CursorTruth
<1>2. <<l, cursor[l]>> \in FollowUps
  BY <1>1 DEF FollowUps
<1>3. CASE flog[<<l, cursor[l]>>] # "none"
  BY <1>2, <1>3
<1>4. ASSUME NEW w \in Workers, Scheduling(w, l, cursor[l])
      PROVE  \/ /\ task'[w] # NoTask /\ task'[w].lead = l
                /\ task'[w].step + 1 = cursor[l]
                /\ \/ task'[w].stage = "deliver" /\ pc'[w] = "returned"
                   \/ task'[w].stage = "next"
             \/ flog'[<<l, cursor[l]>>] # "none"
  BY <1>1, <1>4
<1> QED BY <1>3, <1>4 DEF Kept

\* As long as nothing fails, every step of the callers and their surroundings
\* keeps KeptInv.
LEMMA KeptStep ==
    ASSUME SeqInv, KeptInv, [SeqNext]_allvars
    PROVE  KeptInv'
<1>0. TypeOK /\ RecordsOK /\ CallersOK /\ Joint /\ CursorTruth /\ [Next]_vars
  BY Simulation DEF SeqInv, OrderInv
<1> SUFFICES ASSUME faults' = 0, losses' = 0 PROVE \A l \in Leads : Kept(l)'
  BY DEF KeptInv, Kept, Scheduling, Lead
<1>a. faults = 0 /\ losses = 0 /\ ~ Fault /\ ~ Loss
  BY <1>0, FaultsGrow, LossesGrow DEF Fault, Loss, TypeOK, RecordsOK
<1>b. \A l \in Leads : Kept(l)
  BY <1>a DEF KeptInv, Kept
<1> DEFINE Calm == /\ cursor' = cursor
                   /\ \A l \in Leads : lstatus'[l] = "sent" => lstatus[l] = "sent"
                   /\ \A f \in FollowUps : flog[f] # "none" => flog'[f] # "none"
           Busy(w) == \/ task[w].stage = "deliver" /\ pc[w] = "returned"
                      \/ task[w].stage = "next"
\* a step of a worker that was not about to write a row
<1>c. ASSUME NEW w \in Workers, Calm, ~ Busy(w),
             \A v \in Workers : v # w => task'[v] = task[v] /\ pc'[v] = pc[v]
      PROVE  \A l \in Leads : Kept(l)'
  BY <1>0, <1>b, <1>c, KeptMove DEF Scheduling, Lead
<1>1. ASSUME NEW w \in Workers, BatchStep(w) PROVE \A l \in Leads : Kept(l)'
  <2>1. Calm /\ UNCHANGED pc
    BY <1>0, <1>1
    DEF BatchStep, PickLead, Claim, Exclude, Yield, ProviderLimit,
        EmailUndeliverable, BatchCatch, SetStatus, RecordsOK, lead, queue, vars
  <2>2. ~ Busy(w)
    BY <1>1 DEF BatchStep, PickLead, Claim, Exclude, Yield, ProviderLimit,
        EmailUndeliverable, BatchCatch, At, NoTask
  <2>3. \A v \in Workers : v # w => task'[v] = task[v]
    BY <1>0, <1>1
    DEF BatchStep, PickLead, Claim, Exclude, Yield, ProviderLimit,
        EmailUndeliverable, BatchCatch, Enter, Leave, CallersOK
  <2> QED BY <1>c, <2>1, <2>2, <2>3
<1>2. ASSUME NEW w \in Workers, FollowStep(w) PROVE \A l \in Leads : Kept(l)'
  <2>1. \A f \in FollowUps : flog[f] # "none" => flog'[f] # "none"
    BY <1>0, <1>2
    DEF FollowStep, TakeFollowUp, GateLead, Postpone, CheckPrevious, FollowCatch,
        MarkSent, Done, FollowThrows, Defer, LogPending, LogAs, SetLog, RecordsOK,
        queue
  <2>2. Calm /\ UNCHANGED pc
    BY <1>0, <1>2, <2>1
    DEF FollowStep, TakeFollowUp, GateLead, Postpone, CheckPrevious, FollowCatch,
        MarkSent, Done, FollowThrows, SetStatus, RecordsOK, lead, vars
  <2>3. ~ Busy(w)
    BY <1>2
    DEF FollowStep, TakeFollowUp, GateLead, Postpone, CheckPrevious, FollowCatch,
        MarkSent, Done, FollowThrows, At, NoTask
  <2>4. \A v \in Workers : v # w => task'[v] = task[v]
    BY <1>0, <1>2
    DEF FollowStep, TakeFollowUp, GateLead, Postpone, CheckPrevious, FollowCatch,
        MarkSent, Done, FollowThrows, Defer, Enter, Leave, CallersOK
  <2> QED BY <1>c, <2>2, <2>3, <2>4
<1>3. ASSUME NEW w \in Workers, DeliverStep(w) PROVE \A l \in Leads : Kept(l)'
  <2>0. task[w].stage # "free" => Lead(w) \in Leads /\ task[w].step \in Nat
    BY <1>0, CallerFacts, StepsAssumption
  <2>1. CASE StartDelivery(w)
    <3>1. Calm /\ task[w].stage = "check"
      BY <2>1 DEF StartDelivery, lead, queue
    <3>2. \A v \in Workers : v # w => task'[v] = task[v] /\ pc'[v] = pc[v]
      BY <1>0, <2>1 DEF StartDelivery, Enter, Begin, AlreadySent, Goto, CallersOK, TypeOK
    <3> QED BY <1>c, <3>1, <3>2
  <2>2. CASE StepDelivery(w)
    <3>1. Calm /\ task' = task /\ task[w].stage = "deliver"
      BY <2>2 DEF StepDelivery, seqvars
    <3>2. \E from, to \in PCs \ {"idle", "returned"} :
             Goto(w, from, to) \/ Goto(w, from, "returned")
      BY <2>2 DEF StepDelivery, PCs, SkipWeekend, NoBody, Insert,
          InsertAckLost, ReadConflict, Purge, AcquireGuard, GuardHeld, DedupPass,
          DedupSkip, SkipNoMx, SendOk, SendFail, SendAckLost, ReleaseOnError,
          DeleteRow, ReleaseAfterSend, MarkLead, DbError
    <3>3. pc[w] # "returned" /\ \A v \in Workers : v # w => pc'[v] = pc[v]
      BY <1>0, <3>2 DEF Goto, TypeOK
    <3> QED BY <1>c, <3>1, <3>3
  <2>3. CASE CommitDelivery(w)
    \* without a fault the transaction's answer arrives, and w goes on to schedule
    <3>1. /\ task' = task /\ flog' = flog /\ task[w].stage = "deliver"
          /\ lstatus' = [lstatus EXCEPT ![Lead(w)] = "sent"]
          /\ cursor' = [cursor EXCEPT ![Lead(w)] = task[w].step + 1]
          /\ pc' = [pc EXCEPT ![w] = "returned"]
      BY <1>a, <2>3 DEF CommitDelivery, Promote, Goto, SetStatus, queue
    <3>2. ASSUME NEW l \in Leads, l = Lead(w) PROVE Kept(l)'
      <4>1. cursor'[l] = task[w].step + 1 /\ pc'[w] = "returned"
        BY <1>0, <3>1, <3>2 DEF RecordsOK, TypeOK
      <4>2. task[w] # NoTask
        BY <3>1 DEF NoTask
      <4>3. Scheduling(w, l, cursor[l])'
        BY <3>1, <3>2, <4>1, <4>2 DEF Scheduling, Lead
      <4> QED BY <4>3 DEF Kept
    <3>3. ASSUME NEW l \in Leads, l # Lead(w) PROVE Kept(l)'
      <4>1. cursor'[l] = cursor[l] /\ lstatus'[l] = lstatus[l]
        BY <1>0, <3>1, <3>3 DEF RecordsOK
      <4>2. ASSUME NEW v \in Workers, Scheduling(v, l, cursor[l])
            PROVE  Scheduling(v, l, cursor[l])'
        BY <1>0, <3>1, <3>3, <4>1, <4>2 DEF Scheduling, Lead, TypeOK
      <4> QED BY <1>b, <3>1, <4>1, <4>2 DEF Kept
    <3> QED BY <3>2, <3>3
  <2>4. CASE EndDelivery(w)
    <3>1. Calm /\ task[w].stage = "deliver" /\ Finish(w)
      BY <2>4 DEF EndDelivery, lead, queue
    <3>2. \A v \in Workers : v # w => task'[v] = task[v] /\ pc'[v] = pc[v]
      BY <1>0, <2>4 DEF EndDelivery, Enter, Finish, Goto, CallersOK, TypeOK
    <3>3. CASE pc[w] = "threw"
      BY <1>c, <3>1, <3>2, <3>3
    <3>4. CASE pc[w] # "threw"
      <4>1. Enter(w, "next")
        BY <2>4, <3>4 DEF EndDelivery
      <4>2. /\ task'[w].stage = "next" /\ task'[w].lead = task[w].lead
            /\ task'[w].step = task[w].step
        BY <1>0, <3>1, <4>1, EnterFacts DEF Enter, Stages
      <4>3. task'[w] # NoTask
        BY <4>2 DEF NoTask
      <4> QED BY <1>0, <1>b, <3>1, <3>2, <4>2, <4>3, KeptMove DEF Scheduling, Lead
    <3> QED BY <3>3, <3>4
  <2>5. CASE NoNextStep(w)
    <3>1. Calm /\ pc' = pc /\ task[w].stage = "next" /\ task[w].step >= LastStep
      BY <2>5 DEF NoNextStep, lead, queue, vars
    <3>2. \A v \in Workers : v # w => task'[v] = task[v]
      BY <1>0, <2>5 DEF NoNextStep, Enter, Leave, CallersOK
    <3>3. \A l \in Leads, s \in 1 .. LastStep : ~ Scheduling(w, l, s)
      BY <2>0, <3>1, StepsAssumption DEF Scheduling
    <3> QED BY <1>0, <1>b, <3>1, <3>2, <3>3, KeptMove DEF Scheduling, Lead
  <2>6. CASE LogNext(w)
    <3>1. /\ cursor' = cursor /\ lstatus' = lstatus /\ pc' = pc
          /\ task[w].stage = "next" /\ task[w].step < LastStep
          /\ flog' = [flog EXCEPT ![After(w)] = "pending"]
      BY <1>a, <2>6 DEF LogNext, LogPending, SetLog, lead, vars
    <3>2. \A v \in Workers : v # w => task'[v] = task[v]
      BY <1>0, <2>6 DEF LogNext, Enter, CallersOK
    <3>3. Calm
      BY <1>0, <3>1 DEF RecordsOK
    <3>4. After(w) \in FollowUps
      BY <2>0, <3>1, StepsAssumption DEF After, Lead, FollowUps
    <3>5. flog'[After(w)] = "pending"
      BY <1>0, <3>1, <3>4 DEF RecordsOK
    <3>6. \A l \in Leads, s \in 1 .. LastStep :
             Scheduling(w, l, s) => flog'[<<l, s>>] # "none"
      BY <3>5 DEF Scheduling, After, Lead
    <3> QED BY <1>0, <1>b, <3>1, <3>2, <3>3, <3>6, KeptMove DEF Scheduling, Lead
  <2>7. CASE AddNext(w)
    <3>1. Calm /\ pc' = pc /\ task[w].stage = "add"
      BY <2>7 DEF AddNext, lead, vars
    <3>2. \A v \in Workers : v # w => task'[v] = task[v]
      BY <1>0, <2>7 DEF AddNext, Enter, Leave, CallersOK
    <3> QED BY <1>c, <3>1, <3>2
  <2>8. CASE TryFails(w)
    BY <1>a, <2>8 DEF TryFails
  <2> QED BY <1>3, <2>1, <2>2, <2>3, <2>4, <2>5, <2>6, <2>7, <2>8 DEF DeliverStep
<1>4. ASSUME NEW w \in Workers, CrashInside(w) \/ CrashOutside(w) PROVE FALSE
  BY <1>a, <1>4 DEF CrashInside, CrashOutside, Crash
<1>5. CASE SeqSurroundings \/ UNCHANGED allvars
  <2>1. task' = task /\ pc' = pc /\ cursor' = cursor
    BY <1>5 DEF SeqSurroundings, allvars, seqvars, vars, lead, Surroundings,
        GuardExpires, RecentExpires, MailedElsewhere, RowAges, Engage, Stalled,
        JobLost, WatchdogReads, WatchdogLooks, WatchdogMarks, KillStatus, KillPause,
        ToPool, ToMailbox, Answered, Bounced
  <2>2. \A l \in Leads : lstatus'[l] = "sent" => lstatus[l] = "sent"
    BY <1>0, <1>5 DEF SeqSurroundings, allvars, seqvars, lead, SetStatus, RecordsOK,
        Stalled, JobLost, WatchdogReads, WatchdogLooks, WatchdogMarks, KillStatus,
        KillPause, ToPool, ToMailbox, Answered, Bounced
  <2>3. \A f \in FollowUps : flog[f] # "none" => flog'[f] # "none"
    BY <1>0, <1>5 DEF SeqSurroundings, allvars, seqvars, queue, SetLog, RecordsOK,
        Stalled, JobLost, WatchdogReads, WatchdogLooks, WatchdogMarks, KillStatus,
        KillPause, ToPool, ToMailbox, Answered, Bounced
  <2> QED BY <1>0, <1>b, <2>1, <2>2, <2>3, KeptMove DEF Scheduling, Lead
<1> QED BY <1>1, <1>2, <1>3, <1>4, <1>5 DEF SeqNext

LEMMA KeptInit == SeqInit => KeptInv
BY DEF SeqInit, KeptInv

\* As long as nothing fails, the next step of a lead that reads 'sent' has its
\* row, or the worker that committed the previous step is about to write it.
THEOREM KeptInvHolds == SeqSpec => []KeptInv
BY KeptInit, KeptStep, SeqInvHolds, PTL DEF SeqSpec, allvars

\* Hence a lead nobody is working on never loses its next step to an order of
\* the processors, the retries and the watchdog: a crash or a failed query
\* between the commit and the row is the only way.
THEOREM FollowUpKeptHolds == SeqSpec => []FollowUpKept
<1>1. SeqInv /\ KeptInv => FollowUpKept
  <2> SUFFICES ASSUME SeqInv, KeptInv, faults = 0, losses = 0, NEW l \in Leads,
                      lstatus[l] = "sent", cursor[l] <= LastStep,
                      \A w \in Workers : task[w] # NoTask => Lead(w) # l
               PROVE  flog[<<l, cursor[l]>>] # "none"
    BY DEF FollowUpKept
  <2> QED BY DEF KeptInv, Scheduling
<1> QED BY <1>1, SeqInvHolds, KeptInvHolds, PTL
=============================================================================
