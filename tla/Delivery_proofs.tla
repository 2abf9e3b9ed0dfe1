-------------------------- MODULE Delivery_proofs --------------------------
(***************************************************************************)
(* Proofs about Delivery, for any sets of workers, leads and steps and any *)
(* number of faults.                                                       *)
(***************************************************************************)
EXTENDS Delivery, TLAPS

\* The type invariant is inductive as it stands: every step of deliver*()
\* and of its surroundings leaves the tables, keys and workers well formed.
LEMMA TypeStep == TypeOK /\ [Next]_vars => TypeOK'
<1> SUFFICES ASSUME TypeOK, [Next]_vars PROVE TypeOK'
  OBVIOUS
<1> USE FaultsAssumption
<1> USE DEF TypeOK, Goto, Fault, NoFault, SetRow, DropRow, AddRow, ReleaseLock,
            Item, LeadOf, ByEmail, Statuses, PCs, Items, Jobs, Channels,
            db, past
<1>1. ASSUME NEW w \in Workers, Attempt(w) PROVE TypeOK'
  <2>1. CASE SkipWeekend(w)
    BY <2>1 DEF SkipWeekend
  <2>2. CASE NoBody(w)
    BY <2>2 DEF NoBody
  <2>3. CASE Insert(w)
    BY <2>3 DEF Insert
  <2>4. CASE InsertAckLost(w)
    BY <2>4 DEF InsertAckLost
  <2>5. CASE ReadConflict(w)
    BY <2>5 DEF ReadConflict
  <2>6. CASE Purge(w)
    BY <2>6 DEF Purge
  <2>7. CASE AcquireGuard(w)
    BY <2>7 DEF AcquireGuard
  <2>8. CASE GuardHeld(w)
    BY <2>8 DEF GuardHeld
  <2>9. CASE DedupPass(w)
    BY <2>9 DEF DedupPass
  <2>10. CASE DedupSkip(w)
    BY <2>10 DEF DedupSkip
  <2>11. CASE SkipNoMx(w)
    BY <2>11 DEF SkipNoMx
  <2>12. CASE SendOk(w)
    BY <2>12 DEF SendOk
  <2>13. CASE SendFail(w)
    BY <2>13 DEF SendFail
  <2>14. CASE SendAckLost(w)
    BY <2>14 DEF SendAckLost
  <2>15. CASE ReleaseOnError(w)
    BY <2>15 DEF ReleaseOnError
  <2>16. CASE DeleteRow(w)
    BY <2>16 DEF DeleteRow
  <2>17. CASE ReleaseAfterSend(w)
    BY <2>17 DEF ReleaseAfterSend
  <2>18. CASE MarkLead(w)
    BY <2>18 DEF MarkLead
  <2>19. CASE Promote(w)
    BY <2>19 DEF Promote
  <2>20. CASE DbError(w)
    BY <2>20 DEF DbError
  <2>21. CASE Finish(w)
    BY <2>21 DEF Finish
  <2> QED BY <1>1, <2>1, <2>2, <2>3, <2>4, <2>5, <2>6, <2>7, <2>8, <2>9, <2>10, <2>11,
      <2>12, <2>13, <2>14, <2>15, <2>16, <2>17, <2>18, <2>19, <2>20, <2>21 DEF Attempt
<1>2. ASSUME NEW w \in Workers, Crash(w) PROVE TypeOK'
  BY <1>2 DEF Crash
<1>3. ASSUME NEW w \in Workers, NEW j \in Jobs, Begin(w, j) \/ AlreadySent(w, j)
      PROVE  TypeOK'
  <2>1. PICK to \in {"prep", "returned"} :
          /\ pc' = [pc EXCEPT ![w] = to]
          /\ job' = [job EXCEPT ![w] = j]
          /\ UNCHANGED <<row, stale, guard, recent, mail, lied, faults>>
    BY <1>3 DEF Begin, AlreadySent
  <2>2. job' \in [Workers -> Jobs \cup {NoJob}] /\ pc' \in [Workers -> PCs]
    BY <2>1
  <2>3. \A v \in Workers : pc'[v] # "idle" => job'[v] \in Jobs
    BY <2>1
  <2> QED BY <2>1, <2>2, <2>3
<1>4. CASE Surroundings
  <2>1. ASSUME NEW j \in Jobs, GuardExpires(j) PROVE TypeOK'
    BY <2>1 DEF GuardExpires
  <2>2. ASSUME NEW l \in Leads, RecentExpires(l) \/ MailedElsewhere(l)
        PROVE  TypeOK'
    BY <2>2 DEF RecentExpires, MailedElsewhere
  <2>3. ASSUME NEW i \in Items, RowAges(i) \/ Engage(i) PROVE TypeOK'
    BY <2>3 DEF RowAges, Engage
  <2> QED BY <1>4, <2>1, <2>2, <2>3 DEF Surroundings
<1>5. CASE UNCHANGED vars
  BY <1>5 DEF vars
<1> QED BY <1>1, <1>2, <1>3, <1>4, <1>5 DEF Next

\* The tables, keys and workers keep their types.
THEOREM TypeCorrect == Spec => []TypeOK
<1>1. Init => TypeOK
  BY FaultsAssumption DEF Init, TypeOK, Statuses, PCs
<1> QED BY <1>1, TypeStep, PTL DEF Spec

-----------------------------------------------------------------------------
(* RowTruth: what the table says was sent was sent.                        *)

\* TruthInv is inductive: a worker gets past its send only by a send that left,
\* messages never come back, and only such a worker writes 'sent'.
LEMMA TruthStep == TypeOK /\ TruthInv /\ [Next]_vars => TruthInv'
<1> SUFFICES ASSUME TypeOK, TruthInv, [Next]_vars PROVE TruthInv'
  OBVIOUS
<1> USE DEF TypeOK, TruthInv, SentTruth, RowTruth, Settled, Goto, Item,
            Items, Jobs
<1>1. ASSUME NEW w \in Workers, Attempt(w) PROVE TruthInv'
  <2>1. CASE SkipWeekend(w)
    BY <2>1 DEF SkipWeekend, db, past
  <2>2. CASE NoBody(w)
    BY <2>2 DEF NoBody, db, past
  <2>3. CASE Insert(w)
    BY <2>3 DEF Insert, AddRow, SetRow, db, past
  <2>4. CASE InsertAckLost(w)
    BY <2>4 DEF InsertAckLost, AddRow, SetRow, past
  <2>5. CASE ReadConflict(w)
    BY <2>5 DEF ReadConflict, db, past
  <2>6. CASE Purge(w)
    BY <2>6 DEF Purge, DropRow, SetRow, db, past
  <2>7. CASE AcquireGuard(w)
    BY <2>7 DEF AcquireGuard, db, past
  <2>8. CASE GuardHeld(w)
    BY <2>8 DEF GuardHeld, db, past
  <2>9. CASE DedupPass(w)
    BY <2>9 DEF DedupPass, db, past
  <2>10. CASE DedupSkip(w)
    BY <2>10 DEF DedupSkip, db, past
  <2>11. CASE SkipNoMx(w)
    BY <2>11 DEF SkipNoMx, db, past
  <2>12. CASE SendOk(w)
    BY <2>12 DEF SendOk, ByEmail, db
  <2>13. CASE SendFail(w)
    BY <2>13 DEF SendFail, db, past
  <2>14. CASE SendAckLost(w)
    BY <2>14 DEF SendAckLost, db
  <2>15. CASE ReleaseOnError(w)
    BY <2>15 DEF ReleaseOnError, db, past
  <2>16. CASE DeleteRow(w)
    BY <2>16 DEF DeleteRow, DropRow, SetRow, db, past
  <2>17. CASE ReleaseAfterSend(w)
    BY <2>17 DEF ReleaseAfterSend, db, past
  <2>18. CASE MarkLead(w)
    BY <2>18 DEF MarkLead, db, past
  <2>19. CASE Promote(w)
    BY <2>19 DEF Promote, SetRow, past
  <2>20. CASE DbError(w)
    BY <2>20 DEF DbError, db, past
  <2>21. CASE Finish(w)
    BY <2>21 DEF Finish, db, past
  <2> QED BY <1>1, <2>1, <2>2, <2>3, <2>4, <2>5, <2>6, <2>7, <2>8, <2>9, <2>10, <2>11,
      <2>12, <2>13, <2>14, <2>15, <2>16, <2>17, <2>18, <2>19, <2>20, <2>21 DEF Attempt
<1>2. ASSUME NEW w \in Workers, Crash(w) PROVE TruthInv'
  BY <1>2 DEF Crash, db, past
<1>3. ASSUME NEW w \in Workers, NEW j \in Jobs, Begin(w, j) \/ AlreadySent(w, j)
      PROVE  TruthInv'
  BY <1>3 DEF Begin, AlreadySent, db, past
<1>4. CASE Surroundings
  <2>1. ASSUME NEW j \in Jobs, GuardExpires(j) PROVE TruthInv'
    BY <2>1 DEF GuardExpires, db, past
  <2>2. ASSUME NEW l \in Leads, RecentExpires(l) \/ MailedElsewhere(l)
        PROVE  TruthInv'
    BY <2>2 DEF RecentExpires, MailedElsewhere, db, past
  <2>3. ASSUME NEW i \in Items, RowAges(i) \/ Engage(i) PROVE TruthInv'
    BY <2>3 DEF RowAges, Engage, SetRow, past
  <2> QED BY <1>4, <2>1, <2>2, <2>3 DEF Surroundings
<1>5. CASE UNCHANGED vars
  BY <1>5 DEF vars
<1> QED BY <1>1, <1>2, <1>3, <1>4, <1>5 DEF Next

\* In every environment, a row that says a message was sent is about a message
\* that left: Insert writes 'sending' and only a worker past its send promotes.
THEOREM RowTruthHolds == Spec => []RowTruth
<1>1. Init => TruthInv
  BY DEF Init, TruthInv, SentTruth, RowTruth, Settled
<1>2. TruthInv => RowTruth
  BY DEF TruthInv
<1> QED BY <1>1, <1>2, TruthStep, TypeCorrect, PTL DEF Spec

-----------------------------------------------------------------------------
(* Duplicates, in a quiet environment.                                     *)

\* Going to this place, w becomes neither an owner nor an owner that has not
\* sent nor a judge of a row, unless it was one.
Tame(w, to) ==
    /\ to \in Owning => pc[w] \in Owning
    /\ to \in Unsent => pc[w] \in Unsent
    /\ to = "conflict" => pc[w] = "prep"
    /\ to \notin {"idle", "prep", "purge"}

\* A step that leaves rows, messages and jobs alone and takes one worker to a
\* tame place keeps QuietInv.
LEMMA QuietMove ==
    ASSUME TypeOK, QuietInv, NEW w \in Workers, NEW to,
           Tame(w, to),
           pc' = [pc EXCEPT ![w] = to],
           UNCHANGED <<row, stale, job, mail, lied>>
    PROVE  QuietInv'
<1> USE DEF TypeOK, Item, Tame
<1>1. OneSender'
  BY DEF QuietInv, OneSender, Owns
<1>2. OwnersHaveRows'
  BY DEF QuietInv, OwnersHaveRows
<1>3. UnsentOwes' /\ AbsentOwes' /\ DuplicatesExplained'
  BY DEF QuietInv, UnsentOwes, AbsentOwes, DuplicatesExplained
<1>4. StaleUnjudged'
  BY DEF QuietInv, StaleUnjudged, Judging
<1>5. NoPurge'
  BY DEF QuietInv, NoPurge
<1> QED BY <1>1, <1>2, <1>3, <1>4, <1>5 DEF QuietInv

\* Likewise for a step that ends a worker's attempt or begins one that its
\* caller's check let through.
LEMMA QuietTurn ==
    ASSUME TypeOK, QuietInv, NEW w \in Workers,
           NEW to \in {"idle", "prep", "returned"}, NEW j \in Jobs \cup {NoJob},
           pc' = [pc EXCEPT ![w] = to],
           job' = [job EXCEPT ![w] = j],
           to = "prep" => j \in Jobs /\ row[j.item] = "none",
           UNCHANGED <<row, stale, mail, lied>>
    PROVE  QuietInv'
<1> USE DEF TypeOK, Item
<1>1. OneSender'
  BY DEF QuietInv, OneSender, Owns, Owning
<1>2. OwnersHaveRows'
  BY DEF QuietInv, OwnersHaveRows, Owning
<1>3. UnsentOwes' /\ AbsentOwes' /\ DuplicatesExplained'
  BY DEF QuietInv, UnsentOwes, AbsentOwes, DuplicatesExplained, Unsent
<1>4. StaleUnjudged'
  BY DEF QuietInv, StaleUnjudged, Judging
<1>5. NoPurge'
  BY DEF QuietInv, NoPurge
<1> QED BY <1>1, <1>2, <1>3, <1>4, <1>5 DEF QuietInv

\* The steps that change a row or send a message, each with the reason it
\* keeps QuietInv.
LEMMA QuietWrite ==
    ASSUME Quiet, TypeOK, QuietInv, NEW w \in Workers,
           \/ Insert(w) \/ InsertAckLost(w) \/ SendOk(w) \/ SendAckLost(w)
           \/ DeleteRow(w) \/ Promote(w)
    PROVE  QuietInv'
<1> USE DEF TypeOK, Item, Items, Goto, SetRow, Owning, Unsent
<1>0. ASSUME OneSender', OwnersHaveRows', UnsentOwes', AbsentOwes',
             DuplicatesExplained', StaleUnjudged', NoPurge'
      PROVE  QuietInv'
  BY <1>0 DEF QuietInv
<1> USE DEF QuietInv, OneSender, Owns, OwnersHaveRows, UnsentOwes, AbsentOwes,
            DuplicatesExplained, StaleUnjudged, Judging, NoPurge
<1>1. CASE Insert(w)
  <2>1. CASE row[Item(w)] # "none"
    <3>1. /\ pc' = [pc EXCEPT ![w] = "conflict"] /\ pc[w] = "prep"
          /\ UNCHANGED <<row, stale, job, mail, lied>>
      BY <1>1, <2>1 DEF Insert, AddRow, db, past
    <3>2. Tame(w, "conflict")
      BY <3>1 DEF Tame
    <3> QED BY <3>1, <3>2, QuietMove
  <2>2. CASE row[Item(w)] = "none"
    \* no row, so nobody owns the item: w becomes its only owner
    <3>1. /\ pc[w] = "prep" /\ pc' = [pc EXCEPT ![w] = "guard"]
          /\ row' = [row EXCEPT ![Item(w)] = "sending"]
          /\ UNCHANGED <<stale, job, mail, lied>>
      BY <1>1, <2>2 DEF Insert, AddRow, db, past
    <3>0. Item(w) \in Items
      BY <3>1 DEF Jobs
    <3>2. OneSender' /\ OwnersHaveRows' /\ NoPurge'
      BY <2>2, <3>0, <3>1
    <3>3. UnsentOwes' /\ AbsentOwes' /\ DuplicatesExplained'
      BY <2>2, <3>0, <3>1
    <3>4. StaleUnjudged'
      BY <2>2, <3>1
    <3> QED BY <1>0, <3>2, <3>3, <3>4
  <2> QED BY <2>1, <2>2
<1>2. CASE InsertAckLost(w)
  <2>1. /\ pc[w] = "prep" /\ row[Item(w)] = "none"
        /\ row' = [row EXCEPT ![Item(w)] = "sending"]
        /\ UNCHANGED <<stale, job, mail, lied>>
    BY <1>2 DEF InsertAckLost, AddRow, past
  <2>2. PICK to \in {"conflict", "threw"} : pc' = [pc EXCEPT ![w] = to]
    BY <1>2 DEF InsertAckLost
  <2> QED BY <1>0, <2>1, <2>2
<1>3. CASE SendOk(w)
  \* the one owner of the item had not sent: mail <= lied becomes mail <= 1 + lied
  <2>1. /\ pc[w] = "send"
        /\ mail' = [mail EXCEPT ![Item(w)] = @ + 1]
        /\ UNCHANGED <<row, stale, job, lied>>
    BY <1>3 DEF SendOk, db
  <2>2. PICK to \in {"sent", "tx"} : pc' = [pc EXCEPT ![w] = to]
    BY <1>3 DEF SendOk
  <2> QED BY <1>0, <2>1, <2>2
<1>4. CASE SendAckLost(w)
  <2>1. /\ pc[w] = "send" /\ pc' = [pc EXCEPT ![w] = "failed"]
        /\ mail' = [mail EXCEPT ![Item(w)] = @ + 1]
        /\ lied' = [lied EXCEPT ![Item(w)] = @ + 1]
        /\ UNCHANGED <<row, stale, job>>
    BY <1>4 DEF SendAckLost, db
  <2> QED BY <1>0, <2>1
<1>5. CASE DeleteRow(w)
  \* the deleted row is w's own, and w has not sent
  <2>1. /\ pc[w] = "undo" /\ pc' = [pc EXCEPT ![w] = "threw"]
        /\ UNCHANGED <<job, mail, lied>>
    BY <1>5 DEF DeleteRow, past, Quiet
  <2>2. CASE UNCHANGED <<row, stale>>
    <3>1. Tame(w, "threw")
      BY DEF Tame
    <3> QED BY <2>1, <2>2, <3>1, QuietMove
  <2>3. CASE row' = [row EXCEPT ![Item(w)] = "none"] /\ stale' = stale \ {Item(w)}
    BY <1>0, <2>1, <2>3
  <2> QED BY <1>5, <2>2, <2>3 DEF DeleteRow, DropRow, db, Quiet
<1>6. CASE Promote(w)
  <2>1. /\ pc[w] = "tx"
        /\ row' = [row EXCEPT ![Item(w)] = "sent"]
        /\ stale' = stale \ {Item(w)}
        /\ UNCHANGED <<job, mail, lied>>
    BY <1>6 DEF Promote, past
  <2>2. PICK to \in {"returned", "threw"} : pc' = [pc EXCEPT ![w] = to]
    BY <1>6 DEF Promote
  <2> QED BY <1>0, <2>1, <2>2
<1> QED BY <1>1, <1>2, <1>3, <1>4, <1>5, <1>6

\* QuietInv is inductive in a quiet environment.
LEMMA QuietStep ==
    ASSUME Quiet, TypeOK, QuietInv, [Next]_vars
    PROVE  QuietInv'
<1>1. ASSUME NEW w \in Workers, Attempt(w) PROVE QuietInv'
  <2> DEFINE Same == UNCHANGED <<row, stale, job, mail, lied>>
             Step(from, to) == pc[w] = from /\ pc' = [pc EXCEPT ![w] = to]
  <2>1. CASE SkipWeekend(w)
    <3>1. Same /\ Step("prep", "returned")
      BY <2>1 DEF SkipWeekend, Goto, db, past
    <3>2. Tame(w, "returned")
      BY <3>1 DEF Tame, Owning, Unsent
    <3> QED BY <3>1, <3>2, QuietMove
  <2>2. CASE NoBody(w)
    <3>1. Same /\ Step("prep", "threw")
      BY <2>2 DEF NoBody, Goto, db, past
    <3>2. Tame(w, "threw")
      BY <3>1 DEF Tame, Owning, Unsent
    <3> QED BY <3>1, <3>2, QuietMove
  <2>3. CASE GuardHeld(w)
    <3>1. Same /\ Step("guard", "returned")
      BY <2>3 DEF GuardHeld, Goto, db, past
    <3>2. Tame(w, "returned")
      BY <3>1 DEF Tame, Owning, Unsent
    <3> QED BY <3>1, <3>2, QuietMove
  <2>4. CASE DedupPass(w)
    <3>1. Same /\ Step("dedup", "send")
      BY <2>4 DEF DedupPass, Goto, db, past
    <3>2. Tame(w, "send")
      BY <3>1 DEF Tame, Owning, Unsent
    <3> QED BY <3>1, <3>2, QuietMove
  <2>5. CASE DedupSkip(w)
    <3>1. Same /\ Step("dedup", "returned")
      BY <2>5 DEF DedupSkip, Goto, db, past
    <3>2. Tame(w, "returned")
      BY <3>1 DEF Tame, Owning, Unsent
    <3> QED BY <3>1, <3>2, QuietMove
  <2>6. CASE SkipNoMx(w)
    <3>1. Same /\ Step("send", "returned")
      BY <2>6 DEF SkipNoMx, Goto, db, past
    <3>2. Tame(w, "returned")
      BY <3>1 DEF Tame, Owning, Unsent
    <3> QED BY <3>1, <3>2, QuietMove
  <2>7. CASE SendFail(w)
    <3>1. Same /\ Step("send", "failed")
      BY <2>7 DEF SendFail, Goto, db, past
    <3>2. Tame(w, "failed")
      BY <3>1 DEF Tame, Owning, Unsent
    <3> QED BY <3>1, <3>2, QuietMove
  <2>8. CASE ReleaseOnError(w)
    <3>1. Same /\ Step("failed", "undo")
      BY <2>8 DEF ReleaseOnError, Goto, db, past
    <3>2. Tame(w, "undo")
      BY <3>1 DEF Tame, Owning, Unsent
    <3> QED BY <3>1, <3>2, QuietMove
  <2>9. CASE ReleaseAfterSend(w)
    <3>1. Same /\ Step("sent", "mark")
      BY <2>9 DEF ReleaseAfterSend, Goto, db, past
    <3>2. Tame(w, "mark")
      BY <3>1 DEF Tame, Owning, Unsent
    <3> QED BY <3>1, <3>2, QuietMove
  <2>10. CASE MarkLead(w)
    <3>1. Same /\ Step("mark", "tx")
      BY <2>10 DEF MarkLead, Goto, db, past
    <3>2. Tame(w, "tx")
      BY <3>1 DEF Tame, Owning, Unsent
    <3> QED BY <3>1, <3>2, QuietMove
  <2>11. CASE AcquireGuard(w)
    <3>1. PICK to \in {"dedup", "send"} : Same /\ Step("guard", to)
      BY <2>11 DEF AcquireGuard, Goto, db, past
    <3>2. Tame(w, to)
      BY <3>1 DEF Tame, Owning, Unsent
    <3> QED BY <3>1, <3>2, QuietMove
  <2>12. CASE ReadConflict(w)
    \* a row that is about to be judged is not stale
    <3>1. /\ Same /\ pc[w] = "conflict"
          /\ pc' = [pc EXCEPT ![w] = IF Item(w) \in stale THEN "purge" ELSE "returned"]
      BY <2>12 DEF ReadConflict, Goto, db, past
    <3>2. Item(w) \notin stale
      BY <3>1 DEF QuietInv, StaleUnjudged, Judging
    <3>3. Same /\ Step("conflict", "returned")
      BY <3>1, <3>2
    <3>4. Tame(w, "returned")
      BY DEF Tame, Owning, Unsent
    <3> QED BY <3>3, <3>4, QuietMove
  <2>13. CASE DbError(w)
    <3>1. Same /\ pc' = [pc EXCEPT ![w] = "threw"]
      BY <2>13 DEF DbError, Goto, db, past
    <3>2. Tame(w, "threw")
      BY DEF Tame, Owning, Unsent
    <3> QED BY <3>1, <3>2, QuietMove
  <2>14. CASE Purge(w)
    BY <2>14 DEF Purge, Goto, QuietInv, NoPurge
  <2>15. CASE Finish(w)
    <3>1. /\ pc' = [pc EXCEPT ![w] = "idle"] /\ job' = [job EXCEPT ![w] = NoJob]
          /\ UNCHANGED <<row, stale, mail, lied>>
      BY <2>15 DEF Finish, Goto, db, past
    <3> QED BY <3>1, QuietTurn
  <2>16. CASE \/ Insert(w) \/ InsertAckLost(w) \/ SendOk(w) \/ SendAckLost(w)
            \/ DeleteRow(w) \/ Promote(w)
    BY <2>16, QuietWrite
  <2> QED BY <1>1, <2>1, <2>2, <2>3, <2>4, <2>5, <2>6, <2>7, <2>8, <2>9, <2>10, <2>11,
      <2>12, <2>13, <2>14, <2>15, <2>16 DEF Attempt
<1>2. ASSUME NEW w \in Workers, Crash(w) PROVE QuietInv'
  <2>1. /\ pc' = [pc EXCEPT ![w] = "idle"] /\ job' = [job EXCEPT ![w] = NoJob]
        /\ UNCHANGED <<row, stale, mail, lied>>
    BY <1>2 DEF Crash, Goto, db, past
  <2> QED BY <2>1, QuietTurn
<1>3. ASSUME NEW w \in Workers, NEW j \in Jobs, Begin(w, j) \/ AlreadySent(w, j)
      PROVE  QuietInv'
  <2>1. PICK to \in {"prep", "returned"} :
          /\ pc' = [pc EXCEPT ![w] = to] /\ job' = [job EXCEPT ![w] = j]
          /\ to = "prep" => row[j.item] = "none"
          /\ UNCHANGED <<row, stale, mail, lied>>
    BY <1>3 DEF Begin, AlreadySent, Goto, db, past
  <2> QED BY <2>1, QuietTurn
<1>4. CASE Surroundings
  <2> USE DEF QuietInv, OneSender, Owns, OwnersHaveRows, UnsentOwes, AbsentOwes,
              DuplicatesExplained, StaleUnjudged, Judging, NoPurge, Item, TypeOK
  <2>1. ASSUME NEW j \in Jobs, GuardExpires(j) PROVE QuietInv'
    BY <2>1 DEF GuardExpires, db, past
  <2>2. ASSUME NEW l \in Leads, RecentExpires(l) \/ MailedElsewhere(l)
        PROVE  QuietInv'
    BY <2>2 DEF RecentExpires, MailedElsewhere, db, past
  <2>3. ASSUME NEW i \in Items, RowAges(i) PROVE QuietInv'
    BY <2>3 DEF RowAges, Quiet, past
  <2>4. ASSUME NEW i \in Items, Engage(i) PROVE QuietInv'
    BY <2>4 DEF Engage, SetRow, past
  <2> QED BY <1>4, <2>1, <2>2, <2>3, <2>4 DEF Surroundings
<1>5. CASE UNCHANGED vars
  BY <1>5 DEF vars, QuietInv, OneSender, Owns, OwnersHaveRows, UnsentOwes,
         AbsentOwes, DuplicatesExplained, StaleUnjudged, Judging, NoPurge, Item
<1> QED BY <1>1, <1>2, <1>3, <1>4, <1>5 DEF Next

\* The initial state satisfies it.
LEMMA QuietInit == Init => QuietInv
BY DEF Init, QuietInv, OneSender, Owns, OwnersHaveRows, UnsentOwes, AbsentOwes,
       DuplicatesExplained, StaleUnjudged, Judging, NoPurge, Owning, Unsent

\* It therefore always holds in a quiet environment.
THEOREM QuietInvHolds ==
    ASSUME Quiet PROVE Spec => []QuietInv
BY QuietInit, QuietStep, TypeCorrect, PTL DEF Spec

\* In a quiet environment every duplicate message goes back to a message that
\* the provider accepted and reported as refused, whatever workers crash,
\* locks expire, database answers are lost and jobs are handed out twice.
THEOREM DuplicatesExplainedHolds ==
    ASSUME Quiet PROVE Spec => []DuplicatesExplained
<1>1. QuietInv => DuplicatesExplained
  BY DEF QuietInv
<1> QED BY <1>1, QuietInvHolds, PTL

\* The unique index makes a worker past its insert the only one on its item.
THEOREM OneSenderHolds ==
    ASSUME Quiet PROVE Spec => []OneSender
<1>1. QuietInv => OneSender
  BY DEF QuietInv
<1> QED BY <1>1, QuietInvHolds, PTL

-----------------------------------------------------------------------------
(* Without Disturbances.                                                   *)

\* No message that left was reported as refused.
Honest == \A i \in Items : lied[i] = 0

\* Only a lost answer of the provider makes it lie.
LEMMA HonestStep ==
    ASSUME Admitted = {}, TypeOK, Honest, [Next]_vars
    PROVE  Honest'
<1>1. lied' = lied
  <2>1. ASSUME NEW w \in Workers, Attempt(w) PROVE lied' = lied
    BY <2>1 DEF Attempt, SkipWeekend, NoBody, Insert, InsertAckLost, ReadConflict,
        Purge, AcquireGuard, GuardHeld, DedupPass, DedupSkip, SkipNoMx, SendOk,
        SendFail, SendAckLost, ReleaseOnError, DeleteRow, ReleaseAfterSend,
        MarkLead, Promote, DbError, Finish, past
  <2>2. ASSUME NEW w \in Workers, Crash(w) PROVE lied' = lied
    BY <2>2 DEF Crash, past
  <2>3. ASSUME NEW w \in Workers, NEW j \in Jobs, Begin(w, j) \/ AlreadySent(w, j)
        PROVE  lied' = lied
    BY <2>3 DEF Begin, AlreadySent, past
  <2>4. CASE Surroundings
    BY <2>4 DEF Surroundings, GuardExpires, RecentExpires, MailedElsewhere,
                RowAges, Engage, past
  <2> QED BY <2>1, <2>2, <2>3, <2>4 DEF Next, vars
<1> QED BY <1>1 DEF Honest

\* Where no Disturbance occurs, every message the provider accepted was reported
\* as accepted, so that the catch of deliver*() deletes only rows of messages
\* that did not leave.
THEOREM HonestHolds ==
    ASSUME Admitted = {} PROVE Spec => []Honest
<1>1. Init => Honest
  BY DEF Init, Honest
<1> QED BY <1>1, HonestStep, TypeCorrect, PTL DEF Spec

\* Without Disturbances no lead receives a step twice.
THEOREM AtMostOnceHolds ==
    ASSUME Admitted = {} PROVE Spec => []AtMostOnce
<1>1. Quiet
  BY DEF Quiet
<1>2. TypeOK /\ DuplicatesExplained /\ Honest => AtMostOnce
  BY DEF TypeOK, DuplicatesExplained, Honest, AtMostOnce
<1> QED BY <1>1, <1>2, DuplicatesExplainedHolds, HonestHolds, TypeCorrect, PTL

-----------------------------------------------------------------------------
(* Refinement: the pipeline implements SendOnce.                           *)

\* What the step simulation needs of the current state.
Facts == TypeOK /\ QuietInv /\ TruthInv /\ Honest

\* An item with an owner that has not sent was not mailed, and one with an
\* owner that has sent was mailed once.
LEMMA OwnersMail ==
    ASSUME Facts, NEW w \in Workers, pc[w] \in Owning
    PROVE  /\ Item(w) \in Items
           /\ pc[w] \in Unsent => mail[Item(w)] = 0 /\ Item(w) \notin Settled
           /\ pc[w] \notin Unsent => mail[Item(w)] = 1
<1>1. Item(w) \in Items
  BY DEF Facts, TypeOK, Item, Jobs, Owning
<1>2. ASSUME pc[w] \in Unsent PROVE mail[Item(w)] = 0 /\ Item(w) \notin Settled
  BY <1>1, <1>2 DEF Facts, TypeOK, QuietInv, UnsentOwes, Honest, TruthInv, RowTruth
<1>3. ASSUME pc[w] \notin Unsent PROVE mail[Item(w)] = 1
  <2>1. mail[Item(w)] > 0
    BY <1>3 DEF Facts, TruthInv, SentTruth, Owning, Unsent
  <2>2. mail[Item(w)] <= 1
    BY <1>1 DEF Facts, TypeOK, QuietInv, DuplicatesExplained, Honest
  <2> QED BY <1>1, <2>1, <2>2 DEF Facts, TypeOK
<1> QED BY <1>1, <1>2, <1>3

LEMMA SimulationStep ==
    ASSUME Admitted = {}, Facts, [Next]_vars
    PROVE  [Once!Next]_(Once!vars)
<1> DEFINE Still == mail' = mail /\ Settled' = Settled
<1>0. Still => [Once!Next]_(Once!vars)
  BY DEF Once!vars
<1>1. ASSUME NEW w \in Workers, Attempt(w) PROVE [Once!Next]_(Once!vars)
  <2>1. CASE \/ SkipWeekend(w) \/ NoBody(w) \/ ReadConflict(w) \/ AcquireGuard(w)
            \/ GuardHeld(w) \/ DedupPass(w) \/ DedupSkip(w) \/ SkipNoMx(w)
            \/ SendFail(w) \/ ReleaseOnError(w) \/ ReleaseAfterSend(w)
            \/ MarkLead(w) \/ DbError(w) \/ Finish(w)
    <3>1. mail' = mail /\ row' = row
      BY <2>1 DEF SkipWeekend, NoBody, ReadConflict, AcquireGuard, GuardHeld,
          DedupPass, DedupSkip, SkipNoMx, SendFail, ReleaseOnError,
          ReleaseAfterSend, MarkLead, DbError, Finish, db, past
    <3> QED BY <1>0, <3>1 DEF Settled
  <2>2. CASE Insert(w) \/ InsertAckLost(w)
    \* an absent row becomes 'sending', or nothing changes
    <3>1. /\ mail' = mail
          /\ \/ row' = row
             \/ /\ row[Item(w)] = "none"
                /\ row' = [row EXCEPT ![Item(w)] = "sending"]
      BY <2>2 DEF Insert, InsertAckLost, AddRow, SetRow, db, past
    <3>2. Settled' = Settled
      BY <3>1 DEF Facts, TypeOK, Settled
    <3> QED BY <1>0, <3>1, <3>2
  <2>3. CASE SendOk(w)
    <3>1. /\ pc[w] = "send" /\ row' = row
          /\ mail' = [mail EXCEPT ![Item(w)] = @ + 1]
      BY <2>3 DEF SendOk, Goto, db
    <3>2. Item(w) \in Items /\ mail[Item(w)] = 0
      BY <3>1, OwnersMail DEF Owning, Unsent
    <3>3. Once!Mail(Item(w))
      BY <3>1, <3>2 DEF Once!Mail, Settled, Facts, TypeOK
    <3> QED BY <3>2, <3>3 DEF Once!Next
  <2>4. CASE DeleteRow(w)
    <3>1. /\ pc[w] = "undo" /\ mail' = mail
          /\ row' = row \/ row' = [row EXCEPT ![Item(w)] = "none"]
      BY <2>4 DEF DeleteRow, DropRow, SetRow, Goto, db, past
    <3>2. Item(w) \in Items /\ Item(w) \notin Settled
      BY <3>1, OwnersMail DEF Owning, Unsent
    <3>3. Settled' = Settled
      BY <3>1, <3>2 DEF Facts, TypeOK, Settled
    <3> QED BY <1>0, <3>1, <3>3
  <2>5. CASE Promote(w)
    <3>1. /\ pc[w] = "tx" /\ mail' = mail
          /\ row' = [row EXCEPT ![Item(w)] =
                       IF row[Item(w)] = "none" THEN "none" ELSE "sent"]
      BY <2>5 DEF Promote, SetRow, Goto, past
    <3>2. Item(w) \in Items /\ mail[Item(w)] = 1 /\ row[Item(w)] # "none"
      BY <3>1, OwnersMail DEF Owning, Unsent, Facts, QuietInv, OwnersHaveRows
    <3>3. Once!Settle(Item(w))
      BY <3>1, <3>2 DEF Once!Settle, Settled, Facts, TypeOK
    <3> QED BY <3>2, <3>3 DEF Once!Next
  <2>6. ~ Purge(w) /\ ~ SendAckLost(w)
    BY DEF Purge, SendAckLost, Goto, Facts, QuietInv, NoPurge
  <2> QED BY <1>1, <2>1, <2>2, <2>3, <2>4, <2>5, <2>6 DEF Attempt
<1>2. ASSUME NEW w \in Workers, Crash(w) PROVE [Once!Next]_(Once!vars)
  BY <1>0, <1>2 DEF Crash, Settled, db, past
<1>3. ASSUME NEW w \in Workers, NEW j \in Jobs, Begin(w, j) \/ AlreadySent(w, j)
      PROVE  [Once!Next]_(Once!vars)
  BY <1>0, <1>3 DEF Begin, AlreadySent, Settled, db, past
<1>4. CASE Surroundings
  <2>1. ASSUME NEW j \in Jobs, GuardExpires(j) PROVE [Once!Next]_(Once!vars)
    BY <1>0, <2>1 DEF GuardExpires, Settled, db, past
  <2>2. ASSUME NEW l \in Leads, RecentExpires(l) \/ MailedElsewhere(l)
        PROVE  [Once!Next]_(Once!vars)
    BY <1>0, <2>2 DEF RecentExpires, MailedElsewhere, Settled, db, past
  <2>3. ASSUME NEW i \in Items, RowAges(i) PROVE [Once!Next]_(Once!vars)
    BY <1>0, <2>3 DEF RowAges, Settled, past
  <2>4. ASSUME NEW i \in Items, Engage(i) PROVE [Once!Next]_(Once!vars)
    <3>1. mail[i] = 1
      BY <2>4 DEF Engage, Facts, TypeOK, QuietInv, DuplicatesExplained, Honest
    <3>2. Once!Settle(i)
      BY <2>4, <3>1 DEF Engage, SetRow, past, Once!Settle, Settled, Facts, TypeOK
    <3> QED BY <3>2 DEF Once!Next
  <2> QED BY <1>4, <2>1, <2>2, <2>3, <2>4 DEF Surroundings
<1>5. CASE UNCHANGED vars
  BY <1>0, <1>5 DEF vars, Settled
<1> QED BY <1>1, <1>2, <1>3, <1>4, <1>5 DEF Next

\* Without Disturbances the pipeline implements SendOnce: every step of a
\* worker, of Redis, of the database and of the trackers is the one sending of
\* an item, the settling of an item that was sent, or invisible.
THEOREM Refinement ==
    ASSUME Admitted = {} PROVE Spec => ImplementsOnce
<1>1. Init => Once!Init
  BY DEF Init, Once!Init, Settled
<1>2. Quiet
  BY DEF Quiet
<1>3. Init => TruthInv
  BY DEF Init, TruthInv, SentTruth, RowTruth, Settled
<1>4. Spec => []TruthInv
  BY <1>3, TruthStep, TypeCorrect, PTL DEF Spec
<1>5. TypeOK /\ QuietInv /\ TruthInv /\ Honest => Facts
  BY DEF Facts
<1> QED
  BY <1>1, <1>2, <1>4, <1>5, SimulationStep, QuietInvHolds, HonestHolds,
     TypeCorrect, PTL DEF Spec, ImplementsOnce, Once!Spec

\* Without Disturbances no record that says 'sent' or more is ever deleted or taken
\* back, although neither delete of deliver*() looks at the status: SendOnce
\* never takes back what is settled.
THEOREM SettledStaysHolds ==
    ASSUME Admitted = {} PROVE Spec => SettledStays
<1>1. [Once!Next]_(Once!vars) => Settled \subseteq Settled'
  BY DEF Once!Next, Once!Mail, Once!Settle, Once!vars
<1> QED BY <1>1, Refinement, PTL DEF SettledStays, ImplementsOnce, Once!Spec
=============================================================================
