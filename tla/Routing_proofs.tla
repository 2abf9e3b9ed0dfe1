--------------------------- MODULE Routing_proofs ---------------------------
(***************************************************************************)
(* Proofs about Routing, for any sets of rows, mailboxes and workers and   *)
(* any bounds.                                                             *)
(***************************************************************************)
EXTENDS Routing, TLAPS

\* Unless the row was written over a batch's head, a copy that says so, and a claim,
\* speak of the row as it is.
HandInv ==
    \A b \in Senders :
        /\ batch[b].stage # "none" /\ batch[b].row \notin moved
        /\ batch[b].stage = "claimed" \/ batch[b].mine
        => row[batch[b].row].box = b /\ row[batch[b].row].status = "pending"

\* A row still to be enqueued has no job; a worker's job is one; and a row that a
\* worker is about to leave does not wait for routing, or is known to be lost.
JobInv ==
    /\ \A r \in Rows : api[r] \in {"todo", "fast"} => \A k \in {"verify", "route"} : job[<<k, r>>] = "none"
    /\ \A w \in Workers : run[w] # NoRun =>
          /\ job[run[w].job] # "none"
          /\ (At(w, "handoff") \/ At(w, "unlock")) /\ row[TheRow(w)].held
             => TheRow(w) \in lost

RouteInv == RouteTypeOK /\ HandInv /\ JobInv /\ NotForgotten

LEMMA RunOf ==
    ASSUME RouteTypeOK, NEW w \in Workers, run[w] # NoRun
    PROVE  /\ run[w] \in Runs /\ run[w].job \in Jobs /\ TheRow(w) \in Rows
           /\ \E k \in {"verify", "route"} : run[w].job = <<k, TheRow(w)>>
<1>1. run[w] \in Runs
  BY DEF RouteTypeOK
<1> QED BY <1>1 DEF Runs, Jobs, TheRow

LEMMA RunAt ==
    ASSUME NEW w \in Workers, NEW s \in Stages, At(w, s)
    PROVE  run[w] # NoRun
BY DEF At, NoRun, Stages

LEMMA BatchOf ==
    ASSUME RouteTypeOK, NEW b \in Senders, batch[b].stage # "none"
    PROVE  batch[b] \in Batches /\ batch[b].row \in Rows /\ batch[b] # NoBatch
BY DEF RouteTypeOK, NoBatch, Batches

LEMMA JobStates == \A w \in Workers : w \notin {"none", "waiting", "done", "failed"}
BY RoutingConstants

\* What the writes make of a row.
LEMMA RowWith ==
    ASSUME NEW x \in RowStates
    PROVE  /\ \A h \in BOOLEAN : /\ [x EXCEPT !.held = h] \in RowStates
                                /\ [x EXCEPT !.status = "over", !.held = h] \in RowStates
           /\ [x EXCEPT !.status = "queued", !.box = NoBox] \in RowStates
           /\ [x EXCEPT !.status = "over"] \in RowStates
           /\ [x EXCEPT !.status = "queued"] \in RowStates
           /\ \A b \in Boxes : /\ [x EXCEPT !.box = b] \in RowStates
                              /\ [x EXCEPT !.box = b, !.status = "pending"] \in RowStates
                              /\ [x EXCEPT !.status = "pending", !.box = b] \in RowStates
<1>1. x \in [status : Statuses, box : Boxes \cup {NoBox}, held : BOOLEAN]
  BY DEF RowStates
<1>2. x.status = "pending" => x.box # NoBox
  BY DEF RowStates
<1> QED BY <1>1, <1>2, RoutingConstants DEF RowStates, Statuses

-----------------------------------------------------------------------------
(* The steps of Next, grouped: what the request, the queues and the upgrades  *)
(* do, what goes wrong there, what the others do to the rows, the batches.    *)

Inside ==
    \/ \E r \in Rows : Enqueue(r) \/ EnqueueFast(r) \/ LockExpires(r)
    \/ \E w \in Workers : Step(w) \/ \E j \in Jobs : Take(w, j)
    \/ \E j \in Jobs : Recover(j)
    \/ \E b \in Boxes : SelectUpgrades(b) \/ \E r \in Rows : WriteUpgrade(b, r)

Mishap ==
    \/ RequestDies
    \/ \E w \in Workers : Throw(w) \/ Crash(w)
    \/ \E j \in Jobs : TakenForStalled(j)

\* Steps that select rows, or change what is not theirs.
Selects ==
    \/ \E b \in Boxes : Redistribute(b)
    \/ \E b \in Senders : OverflowRead(b)
    \/ Pause \/ Resume \/ Abort
    \/ \E r \in Rows : CraftRead(r)

\* Steps that assign rows, or put them into the pool.
Assigns ==
    \/ \E b \in Boxes : ReturnLeads(b)
    \/ \E b, c \in Boxes : ReassignLeads(b, c)
    \/ \E r \in Rows : \E b, c \in Boxes : RedistributeWrite(b, r, c)
    \/ \E b \in Senders, r \in Rows : OverflowWrite(b, r)

Stops == AbortRows \/ \E r \in Rows : Stop(r)

Outside == Selects \/ Assigns \/ Stops \/ \E r \in Rows : CraftWrite(r)

BatchStep == \E b \in Senders : Outcome(b) \/ \E r \in Rows : Pick(b, r) \/ Claim(b, r)

LEMMA NextParts ==
    ASSUME [Next]_vars
    PROVE  \/ Inside \/ Mishap \/ Outside \/ BatchStep
           \/ \E b \in Boxes : Connect(b)
           \/ UNCHANGED vars
BY DEF Next, Progress, Inside, Mishap, Outside, Selects, Assigns, Stops, BatchStep

\* A write that asks nobody: rows are assigned, or put into the pool, and none is
\* ended.
Rewrites(rs) ==
    /\ WriteOver(rs)
    /\ \A r \in Rows \ rs : row'[r] = row[r]
    /\ \A r \in rs : /\ row'[r].box \in Boxes \cup {NoBox}
                     /\ row'[r].status = "over" => row[r].status = "over"

\* A write that ends rows which are still to be sent.
Ends(rs) ==
    /\ WriteEnd(rs)
    /\ \A r \in Rows \ rs : row'[r] = row[r]
    /\ \A r \in rs : Unstarted(r) /\ row'[r].box = row[r].box /\ row'[r].status = "over"

\* Neither mailboxes nor statuses change.
Quiet ==
    /\ moved' = moved
    /\ \A r \in Rows : row'[r].box = row[r].box /\ row'[r].status = row[r].status

\* A row is held back only as it was, or it is known to be lost.
HeldOn == \A r \in Rows : row'[r].held => row[r].held \/ r \in lost'

\* What a step of the others leaves alone, and what it may do to the rows.
Harmless ==
    /\ UNCHANGED <<queues, batch, troubles>>
    /\ lost \subseteq lost' /\ HeldOn
    /\ Quiet \/ \E rs \in SUBSET Rows : Rewrites(rs) \/ Ends(rs)

LEMMA RouteWrites ==
    ASSUME RouteTypeOK, NEW w \in Workers, WriteRoute(w)
    PROVE  /\ TheRow(w) \in Rows /\ Rewrites({TheRow(w)})
           /\ batch' = batch /\ ~ row'[TheRow(w)].held
<1>1. TheRow(w) \in Rows
  BY RunOf, RunAt DEF WriteRoute, Stages
<1> QED BY <1>1 DEF WriteRoute, Rewrites, RouteTypeOK

LEMMA UpgradeWrites ==
    ASSUME RouteTypeOK, NEW b \in Boxes, NEW r \in Rows, WriteUpgrade(b, r)
    PROVE  Rewrites({r}) /\ batch' = batch /\ ~ row'[r].held
BY DEF WriteUpgrade, Rewrites, RouteTypeOK

LEMMA AssignsHarmless == RouteTypeOK /\ Assigns => Harmless
<1> SUFFICES ASSUME RouteTypeOK, Assigns PROVE Harmless
  OBVIOUS
<1> USE RoutingConstants
<1>0. \A r \in Rows : row[r] \in [status : Statuses, box : Boxes \cup {NoBox}, held : BOOLEAN]
  BY DEF RouteTypeOK, RowStates
<1>1. ASSUME NEW b \in Boxes, ReturnLeads(b) PROVE Harmless
  <2>1. PICK statuses \in {{"pending"}, {"pending", "queued"}} :
          LET rs == {r \in Rows : row[r].box = b /\ row[r].status \in statuses} IN
          /\ row' = [r \in Rows |-> IF r \in rs
                                    THEN [row[r] EXCEPT !.status = "queued", !.box = NoBox]
                                    ELSE row[r]]
          /\ WriteOver(rs)
          /\ UNCHANGED <<queues, writers, batch, troubles, lost>>
    BY <1>1 DEF ReturnLeads
  <2> DEFINE rs == {r \in Rows : row[r].box = b /\ row[r].status \in statuses}
  <2>2. Rewrites(rs)
    BY <1>0, <2>1 DEF Rewrites
  <2>3. HeldOn
    BY <1>0, <2>1 DEF HeldOn
  <2>4. rs \in SUBSET Rows
    OBVIOUS
  <2> QED BY <2>1, <2>2, <2>3, <2>4 DEF Harmless
<1>2. ASSUME NEW b \in Boxes, NEW c \in Boxes, ReassignLeads(b, c) PROVE Harmless
  <2>1. PICK rs \in SUBSET {r \in Rows : row[r].box = b /\ row[r].status = "pending"} :
          /\ row' = [r \in Rows |-> IF r \in rs THEN [row[r] EXCEPT !.box = c] ELSE row[r]]
          /\ WriteOver(rs)
          /\ UNCHANGED <<queues, writers, batch, troubles, lost>>
    BY <1>2 DEF ReassignLeads
  <2>2. Rewrites(rs)
    BY <1>0, <2>1 DEF Rewrites
  <2>3. HeldOn
    BY <1>0, <2>1 DEF HeldOn
  <2> QED BY <2>1, <2>2, <2>3 DEF Harmless
<1>3. ASSUME NEW r \in Rows, NEW b \in Boxes, NEW c \in Boxes, RedistributeWrite(b, r, c)
      PROVE  Harmless
  <2>1. row' = [row EXCEPT ![r] = [@ EXCEPT !.status = "pending", !.box = c]]
    BY <1>3 DEF RedistributeWrite
  <2>2. WriteOver({r}) /\ UNCHANGED <<queues, batch, troubles, lost>>
    BY <1>3 DEF RedistributeWrite
  <2>3. Rewrites({r}) /\ HeldOn
    BY <1>0, <2>1, <2>2 DEF Rewrites, HeldOn, RouteTypeOK
  <2> QED BY <2>2, <2>3 DEF Harmless
<1>4. ASSUME NEW b \in Senders, NEW r \in Rows, OverflowWrite(b, r) PROVE Harmless
  <2>1. row' = [row EXCEPT ![r].box = b] /\ b \in Boxes
    BY <1>4 DEF OverflowWrite
  <2>2. WriteOver({r}) /\ UNCHANGED <<queues, batch, troubles, lost>>
    BY <1>4 DEF OverflowWrite
  <2>3. Rewrites({r}) /\ HeldOn
    BY <1>0, <2>1, <2>2 DEF Rewrites, HeldOn, RouteTypeOK
  <2> QED BY <2>2, <2>3 DEF Harmless
<1> QED BY <1>1, <1>2, <1>3, <1>4 DEF Assigns

LEMMA StopsHarmless == RouteTypeOK /\ Stops => Harmless
<1> SUFFICES ASSUME RouteTypeOK, Stops PROVE Harmless
  OBVIOUS
<1>0. \A r \in Rows : row[r] \in [status : Statuses, box : Boxes \cup {NoBox}, held : BOOLEAN]
  BY DEF RouteTypeOK, RowStates
<1>1. CASE AbortRows
  <2> DEFINE rs == {r \in Rows : Unstarted(r)}
  <2>1. /\ row' = [r \in Rows |-> IF r \in rs THEN [row[r] EXCEPT !.status = "over"] ELSE row[r]]
        /\ WriteEnd(rs) /\ UNCHANGED <<queues, batch, troubles, lost>>
    BY <1>1 DEF AbortRows
  <2>2. Ends(rs) /\ HeldOn
    BY <1>0, <2>1 DEF Ends, HeldOn
  <2>3. rs \in SUBSET Rows
    OBVIOUS
  <2> QED BY <2>1, <2>2, <2>3 DEF Harmless
<1>2. ASSUME NEW r \in Rows, Stop(r) PROVE Harmless
  <2>1. PICK held \in {row[r].held, FALSE} :
          row' = [row EXCEPT ![r] = [@ EXCEPT !.status = "over", !.held = held]]
    BY <1>2 DEF Stop
  <2>2. Unstarted(r) /\ WriteEnd({r}) /\ UNCHANGED <<queues, batch, troubles, lost>>
    BY <1>2 DEF Stop
  <2>3. Ends({r}) /\ HeldOn
    BY <1>0, <2>1, <2>2 DEF Ends, HeldOn, RouteTypeOK
  <2> QED BY <2>2, <2>3 DEF Harmless
<1> QED BY <1>1, <1>2 DEF Stops

LEMMA OutsideHarmless == RouteTypeOK /\ Outside => Harmless
<1> SUFFICES ASSUME RouteTypeOK, Outside PROVE Harmless
  OBVIOUS
<1>0. \A r \in Rows : row[r] \in [status : Statuses, box : Boxes \cup {NoBox}, held : BOOLEAN]
  BY DEF RouteTypeOK, RowStates
<1>1. CASE Selects
  <2>1. UNCHANGED <<row, queues, batch, troubles, history>>
    BY <1>1 DEF Selects, Redistribute, OverflowRead, Pause, Resume, Abort, CraftRead
  <2> QED BY <2>1 DEF Harmless, Quiet, HeldOn, history
<1>2. ASSUME NEW r \in Rows, CraftWrite(r) PROVE Harmless
  <2>1. row' = [row EXCEPT ![r].held = TRUE] /\ Restore(r, TRUE)
    BY <1>2 DEF CraftWrite
  <2>2. UNCHANGED <<queues, batch, troubles, moved>>
    BY <1>2 DEF CraftWrite
  <2>3. Quiet /\ HeldOn /\ lost \subseteq lost'
    BY <1>0, <2>1, <2>2 DEF Quiet, HeldOn, Restore, RouteTypeOK
  <2> QED BY <2>2, <2>3 DEF Harmless
<1> QED BY <1>1, <1>2, AssignsHarmless, StopsHarmless DEF Outside

-----------------------------------------------------------------------------
(* Type correctness                                                         *)

LEMMA OutsideType == RouteTypeOK /\ Outside => RouteTypeOK'
<1> SUFFICES ASSUME RouteTypeOK, Outside PROVE RouteTypeOK'
  OBVIOUS
<1> USE RoutingConstants
<1>1. UNCHANGED <<queues, batch, troubles>>
  BY OutsideHarmless DEF Harmless
<1>2. moved' \subseteq Rows
  BY OutsideHarmless DEF Harmless, Quiet, Rewrites, Ends, WriteOver, WriteEnd, RouteTypeOK
<1>3. ASSUME UNCHANGED <<writers, lost, moves>>, row' \in [Rows -> RowStates] PROVE RouteTypeOK'
  BY <1>1, <1>2, <1>3 DEF RouteTypeOK, queues, writers
<1>4. ASSUME UNCHANGED <<writers, lost>>, Move, row' \in [Rows -> RowStates] PROVE RouteTypeOK'
  BY <1>1, <1>2, <1>4 DEF RouteTypeOK, queues, writers, Move
<1>5. CASE Selects
  <2>1. row' = row /\ lost' = lost
    BY <1>5 DEF Selects, Redistribute, OverflowRead, Pause, Resume, Abort, CraftRead, history
  <2>2. moves' \in 0 .. MaxMoves
    BY <1>5 DEF Selects, Redistribute, OverflowRead, Pause, Resume, Abort, CraftRead, Move, RouteTypeOK
  <2>3. active' \in BOOLEAN /\ aborting' \in BOOLEAN /\ upgrade' = upgrade
    BY <1>5 DEF Selects, Redistribute, OverflowRead, Pause, Resume, Abort, CraftRead, RouteTypeOK
  <2>4. moving' \in [Boxes -> SUBSET Rows]
    BY <1>5 DEF Selects, Redistribute, OverflowRead, Pause, Resume, Abort, CraftRead, RouteTypeOK
  <2>5. overflow' \in [Senders -> SUBSET Rows]
    BY <1>5 DEF Selects, Redistribute, OverflowRead, Pause, Resume, Abort, CraftRead, RouteTypeOK
  <2>6. craft' \subseteq Rows
    BY <1>5 DEF Selects, Redistribute, OverflowRead, Pause, Resume, Abort, CraftRead, RouteTypeOK
  <2> QED BY <1>1, <1>2, <2>1, <2>2, <2>3, <2>4, <2>5, <2>6 DEF RouteTypeOK, queues
<1>6. ASSUME NEW b \in Boxes, ReturnLeads(b) PROVE RouteTypeOK'
  <2>1. \A r \in Rows : [row[r] EXCEPT !.status = "queued", !.box = NoBox] \in RowStates
    BY RowWith DEF RouteTypeOK
  <2>2. row' \in [Rows -> RowStates]
    <3>1. PICK rs \in SUBSET Rows :
            row' = [r \in Rows |-> IF r \in rs
                                  THEN [row[r] EXCEPT !.status = "queued", !.box = NoBox]
                                  ELSE row[r]]
      BY <1>6 DEF ReturnLeads
    <3> QED BY <2>1, <3>1 DEF RouteTypeOK
  <2>3. UNCHANGED <<writers, lost>> /\ Move
    BY <1>6 DEF ReturnLeads
  <2> QED BY <1>4, <2>2, <2>3
<1>7. ASSUME NEW b \in Boxes, NEW c \in Boxes, ReassignLeads(b, c) PROVE RouteTypeOK'
  <2>1. \A r \in Rows : [row[r] EXCEPT !.box = c] \in RowStates
    BY RowWith DEF RouteTypeOK
  <2>2. row' \in [Rows -> RowStates]
    BY <1>7, <2>1 DEF ReassignLeads, RouteTypeOK
  <2>3. UNCHANGED <<writers, lost>> /\ Move
    BY <1>7 DEF ReassignLeads
  <2> QED BY <1>4, <2>2, <2>3
<1>8. ASSUME NEW r \in Rows, NEW b \in Boxes, NEW c \in Boxes, RedistributeWrite(b, r, c)
      PROVE  RouteTypeOK'
  <2>1. [row[r] EXCEPT !.status = "pending", !.box = c] \in RowStates
    BY RowWith DEF RouteTypeOK
  <2>2. row' = [row EXCEPT ![r] = [@ EXCEPT !.status = "pending", !.box = c]]
    BY <1>8 DEF RedistributeWrite
  <2>3. row' \in [Rows -> RowStates]
    BY <2>1, <2>2 DEF RouteTypeOK
  <2>4. moving' \in [Boxes -> SUBSET Rows]
    BY <1>8 DEF RedistributeWrite, RouteTypeOK
  <2>5. UNCHANGED <<active, aborting, upgrade, overflow, craft, moves, lost>>
    BY <1>8 DEF RedistributeWrite
  <2> QED BY <1>1, <1>2, <2>3, <2>4, <2>5 DEF RouteTypeOK, queues
<1>9. ASSUME NEW b \in Senders, NEW r \in Rows, OverflowWrite(b, r) PROVE RouteTypeOK'
  <2>1. [row[r] EXCEPT !.box = b] \in RowStates
    BY RowWith DEF RouteTypeOK
  <2>2. row' \in [Rows -> RowStates]
    BY <1>9, <2>1 DEF OverflowWrite, RouteTypeOK
  <2>3. overflow' \in [Senders -> SUBSET Rows]
    BY <1>9 DEF OverflowWrite, RouteTypeOK
  <2>4. UNCHANGED <<active, aborting, upgrade, moving, craft, moves, lost>>
    BY <1>9 DEF OverflowWrite
  <2> QED BY <1>1, <1>2, <2>2, <2>3, <2>4 DEF RouteTypeOK, queues
<1>10. CASE AbortRows
  <2>1. \A r \in Rows : [row[r] EXCEPT !.status = "over"] \in RowStates
    BY RowWith DEF RouteTypeOK
  <2>2. row' \in [Rows -> RowStates]
    BY <1>10, <2>1 DEF AbortRows, RouteTypeOK
  <2>3. aborting' = FALSE /\ UNCHANGED <<active, upgrade, moving, overflow, craft, moves, lost>>
    BY <1>10 DEF AbortRows
  <2> QED BY <1>1, <1>2, <2>2, <2>3 DEF RouteTypeOK, queues
<1>11. ASSUME NEW r \in Rows, Stop(r) PROVE RouteTypeOK'
  <2>1. PICK held \in {row[r].held, FALSE} :
          row' = [row EXCEPT ![r] = [@ EXCEPT !.status = "over", !.held = held]]
    BY <1>11 DEF Stop
  <2>2. held \in BOOLEAN
    BY <2>1 DEF RouteTypeOK, RowStates
  <2>3. [row[r] EXCEPT !.status = "over", !.held = held] \in RowStates
    BY <2>2, RowWith DEF RouteTypeOK
  <2>4. row' \in [Rows -> RowStates]
    BY <2>1, <2>3 DEF RouteTypeOK
  <2>5. UNCHANGED <<writers, lost>> /\ Move
    BY <1>11 DEF Stop
  <2> QED BY <1>4, <2>4, <2>5
<1>12. ASSUME NEW r \in Rows, CraftWrite(r) PROVE RouteTypeOK'
  <2>1. [row[r] EXCEPT !.held = TRUE] \in RowStates
    BY RowWith DEF RouteTypeOK
  <2>2. row' \in [Rows -> RowStates]
    BY <1>12, <2>1 DEF CraftWrite, RouteTypeOK
  <2>3. craft' \subseteq Rows /\ lost' \subseteq Rows
    BY <1>12 DEF CraftWrite, Restore, RouteTypeOK
  <2>4. UNCHANGED <<active, aborting, upgrade, moving, overflow, moves>>
    BY <1>12 DEF CraftWrite
  <2> QED BY <1>1, <1>2, <2>2, <2>3, <2>4 DEF RouteTypeOK, queues
<1> QED BY <1>5, <1>6, <1>7, <1>8, <1>9, <1>10, <1>11, <1>12 DEF Outside, Assigns, Stops

\* What becomes of the row a batch was at work on, and of the batch.
LEMMA OutcomeEffect ==
    ASSUME RouteTypeOK, NEW b \in Senders, Outcome(b)
    PROVE  /\ batch[b].stage # "none" /\ Done(b)
           /\ batch[b].stage # "claimed" => row' = row
           /\ \A r \in Rows \ {batch[b].row} : row'[r] = row[r]
           /\ LET old == row[batch[b].row]
                  new == row'[batch[b].row] IN
              /\ new \in RowStates
              /\ new.status = "over" => new.box = old.box
              /\ new.box \in {old.box, NoBox}
           /\ row' \in [Rows -> RowStates]
           /\ lost' \subseteq Rows /\ lost \subseteq lost' /\ HeldOn
<1> USE RoutingConstants
<1>0. batch[b].stage # "none" /\ Done(b)
  BY DEF Outcome, Drop, GiveUp, ProviderLimit, BackToPool, EndBatch
<1>1. batch[b] \in Batches /\ batch[b].row \in Rows
  BY <1>0, BatchOf
<1>2. PICK r \in Rows : r = batch[b].row
  BY <1>1
<1>3. batch[b].held \in BOOLEAN /\ row[r].held \in BOOLEAN /\ row[r] \in RowStates
  BY <1>1, <1>2 DEF Batches, RouteTypeOK, RowStates
<1>4. row[r] \in [status : Statuses, box : Boxes \cup {NoBox}, held : BOOLEAN]
  BY <1>3 DEF RowStates
<1> DEFINE Effect(new) ==
             /\ new \in RowStates
             /\ new.status = "over" => new.box = row[r].box
             /\ new.box \in {row[r].box, NoBox}
             /\ new.held => row[r].held \/ r \in lost'
<1>5. ASSUME NEW new, row' = [row EXCEPT ![r] = new], Effect(new),
             lost' = lost \/ lost' = lost \cup {r}, batch[b].stage = "claimed"
      PROVE  /\ batch[b].stage # "claimed" => row' = row
             /\ \A q \in Rows \ {r} : row'[q] = row[q]
             /\ row'[r] \in RowStates
             /\ row'[r].status = "over" => row'[r].box = row[r].box
             /\ row'[r].box \in {row[r].box, NoBox}
             /\ row' \in [Rows -> RowStates]
             /\ lost' \subseteq Rows /\ lost \subseteq lost' /\ HeldOn
  BY <1>5 DEF RouteTypeOK, HeldOn
<1>6. CASE Drop(b)
  BY <1>0, <1>2, <1>3, <1>6 DEF Drop, EndBatch, HeldOn, RouteTypeOK, RowStates
<1>7. CASE GiveUp(b)
  <2>1. PICK held \in {row[r].held, batch[b].held} :
          /\ row' = [row EXCEPT ![r] = [@ EXCEPT !.status = "over", !.held = held]]
          /\ Restore(r, held)
    BY <1>2, <1>7 DEF GiveUp
  <2>2. held \in BOOLEAN
    BY <1>3, <2>1
  <2> DEFINE new == [row[r] EXCEPT !.status = "over", !.held = held]
  <2>3. row' = [row EXCEPT ![r] = new] /\ (lost' = lost \/ lost' = lost \cup {r})
    BY <2>1 DEF Restore, RouteTypeOK
  <2>4. new \in RowStates
    BY <1>3, <2>2, RowWith
  <2>5. Effect(new)
    BY <1>4, <2>1, <2>4 DEF Restore
  <2> QED BY <1>0, <1>2, <1>5, <1>7, <2>3, <2>5 DEF GiveUp
<1>8. CASE ProviderLimit(b)
  <2> DEFINE new == [row[r] EXCEPT !.status = "queued"]
  <2>1. row' = [row EXCEPT ![r] = new] /\ lost' = lost
    BY <1>2, <1>8 DEF ProviderLimit, EndBatch, RouteTypeOK
  <2>2. new \in RowStates
    BY <1>3, RowWith
  <2>3. Effect(new)
    BY <1>4, <2>2 DEF Statuses
  <2> QED BY <1>0, <1>2, <1>5, <1>8, <2>1, <2>3 DEF ProviderLimit
<1>9. CASE BackToPool(b)
  <2> DEFINE new == [status |-> "queued", box |-> NoBox, held |-> batch[b].held]
  <2>1. row' = [row EXCEPT ![r] = new] /\ Restore(r, batch[b].held)
    BY <1>2, <1>9 DEF BackToPool
  <2>2. lost' = lost \/ lost' = lost \cup {r}
    BY <2>1 DEF Restore
  <2>3. Effect(new)
    BY <1>3, <2>1 DEF Restore, RowStates, Statuses
  <2> QED BY <1>0, <1>2, <1>5, <1>9, <2>1, <2>2, <2>3 DEF BackToPool
<1> QED BY <1>6, <1>7, <1>8, <1>9 DEF Outcome

LEMMA TypeStep == RouteTypeOK /\ [Next]_vars => RouteTypeOK'
<1> SUFFICES ASSUME RouteTypeOK, [Next]_vars PROVE RouteTypeOK'
  OBVIOUS
<1> USE RoutingConstants
<1> USE DEF RouteTypeOK, queues, writers, history, Trouble, Move
<1>1. ASSUME NEW r \in Rows, Enqueue(r) \/ EnqueueFast(r) \/ LockExpires(r) PROVE RouteTypeOK'
  <2>1. CASE Enqueue(r)
    <3>1. <<"verify", r>> \in Jobs
      BY DEF Jobs
    <3> QED BY <2>1, <3>1 DEF Enqueue, Add
  <2>2. CASE EnqueueFast(r)
    BY <2>2 DEF EnqueueFast, Add, Jobs
  <2>3. CASE LockExpires(r)
    BY <2>3 DEF LockExpires
  <2> QED BY <1>1, <2>1, <2>2, <2>3
<1>2. CASE RequestDies
  BY <1>2 DEF RequestDies
<1>3. ASSUME NEW w \in Workers, Step(w) PROVE RouteTypeOK'
  <2>0. run[w] # NoRun
    BY <1>3 DEF Step, Stamp, Handoff, Lock, Assign, AssignNone, WriteRoute, Unlock, At, NoRun
  <2>00. run[w] \in Runs /\ run[w].job \in Jobs /\ TheRow(w) \in Rows
    BY <2>0, RunOf
  <2>01. \A s \in Stages : [run EXCEPT ![w].stage = s] \in [Workers -> Runs \cup {NoRun}]
    BY <2>00 DEF Runs
  <2>1. CASE Stamp(w)
    <3>1. run' \in [Workers -> Runs \cup {NoRun}]
      BY <2>01, <2>1 DEF Stamp, Enter, Stages
    <3>2. row' = [row EXCEPT ![TheRow(w)].held = FALSE]
      BY <2>1 DEF Stamp
    <3>3. [row[TheRow(w)] EXCEPT !.held = FALSE] \in RowStates
      BY <2>00, RowWith
    <3> QED BY <2>00, <2>1, <3>1, <3>2, <3>3 DEF Stamp
  <2>2. CASE Handoff(w)
    BY <2>00, <2>2 DEF Handoff, Leave
  <2>3. CASE Lock(w)
    <3>1. CASE TheRow(w) \in lock
      BY <2>00, <2>3, <3>1 DEF Lock, Leave, Completed, LeaveRow
    <3>2. CASE TheRow(w) \notin lock
      <4>1. run' \in [Workers -> Runs \cup {NoRun}]
        BY <2>01, <2>3, <3>2 DEF Lock, Enter, Stages
      <4> QED BY <2>00, <2>3, <3>2, <4>1 DEF Lock
    <3> QED BY <3>1, <3>2
  <2>4. CASE Assign(w)
    BY <2>00, <2>01, <2>4 DEF Assign, Enter, Stages
  <2>5. CASE AssignNone(w)
    BY <2>00, <2>01, <2>5 DEF AssignNone, Enter, LeaveRow, Stages
  <2>6. CASE WriteRoute(w)
    BY <2>00, <2>01, <2>6 DEF WriteRoute, Enter, WriteOver, Stages, Statuses, RowStates
  <2>7. CASE Unlock(w)
    BY <2>00, <2>7 DEF Unlock, Leave, Completed
  <2> QED BY <1>3, <2>1, <2>2, <2>3, <2>4, <2>5, <2>6, <2>7 DEF Step
<1>4. ASSUME NEW w \in Workers, NEW j \in Jobs, Take(w, j) PROVE RouteTypeOK'
  BY <1>4 DEF Take, Runs, Stages
<1>5. ASSUME NEW w \in Workers, Throw(w) \/ Crash(w) PROVE RouteTypeOK'
  <2>1. CASE Throw(w)
    <3>1. run[w] \in Runs /\ run[w].job \in Jobs /\ TheRow(w) \in Rows
      BY <2>1, RunOf DEF Throw
    <3>2. PICK j \in Jobs : j = run[w].job
      BY <3>1
    <3>3. tries' \in [Jobs -> 0 .. Attempts]
      <4>1. CASE job[j] # w
        BY <2>1, <3>2, <4>1 DEF Throw
      <4>2. CASE job[j] = w
        BY <2>1, <3>2, <4>2 DEF Throw
      <4> QED BY <4>1, <4>2
    <3>4. job' \in [Jobs -> {"none", "waiting", "done", "failed"} \cup Workers]
      BY <2>1, <3>2 DEF Throw
    <3>5. \A i \in Jobs : job'[i] # "failed" => tries'[i] < Attempts
      <4>1. CASE job[j] # w
        BY <2>1, <3>2, <4>1 DEF Throw
      <4>2. CASE job[j] = w
        BY <2>1, <3>2, <4>2 DEF Throw
      <4> QED BY <4>1, <4>2
    <3> QED BY <2>1, <3>1, <3>3, <3>4, <3>5 DEF Throw, Leave
  <2>2. CASE Crash(w)
    BY <2>2 DEF Crash, Leave
  <2> QED BY <1>5, <2>1, <2>2
<1>6. ASSUME NEW j \in Jobs, Recover(j) \/ TakenForStalled(j) PROVE RouteTypeOK'
  <2>1. job[j] \in Workers
    BY <1>6 DEF Recover, TakenForStalled, Running
  <2>2. job[j] # "failed"
    BY <2>1, JobStates
  <2> QED BY <1>6, <2>2 DEF Recover, TakenForStalled, HandAgain
<1>7. ASSUME NEW b \in Boxes, Connect(b) \/ SelectUpgrades(b) PROVE RouteTypeOK'
  <2>1. CASE Connect(b)
    BY <2>1 DEF Connect
  <2>2. CASE SelectUpgrades(b)
    BY <2>2 DEF SelectUpgrades
  <2> QED BY <1>7, <2>1, <2>2
<1>8. ASSUME NEW b \in Boxes, NEW r \in Rows, WriteUpgrade(b, r) PROVE RouteTypeOK'
  BY <1>8 DEF WriteUpgrade, WriteOver, Statuses, RowStates
<1>9. ASSUME NEW b \in Senders, NEW r \in Rows, Pick(b, r) \/ Claim(b, r) PROVE RouteTypeOK'
  <2>1. CASE Pick(b, r)
    <3>1. row[r].held \in BOOLEAN
      BY DEF RowStates
    <3> QED BY <2>1, <3>1 DEF Pick, Batches
  <2>2. CASE Claim(b, r)
    <3>1. batch[b] \in Batches
      BY <2>2, BatchOf DEF Claim
    <3>2. batch' \in [Senders -> Batches \cup {NoBatch}]
      BY <2>2, <3>1 DEF Claim, Batches
    <3>3. [row[r] EXCEPT !.box = b, !.status = "pending"] \in RowStates
      BY RowWith, RoutingConstants
    <3>4. row' = row \/ row' = [row EXCEPT ![r] = [row[r] EXCEPT !.box = b, !.status = "pending"]]
      BY <2>2 DEF Claim
    <3>5. row' \in [Rows -> RowStates]
      BY <3>3, <3>4
    <3> QED BY <2>2, <3>2, <3>5 DEF Claim
  <2> QED BY <1>9, <2>1, <2>2
<1>10. ASSUME NEW b \in Senders, Outcome(b) PROVE RouteTypeOK'
  <2>1. Done(b) /\ row' \in [Rows -> RowStates] /\ lost' \subseteq Rows
    BY <1>10, OutcomeEffect
  <2> QED BY <2>1 DEF Done
<1>11. CASE UNCHANGED vars
  BY <1>11 DEF vars
<1> QED BY <1>1, <1>2, <1>3, <1>4, <1>5, <1>6, <1>7, <1>8, <1>9, <1>10, <1>11, NextParts, OutsideType
     DEF Inside, Mishap, BatchStep

-----------------------------------------------------------------------------
(* One mailbox at a time                                                    *)

\* A row is held back a second time only by the old copy of its metadata, and is then
\* known to be lost.
LEMMA HeldFalls == RouteTypeOK /\ [Next]_vars => HeldOn
<1> SUFFICES ASSUME RouteTypeOK, [Next]_vars PROVE HeldOn
  OBVIOUS
<1>1. ASSUME row' = row PROVE HeldOn
  BY <1>1 DEF HeldOn
<1>2. ASSUME NEW w \in Workers, Stamp(w) PROVE HeldOn
  BY <1>2 DEF Stamp, HeldOn, RouteTypeOK, RowStates
<1>3. ASSUME NEW w \in Workers, WriteRoute(w) PROVE HeldOn
  BY <1>3, RouteWrites DEF Rewrites, HeldOn
<1>4. ASSUME NEW b \in Boxes, NEW s \in Rows, WriteUpgrade(b, s) PROVE HeldOn
  BY <1>4, UpgradeWrites DEF Rewrites, HeldOn
<1>5. ASSUME NEW b \in Senders, NEW s \in Rows, Claim(b, s) PROVE HeldOn
  <2>1. row' = row \/ row' = [row EXCEPT ![s] = [row[s] EXCEPT !.box = b, !.status = "pending"]]
    BY <1>5 DEF Claim, RouteTypeOK
  <2>2. row[s] \in [status : Statuses, box : Boxes \cup {NoBox}, held : BOOLEAN]
    BY DEF RouteTypeOK, RowStates
  <2>3. [row[s] EXCEPT !.box = b, !.status = "pending"].held = row[s].held
    BY <2>2
  <2>4. row'[s].held = row[s].held /\ \A r \in Rows \ {s} : row'[r] = row[r]
    BY <2>1, <2>3 DEF RouteTypeOK
  <2> QED BY <2>4 DEF HeldOn
<1>6. CASE Inside
  BY <1>1, <1>2, <1>3, <1>4, <1>6 DEF Inside, Enqueue, EnqueueFast, LockExpires, Step, Handoff,
     Lock, Assign, AssignNone, Unlock, Take, Recover, HandAgain, SelectUpgrades
<1>7. CASE Mishap \/ (\E b \in Boxes : Connect(b)) \/ \E b \in Senders, s \in Rows : Pick(b, s)
  BY <1>1, <1>7 DEF Mishap, RequestDies, Throw, Crash, TakenForStalled, HandAgain, Connect, Pick
<1>8. CASE UNCHANGED vars
  BY <1>1, <1>8 DEF vars
<1>9. CASE Outside
  BY <1>9, OutsideHarmless DEF Harmless
<1> QED BY <1>5, <1>6, <1>7, <1>8, <1>9, OutcomeEffect, NextParts DEF BatchStep

\* Writing over a row that a mailbox has in hand takes it out of what is said of it.
LEMMA OverHand ==
    ASSUME RouteTypeOK, HandInv, UNCHANGED batch,
           NEW rs \in SUBSET Rows, Rewrites(rs) \/ Ends(rs)
    PROVE  HandInv'
<1> SUFFICES ASSUME NEW b \in Senders, batch[b].stage # "none", batch[b].row \notin moved',
                    batch[b].stage = "claimed" \/ batch[b].mine
             PROVE  row'[batch[b].row].box = b /\ row'[batch[b].row].status = "pending"
  BY DEF HandInv
<1>1. PICK r \in Rows : r = batch[b].row
  BY BatchOf
<1>2. InHand(r)
  BY <1>1 DEF InHand
<1>3. r \notin rs /\ r \notin moved /\ row'[r] = row[r]
  BY <1>1, <1>2 DEF Rewrites, Ends, WriteOver, WriteEnd
<1> QED BY <1>1, <1>3 DEF HandInv

LEMMA QuietHand ==
    ASSUME RouteTypeOK, HandInv, UNCHANGED batch, Quiet
    PROVE  HandInv'
<1>1. \A b \in Senders : batch[b].stage # "none" => batch[b].row \in Rows
  BY BatchOf
<1> QED BY <1>1 DEF HandInv, Quiet

LEMMA HandStep == RouteTypeOK /\ HandInv /\ [Next]_vars => HandInv'
<1> SUFFICES ASSUME RouteTypeOK, HandInv, [Next]_vars PROVE HandInv'
  OBVIOUS
<1>1. ASSUME UNCHANGED <<row, batch, moved>> PROVE HandInv'
  BY <1>1 DEF HandInv
<1>2. ASSUME NEW w \in Workers, Stamp(w) PROVE HandInv'
  <2>1. batch' = batch /\ Quiet
    BY <1>2 DEF Stamp, history, Quiet, RouteTypeOK, RowStates
  <2> QED BY <2>1, QuietHand
<1>3. ASSUME NEW w \in Workers, WriteRoute(w) PROVE HandInv'
  BY <1>3, RouteWrites, OverHand
<1>4. ASSUME NEW b \in Boxes, NEW r \in Rows, WriteUpgrade(b, r) PROVE HandInv'
  <2>1. Rewrites({r}) /\ batch' = batch
    BY <1>4, UpgradeWrites
  <2> QED BY <2>1, OverHand
<1>5. CASE Outside
  BY <1>5, OutsideHarmless, QuietHand, OverHand DEF Harmless
<1>6. ASSUME NEW b \in Senders, NEW r \in Rows, Pick(b, r) PROVE HandInv'
  <2>1. UNCHANGED <<row, moved>>
    BY <1>6 DEF Pick, history
  <2>2. \A c \in Senders \ {b} : batch'[c] = batch[c]
    BY <1>6 DEF Pick, RouteTypeOK
  <2>3. /\ batch'[b].row = r /\ batch'[b].stage = "picked"
        /\ batch'[b].mine = (row[r].box = b /\ row[r].status = "pending")
    BY <1>6 DEF Pick, RouteTypeOK
  <2>4. ASSUME NEW c \in Senders, batch'[c].stage # "none", batch'[c].row \notin moved,
               batch'[c].stage = "claimed" \/ batch'[c].mine
        PROVE  row[batch'[c].row].box = c /\ row[batch'[c].row].status = "pending"
    <3>1. CASE c = b
      BY <2>3, <2>4, <3>1
    <3>2. CASE c # b
      BY <2>2, <2>4, <3>2 DEF HandInv
    <3> QED BY <3>1, <3>2
  <2> QED BY <2>1, <2>4 DEF HandInv
<1>7. ASSUME NEW b \in Senders, NEW r \in Rows, Claim(b, r) PROVE HandInv'
  <2>0. batch[b] \in Batches /\ batch[b].row = r
    BY <1>7, BatchOf DEF Claim
  <2>1. moved' = moved /\ \A s \in Rows \ {r} : row'[s] = row[s]
    BY <1>7 DEF Claim, history, RouteTypeOK
  <2>2. \A c \in Senders \ {b} : batch'[c] = batch[c]
    BY <1>7 DEF Claim, RouteTypeOK
  <2>3. batch'[b].row = r /\ batch'[b].stage = "claimed"
    BY <1>7, <2>0 DEF Claim, RouteTypeOK, Batches
  <2>4. r \notin moved => row'[r].box = b /\ row'[r].status = "pending"
    BY <1>7, <2>0 DEF Claim, HandInv, RouteTypeOK, RowStates
  <2>5. ASSUME NEW c \in Senders \ {b}, batch[c].stage # "none", batch[c].row = r,
               r \notin moved, batch[c].stage = "claimed" \/ batch[c].mine
        PROVE  row'[r] = row[r]
    <3>1. row[r].box = c
      BY <2>5 DEF HandInv
    <3>2. ~ Claimable(b, r)
      BY <3>1, RoutingConstants DEF Claimable
    <3> QED BY <1>7, <3>2 DEF Claim
  <2>6. \A c \in Senders : batch[c].stage # "none" => batch[c].row \in Rows
    BY BatchOf
  <2>7. ASSUME NEW c \in Senders, batch'[c].stage # "none", batch'[c].row \notin moved,
               batch'[c].stage = "claimed" \/ batch'[c].mine
        PROVE  row'[batch'[c].row].box = c /\ row'[batch'[c].row].status = "pending"
    <3>1. CASE c = b
      BY <2>3, <2>4, <2>7, <3>1
    <3>2. CASE c # b
      <4>1. batch'[c] = batch[c]
        BY <2>2, <3>2
      <4>2. CASE batch[c].row = r
        BY <2>5, <2>7, <3>2, <4>1, <4>2 DEF HandInv
      <4>3. CASE batch[c].row # r
        BY <2>1, <2>6, <2>7, <4>1, <4>3 DEF HandInv
      <4> QED BY <4>2, <4>3
    <3> QED BY <3>1, <3>2
  <2> QED BY <2>1, <2>7 DEF HandInv
<1>8. ASSUME NEW b \in Senders, Outcome(b) PROVE HandInv'
  <2>1. batch[b].stage # "none" /\ Done(b)
    BY <1>8, OutcomeEffect
  <2>2. PICK r \in Rows : r = batch[b].row
    BY <2>1, BatchOf
  <2>3. batch'[b].stage = "none" /\ \A c \in Senders \ {b} : batch'[c] = batch[c]
    BY <2>1 DEF Done, NoBatch, RouteTypeOK
  <2>4. \A s \in Rows \ {r} : row'[s] = row[s]
    BY <1>8, <2>2, OutcomeEffect
  <2>5. ASSUME NEW c \in Senders \ {b}, batch[c].stage # "none"
        PROVE  batch[c].row \notin moved' => batch[c].row \notin moved
    BY <2>1, <2>5 DEF Done
  <2>6. ASSUME NEW c \in Senders \ {b}, batch[c].stage # "none", batch[c].row = r,
               r \notin moved, batch[c].stage = "claimed" \/ batch[c].mine
        PROVE  row' = row
    <3>1. row[r].box = c
      BY <2>6 DEF HandInv
    <3>2. batch[b].stage # "claimed"
      BY <2>1, <2>2, <2>6, <3>1 DEF HandInv
    <3> QED BY <1>8, <3>2, OutcomeEffect
  <2>7. \A c \in Senders : batch[c].stage # "none" => batch[c].row \in Rows
    BY BatchOf
  <2> QED BY <2>2, <2>3, <2>4, <2>5, <2>6, <2>7 DEF HandInv
<1>9. CASE Inside
  BY <1>1, <1>2, <1>3, <1>4, <1>9 DEF Inside, Enqueue, EnqueueFast, LockExpires, Step, Handoff,
     Lock, Assign, AssignNone, Unlock, Take, Recover, HandAgain, SelectUpgrades, history
<1>10. CASE Mishap \/ \E b \in Boxes : Connect(b)
  BY <1>1, <1>10 DEF Mishap, RequestDies, Throw, Crash, TakenForStalled, HandAgain, Connect, history
<1>11. CASE UNCHANGED vars
  BY <1>1, <1>11 DEF vars
<1> QED BY <1>5, <1>6, <1>7, <1>8, <1>9, <1>10, <1>11, NextParts DEF BatchStep

-----------------------------------------------------------------------------
(* What is held back is seen to                                             *)

\* Neither the others, nor the batches, nor a mailbox that connects touch the request,
\* the jobs and the runs.
LEMMA JobsAside ==
    ASSUME RouteTypeOK, Outside \/ BatchStep \/ (\E b \in Boxes : Connect(b)) \/ UNCHANGED vars
    PROVE  UNCHANGED <<api, job, run>> /\ lost \subseteq lost'
<1>1. CASE Outside
  BY <1>1, OutsideHarmless DEF Harmless, queues
<1>2. ASSUME NEW b \in Senders, Outcome(b) PROVE UNCHANGED <<api, job, run>> /\ lost \subseteq lost'
  BY <1>2, OutcomeEffect DEF Done, queues
<1>3. CASE \E b \in Senders, r \in Rows : Pick(b, r) \/ Claim(b, r)
  BY <1>3 DEF Pick, Claim, queues, history
<1>4. CASE (\E b \in Boxes : Connect(b)) \/ UNCHANGED vars
  BY <1>4 DEF Connect, history, vars
<1> QED BY <1>1, <1>2, <1>3, <1>4 DEF BatchStep

\* Jobs that were added stay known to BullMQ.
LEMMA JobsStay ==
    ASSUME RouteTypeOK, JobInv, [Next]_vars, NEW j \in Jobs, job[j] # "none"
    PROVE  job'[j] # "none"
<1> USE DEF RouteTypeOK
<1>1. ASSUME NEW w \in Workers, Handoff(w) PROVE job'[j] # "none"
  BY <1>1, JobStates DEF Handoff
<1>2. ASSUME NEW w \in Workers, Lock(w) \/ Unlock(w) PROVE job'[j] # "none"
  BY <1>2 DEF Lock, Unlock, Completed
<1>3. ASSUME NEW w \in Workers, Throw(w) PROVE job'[j] # "none"
  BY <1>3 DEF Throw
<1>4. ASSUME NEW w \in Workers, NEW i \in Jobs, Take(w, i) PROVE job'[j] # "none"
  BY <1>4, JobStates DEF Take
<1>5. ASSUME NEW i \in Jobs, Recover(i) \/ TakenForStalled(i) PROVE job'[j] # "none"
  BY <1>5 DEF Recover, TakenForStalled, HandAgain
<1>6. ASSUME NEW r \in Rows, Enqueue(r) \/ EnqueueFast(r) PROVE job'[j] # "none"
  BY <1>6 DEF Enqueue, EnqueueFast, Add
<1>7. ASSUME job' = job PROVE job'[j] # "none"
  BY <1>7
<1>8. CASE Inside
  BY <1>1, <1>2, <1>4, <1>5, <1>6, <1>7, <1>8 DEF Inside, LockExpires, Step, Stamp, Assign,
     AssignNone, WriteRoute, SelectUpgrades, WriteUpgrade, queues
<1>9. CASE Mishap
  BY <1>3, <1>5, <1>7, <1>9 DEF Mishap, RequestDies, Crash
<1>10. CASE Outside \/ BatchStep \/ (\E b \in Boxes : Connect(b)) \/ UNCHANGED vars
  BY <1>7, <1>10, JobsAside
<1> QED BY <1>8, <1>9, <1>10, NextParts

\* A job of a row that stays held back goes on, fails for good, or leaves the row
\* known to be lost; and no job appears before the row is enqueued.
LEMMA JobMoves ==
    ASSUME RouteTypeOK, JobInv, [Next]_vars, NEW r \in Rows, NEW k \in {"verify", "route"}
    PROVE  /\ job[<<k, r>>] = "failed" => job'[<<k, r>>] = "failed"
           /\ row'[r].held /\ job[<<k, r>>] \in {"waiting"} \cup Workers
              => job'[<<k, r>>] \in {"waiting", "failed"} \cup Workers \/ r \in lost'
           /\ api[r] \in {"todo", "fast"} /\ api'[r] \in {"todo", "fast"}
              => job'[<<k, r>>] = "none"
<1> DEFINE j == <<k, r>>
           Moves ==
             /\ job[j] = "failed" => job'[j] = "failed"
             /\ row'[r].held /\ job[j] \in {"waiting"} \cup Workers
                => job'[j] \in {"waiting", "failed"} \cup Workers \/ r \in lost'
             /\ api[r] \in {"todo", "fast"} /\ api'[r] \in {"todo", "fast"} => job'[j] = "none"
<1>0. j \in Jobs /\ (api[r] \in {"todo", "fast"} => job[j] = "none")
  BY DEF Jobs, JobInv
<1> USE DEF RouteTypeOK
<1>1. ASSUME job'[j] = job[j] PROVE Moves
  BY <1>0, <1>1
<1>2. ASSUME NEW w \in Workers, Handoff(w) PROVE Moves
  <2>1. run[w] # NoRun /\ At(w, "handoff")
    BY <1>2 DEF Handoff, At, NoRun
  <2>2. /\ TheRow(w) \in Rows /\ job[run[w].job] # "none"
        /\ row[TheRow(w)].held => TheRow(w) \in lost
        /\ \E i \in {"verify", "route"} : run[w].job = <<i, TheRow(w)>>
    BY <2>1, RunOf DEF JobInv
  <2>3. TheRow(w) = r => api[r] \notin {"todo", "fast"} /\ (row'[r].held => r \in lost')
    BY <1>2, <2>2 DEF JobInv, Handoff, history
  <2>4. CASE TheRow(w) = r
    <3>1. job[j] = "failed" => job'[j] = "failed"
      BY <1>0, <1>2, JobStates DEF Handoff
    <3> QED BY <2>3, <2>4, <3>1
  <2>5. CASE TheRow(w) # r
    <3>1. job'[j] = job[j]
      BY <1>0, <1>2, <2>2, <2>5 DEF Handoff
    <3> QED BY <1>1, <3>1
  <2> QED BY <2>4, <2>5
<1>3. ASSUME NEW w \in Workers, Lock(w) \/ Unlock(w) PROVE Moves
  <2>1. run[w] # NoRun
    BY <1>3 DEF Lock, Unlock, At, NoRun
  <2>2. TheRow(w) \in Rows /\ \E i \in {"verify", "route"} : run[w].job = <<i, TheRow(w)>>
    BY <2>1, RunOf
  <2>3. job'[j] = job[j] \/ (run[w].job = j /\ job[j] = w /\ job'[j] = "done")
    BY <1>0, <1>3 DEF Lock, Unlock, Completed
  <2>4. CASE run[w].job = j /\ job[j] = w /\ job'[j] = "done"
    <3>1. TheRow(w) = r
      BY <2>4 DEF TheRow
    <3>2. row'[r].held => r \in lost'
      <4>1. CASE Lock(w)
        BY <2>4, <3>1, <4>1, JobStates DEF Lock, LeaveRow
      <4>2. CASE Unlock(w)
        BY <2>1, <3>1, <4>2 DEF Unlock, JobInv, history
      <4> QED BY <1>3, <4>1, <4>2
    <3>3. job[j] # "failed" /\ api[r] \notin {"todo", "fast"}
      BY <1>0, <2>4, JobStates
    <3> QED BY <3>2, <3>3
  <2> QED BY <1>1, <2>3, <2>4
<1>4. ASSUME NEW w \in Workers, Throw(w) PROVE Moves
  <2>1. job'[j] = job[j] \/ (job[j] = w /\ job'[j] \in {"waiting", "failed"})
    BY <1>0, <1>4 DEF Throw
  <2>2. job[j] = w => job[j] # "failed" /\ api[r] \notin {"todo", "fast"}
    BY <1>0, JobStates
  <2> QED BY <1>1, <2>1, <2>2
<1>5. ASSUME NEW w \in Workers, NEW i \in Jobs, Take(w, i) PROVE Moves
  <2>1. job'[j] = job[j] \/ (job[j] = "waiting" /\ job'[j] = w)
    BY <1>0, <1>5 DEF Take
  <2> QED BY <1>0, <1>1, <2>1
<1>6. ASSUME NEW i \in Jobs, Recover(i) \/ TakenForStalled(i) PROVE Moves
  <2>1. job'[j] = job[j] \/ (job[j] \in Workers /\ job'[j] = "waiting")
    BY <1>0, <1>6 DEF Recover, TakenForStalled, Running, HandAgain
  <2>2. job[j] \in Workers => job[j] # "failed" /\ api[r] \notin {"todo", "fast"}
    BY <1>0, JobStates
  <2> QED BY <1>1, <2>1, <2>2
<1>7. ASSUME NEW s \in Rows, Enqueue(s) \/ EnqueueFast(s) PROVE Moves
  <2>1. job'[j] = job[j] \/ (job[j] = "none" /\ job'[j] = "waiting" /\ s = r /\ api'[r] = "done")
    BY <1>0, <1>7 DEF Enqueue, EnqueueFast, Add
  <2>2. job[j] = "none" => job[j] \notin {"waiting"} \cup Workers
    BY JobStates
  <2> QED BY <1>1, <2>1, <2>2
<1>8. CASE Inside
  BY <1>1, <1>2, <1>3, <1>5, <1>6, <1>7, <1>8 DEF Inside, LockExpires, Step, Stamp, Assign,
     AssignNone, WriteRoute, SelectUpgrades, WriteUpgrade, queues
<1>9. CASE Mishap
  BY <1>1, <1>4, <1>6, <1>9 DEF Mishap, RequestDies, Crash
<1>10. CASE Outside \/ BatchStep \/ (\E b \in Boxes : Connect(b)) \/ UNCHANGED vars
  BY <1>1, <1>10, JobsAside
<1> QED BY <1>8, <1>9, <1>10, NextParts

\* enqueueLeads gives a row a job, goes on, or dies; and lost rows stay known.
LEMMA ApiMoves ==
    ASSUME RouteTypeOK, JobInv, [Next]_vars, NEW r \in Rows
    PROVE  /\ api'[r] \in {"todo", "fast"} => api[r] \in {"todo", "fast"}
           /\ api[r] = "dropped" => api'[r] = "dropped"
           /\ api[r] \in {"todo", "fast"}
              => \/ api'[r] \in {"todo", "fast", "dropped"}
                 \/ \E k \in {"verify", "route"} : job'[<<k, r>>] = "waiting"
           /\ r \in lost => r \in lost'
<1> USE DEF RouteTypeOK
<1>1. CASE api' = api /\ lost \subseteq lost'
  BY <1>1
<1>2. ASSUME NEW s \in Rows, Enqueue(s) \/ EnqueueFast(s) PROVE
        /\ api'[r] \in {"todo", "fast"} => api[r] \in {"todo", "fast"}
        /\ api[r] = "dropped" => api'[r] = "dropped"
        /\ api[r] \in {"todo", "fast"}
           => \/ api'[r] \in {"todo", "fast", "dropped"}
              \/ \E k \in {"verify", "route"} : job'[<<k, r>>] = "waiting"
        /\ lost' = lost
  <2>1. api[s] \in {"todo", "fast"} /\ lost' = lost
    BY <1>2 DEF Enqueue, EnqueueFast, history
  <2>2. \A k \in {"verify", "route"} : <<k, s>> \in Jobs /\ job[<<k, s>>] = "none"
    BY <2>1 DEF JobInv, Jobs
  <2>3. \/ api' = [api EXCEPT ![s] = "fast"]
        \/ /\ api' = [api EXCEPT ![s] = "done"]
           /\ \E k \in {"verify", "route"} : job'[<<k, s>>] = "waiting"
    BY <1>2, <2>2 DEF Enqueue, EnqueueFast, Add
  <2> QED BY <2>1, <2>3
<1>3. CASE RequestDies
  BY <1>3 DEF RequestDies, history
<1>4. ASSUME NEW w \in Workers, Lock(w) \/ AssignNone(w) PROVE api' = api /\ lost \subseteq lost'
  BY <1>4 DEF Lock, AssignNone, LeaveRow
<1>5. CASE Inside
  <2>1. CASE \E s \in Rows : Enqueue(s) \/ EnqueueFast(s)
    BY <1>2, <2>1
  <2>2. CASE \E w \in Workers : Lock(w) \/ AssignNone(w)
    BY <1>1, <1>4, <2>2
  <2> QED BY <1>1, <1>5, <2>1, <2>2 DEF Inside, LockExpires, Step, Stamp, Handoff, Assign, Unlock,
             WriteRoute, Take, Recover, HandAgain, SelectUpgrades, WriteUpgrade, queues, history
<1>6. CASE Mishap
  BY <1>1, <1>3, <1>6 DEF Mishap, Throw, Crash, TakenForStalled, HandAgain, history
<1>7. CASE Outside \/ BatchStep \/ (\E b \in Boxes : Connect(b)) \/ UNCHANGED vars
  BY <1>1, <1>7, JobsAside
<1> QED BY <1>5, <1>6, <1>7, NextParts

LEMMA NotForgottenStep == RouteTypeOK /\ JobInv /\ NotForgotten /\ [Next]_vars => NotForgotten'
<1> SUFFICES ASSUME RouteTypeOK, JobInv, NotForgotten, [Next]_vars,
                    NEW r \in Rows, row'[r].held
             PROVE  \/ api'[r] \in {"todo", "fast"}
                    \/ \E k \in {"verify", "route"} : job'[<<k, r>>] \in {"waiting"} \cup Workers
                    \/ Stranded(r)'
  BY DEF NotForgotten
<1>1. row[r].held \/ r \in lost'
  BY HeldFalls DEF HeldOn
<1>2. CASE api[r] \in {"todo", "fast"}
  BY <1>2, ApiMoves DEF Stranded
<1>3. CASE \E k \in {"verify", "route"} : job[<<k, r>>] \in {"waiting"} \cup Workers
  BY <1>3, JobMoves DEF Stranded
<1>4. CASE Stranded(r)
  BY <1>4, ApiMoves, JobMoves DEF Stranded
<1>5. CASE r \in lost'
  BY <1>5 DEF Stranded
<1> QED BY <1>1, <1>2, <1>3, <1>4, <1>5 DEF NotForgotten

LEMMA JobStep == RouteTypeOK /\ JobInv /\ [Next]_vars => JobInv'
<1> SUFFICES ASSUME RouteTypeOK, JobInv, [Next]_vars PROVE JobInv'
  OBVIOUS
<1>1. \A r \in Rows : api'[r] \in {"todo", "fast"} => \A k \in {"verify", "route"} : job'[<<k, r>>] = "none"
  BY ApiMoves, JobMoves
<1> DEFINE Fine(w) ==
             /\ job'[run'[w].job] # "none"
             /\ run'[w].stage \in {"handoff", "unlock"} /\ row'[run'[w].job[2]].held
                => run'[w].job[2] \in lost'
<1>2. ASSUME NEW w \in Workers, run[w] # NoRun, run'[w] = run[w] PROVE Fine(w)
  <2>1. run[w].job \in Jobs /\ TheRow(w) \in Rows
    BY <1>2, RunOf
  <2>2. job'[run[w].job] # "none"
    BY <1>2, <2>1, JobsStay DEF JobInv
  <2>3. row'[TheRow(w)].held => row[TheRow(w)].held \/ TheRow(w) \in lost'
    BY <2>1, HeldFalls DEF HeldOn
  <2>4. TheRow(w) \in lost => TheRow(w) \in lost'
    BY <2>1, ApiMoves
  <2> QED BY <1>2, <2>2, <2>3, <2>4 DEF JobInv, At, TheRow
<1>3. ASSUME NEW w \in Workers, Step(w), run'[w] # NoRun PROVE Fine(w)
  <2>1. run[w] # NoRun
    BY <1>3 DEF Step, Stamp, Handoff, Lock, Assign, AssignNone, WriteRoute, Unlock, At, NoRun
  <2>2. run[w] \in Runs /\ run[w].job \in Jobs /\ TheRow(w) \in Rows
    BY <2>1, RunOf
  <2>3. job'[run[w].job] # "none"
    BY <2>1, <2>2, JobsStay DEF JobInv
  <2>4. CASE Stamp(w)
    <3>1. run'[w].job = run[w].job /\ run'[w].stage = "handoff"
      BY <2>2, <2>4 DEF Stamp, Enter, RouteTypeOK, Runs
    <3>2. ~ row'[TheRow(w)].held
      BY <2>2, <2>4 DEF Stamp, RouteTypeOK, RowStates
    <3> QED BY <2>3, <3>1, <3>2 DEF TheRow
  <2>5. CASE Lock(w) \/ Assign(w)
    <3>1. run'[w].job = run[w].job /\ run'[w].stage \in {"assign", "write"}
      BY <1>3, <2>2, <2>5 DEF Lock, Assign, Enter, Leave, RouteTypeOK, Runs
    <3> QED BY <2>3, <3>1
  <2>6. CASE AssignNone(w)
    <3>1. run'[w].job = run[w].job /\ run'[w].stage = "unlock"
      BY <2>2, <2>6 DEF AssignNone, Enter, RouteTypeOK, Runs
    <3>2. row' = row /\ (row[TheRow(w)].held => TheRow(w) \in lost')
      BY <2>6 DEF AssignNone, LeaveRow
    <3> QED BY <2>3, <3>1, <3>2 DEF TheRow
  <2>7. CASE WriteRoute(w)
    <3>1. run'[w].job = run[w].job /\ run'[w].stage = "unlock"
      BY <2>2, <2>7 DEF WriteRoute, Enter, RouteTypeOK, Runs
    <3>2. ~ row'[TheRow(w)].held
      BY <2>2, <2>7 DEF WriteRoute, RouteTypeOK
    <3> QED BY <2>3, <3>1, <3>2 DEF TheRow
  <2>8. CASE Handoff(w) \/ Unlock(w)
    BY <1>3, <2>8 DEF Handoff, Unlock, Leave, RouteTypeOK
  <2> QED BY <1>3, <2>4, <2>5, <2>6, <2>7, <2>8 DEF Step
<1>4. ASSUME NEW w \in Workers, NEW j \in Jobs, Take(w, j) PROVE Fine(w)
  <2>1. run'[w].job = j /\ run'[w].stage \in {"stamp", "lock"} /\ job'[j] = w
    BY <1>4 DEF Take, RouteTypeOK
  <2> QED BY <2>1, JobStates
<1>5. ASSUME NEW w \in Workers, run'[w] # NoRun
      PROVE  \/ run'[w] = run[w]
             \/ Step(w)
             \/ \E j \in Jobs : Take(w, j)
  <2>1. ASSUME NEW v \in Workers, Step(v) \/ Throw(v) \/ Crash(v) \/ \E j \in Jobs : Take(v, j),
               v # w
        PROVE  run'[w] = run[w]
    BY <2>1 DEF Step, Stamp, Handoff, Lock, Assign, AssignNone, WriteRoute, Unlock, Throw, Crash,
       Take, Enter, Leave, RouteTypeOK
  <2>2. CASE Throw(w) \/ Crash(w)
    BY <1>5, <2>2 DEF Throw, Crash, Leave, RouteTypeOK
  <2>3. CASE Inside
    BY <2>1, <2>3 DEF Inside, Enqueue, EnqueueFast, LockExpires, Recover, HandAgain,
       SelectUpgrades, WriteUpgrade, queues
  <2>4. CASE Mishap
    BY <2>1, <2>2, <2>4 DEF Mishap, RequestDies, TakenForStalled, HandAgain
  <2>5. CASE Outside \/ BatchStep \/ (\E b \in Boxes : Connect(b)) \/ UNCHANGED vars
    BY <2>5, JobsAside
  <2> QED BY <2>1, <2>3, <2>4, <2>5, NextParts
<1>6. ASSUME NEW w \in Workers, run'[w] # NoRun PROVE Fine(w)
  BY <1>2, <1>3, <1>4, <1>5, <1>6
<1> QED BY <1>1, <1>6 DEF JobInv, At, TheRow

-----------------------------------------------------------------------------
(* The theorems                                                             *)

LEMMA RouteInvHolds == Spec => []RouteInv
<1>1. Init => RouteInv
  <2> SUFFICES ASSUME Init PROVE RouteInv
    OBVIOUS
  <2>1. RouteTypeOK
    <3>1. row \in [Rows -> RowStates]
      BY RoutingConstants DEF Init, RowStates, Statuses
    <3>2. /\ job \in [Jobs -> {"none", "waiting", "done", "failed"} \cup Workers]
          /\ tries \in [Jobs -> 0 .. Attempts] /\ \A j \in Jobs : job[j] # "failed" => tries[j] < Attempts
      BY RoutingConstants DEF Init
    <3>3. upgrade \in [Boxes -> [chosen : BOOLEAN, rows : SUBSET Rows]]
      BY DEF Init
    <3>4. moving \in [Boxes -> SUBSET Rows] /\ overflow \in [Senders -> SUBSET Rows] /\ craft \subseteq Rows
      BY DEF Init
    <3>5. /\ api \in [Rows -> {"todo", "fast", "done", "dropped"}]
          /\ run \in [Workers -> Runs \cup {NoRun}] /\ batch \in [Senders -> Batches \cup {NoBatch}]
      BY DEF Init
    <3>6. /\ lock \subseteq Rows /\ fallback \subseteq Rows /\ moved \subseteq Rows /\ lost \subseteq Rows
          /\ active \in BOOLEAN /\ aborting \in BOOLEAN
      BY DEF Init
    <3>7. troubles = 0 /\ moves = 0 /\ 0 \in 0 .. MaxTroubles /\ 0 \in 0 .. MaxMoves
      BY RoutingConstants DEF Init
    <3> QED BY <3>1, <3>2, <3>3, <3>4, <3>5, <3>6, <3>7 DEF RouteTypeOK
  <2>2. HandInv
    BY DEF Init, HandInv, NoBatch
  <2>3. JobInv
    BY DEF Init, JobInv, Jobs
  <2>4. NotForgotten
    BY DEF Init, NotForgotten, Stranded
  <2> QED BY <2>1, <2>2, <2>3, <2>4 DEF RouteInv
<1>2. RouteInv /\ [Next]_vars => RouteInv'
  BY TypeStep, HandStep, JobStep, NotForgottenStep DEF RouteInv
<1> QED BY <1>1, <1>2, PTL DEF Spec

\* The rows, queues, locks, batches and the others' selections stay well formed; above
\* all, a row that is pending has a mailbox, after each of the writes the module has.
THEOREM RouteTypeCorrect == Spec => []RouteTypeOK
BY RouteInvHolds, PTL DEF RouteInv

\* Two mailboxes never work at one row, but for a row that a router, an upgrade, a
\* return, a reassignment, a redistribution, an overflow, an abort or the end of its
\* sequence wrote over their heads.
THEOREM ClaimExclusiveHolds == Spec => []ClaimExclusive
<1>1. RouteInv => ClaimExclusive
  BY DEF RouteInv, HandInv, ClaimExclusive
<1> QED BY <1>1, RouteInvHolds, PTL

\* Whatever crashes, stalls and fails, a row that is held back for its routing is
\* seen to, but for the named reasons.
THEOREM NotForgottenHolds == Spec => []NotForgotten
BY RouteInvHolds, PTL DEF RouteInv

\* A lead that is over comes back only by a write that does not ask for its status, or
\* from a mailbox over whose head it was written: no conditional claim, return or
\* reassignment revives it, and no mailbox does unless an abort, a reply or another
\* mailbox's write came in between.
THEOREM GivenUpStaysHolds == Spec => GivenUpStays
<1>1. RouteInv /\ [Next]_vars =>
        [\A r \in Rows : row[r].status = "over" /\ row'[r].status # "over"
                         => r \in moved \cup moved']_vars
  <2> SUFFICES ASSUME RouteTypeOK, HandInv, [Next]_vars, NEW r \in Rows,
                      row[r].status = "over", row'[r].status # "over"
               PROVE  r \in moved \cup moved'
    BY DEF RouteInv
  <2>1. row' # row
    OBVIOUS
  <2>2. ASSUME NEW rs \in SUBSET Rows, Rewrites(rs) \/ Ends(rs) PROVE r \in moved'
    BY <2>2 DEF Rewrites, Ends, WriteOver, Unstarted
  <2>3. ASSUME NEW w \in Workers, Stamp(w) \/ WriteRoute(w) PROVE r \in moved'
    <3>1. CASE Stamp(w)
      BY <3>1 DEF Stamp, RouteTypeOK, RowStates
    <3>2. CASE WriteRoute(w)
      BY <2>2, <3>2, RouteWrites
    <3> QED BY <2>3, <3>1, <3>2
  <2>4. ASSUME NEW b \in Boxes, NEW s \in Rows, WriteUpgrade(b, s) PROVE r \in moved'
    <3>1. Rewrites({s})
      BY <2>4, UpgradeWrites
    <3> QED BY <2>2, <3>1
  <2>5. ASSUME NEW b \in Senders, NEW s \in Rows, Claim(b, s) PROVE FALSE
    BY <2>5 DEF Claim, Claimable, Unstarted, RouteTypeOK
  <2>6. ASSUME NEW b \in Senders, Outcome(b) PROVE r \in moved
    <3>1. batch[b].stage = "claimed" /\ batch[b].row = r
      BY <2>1, <2>6, OutcomeEffect
    <3> QED BY <3>1 DEF HandInv
  <2>7. CASE Outside
    BY <2>2, <2>7, OutsideHarmless DEF Harmless, Quiet
  <2>8. CASE Inside
    BY <2>1, <2>3, <2>4, <2>8 DEF Inside, Enqueue, EnqueueFast, LockExpires, Step, Handoff,
       Lock, Assign, AssignNone, Unlock, Take, Recover, HandAgain, SelectUpgrades
  <2>9. CASE Mishap \/ (\E b \in Boxes : Connect(b)) \/ \E b \in Senders, s \in Rows : Pick(b, s)
    BY <2>1, <2>9 DEF Mishap, RequestDies, Throw, Crash, TakenForStalled, HandAgain, Connect, Pick
  <2>10. CASE UNCHANGED vars
    BY <2>1, <2>10 DEF vars
  <2> QED BY <2>5, <2>6, <2>7, <2>8, <2>9, <2>10, NextParts DEF BatchStep
<1> QED BY <1>1, RouteInvHolds, PTL DEF Spec, GivenUpStays

-----------------------------------------------------------------------------
(* The refinement of RowCustody.  For a row r that is not written over, a     *)
(* step of Routing assigns it, has it taken up, put back, given up or         *)
(* withdrawn, or does nothing to it.                                          *)

\* b is at work on r.
Has(b, r) == batch[b].stage = "claimed" /\ batch[b].row = r

\* What RowCustody lets a step do to r.
CustodyTurn(r) ==
    Custody!Assign(r) \/ Custody!TakeUp(r) \/ Custody!PutBack(r) \/ Custody!GiveUp(r)
        \/ Custody!Withdraw(r) \/ Custody!Rest(r)

\* Whoever has r is its mailbox, and alone.
LEMMA HasAlone ==
    ASSUME HandInv, NEW r \in Rows, r \notin moved, NEW b \in Senders, Has(b, r)
    PROVE  /\ row[r].box = b /\ row[r].status = "pending"
           /\ \A c \in Senders : Has(c, r) <=> c = b
BY DEF HandInv, Has

LEMMA RestTurn ==
    ASSUME NEW r \in Rows, row'[r].box = row[r].box,
           row'[r].status = "over" <=> row[r].status = "over",
           \A b \in Senders : Has(b, r)' <=> Has(b, r)
    PROVE  CustodyTurn(r)
<1>1. Custody!Rest(r)
  BY DEF Custody!Rest, Has
<1> QED BY <1>1 DEF CustodyTurn

\* Rows in no mailbox's hands may be assigned.
LEMMA AssignTurn ==
    ASSUME NEW r \in Rows, UNCHANGED batch, ~ InHand(r),
           row[r].status # "over", row'[r].status # "over",
           row'[r].box \in Boxes \cup {NoBox}
    PROVE  CustodyTurn(r)
<1>1. \A b \in Senders : ~ Has(b, r) /\ ~ Has(b, r)'
  BY DEF Has, InHand
<1>2. Custody!Assign(r)
  BY <1>1 DEF Custody!Assign, Has
<1> QED BY <1>2 DEF CustodyTurn

\* Rows in no mailbox's hands may be withdrawn.
LEMMA WithdrawTurn ==
    ASSUME NEW r \in Rows, UNCHANGED batch, ~ InHand(r),
           Unstarted(r), row'[r].status = "over", row'[r].box = row[r].box
    PROVE  CustodyTurn(r)
<1>1. \A b \in Senders : ~ Has(b, r) /\ ~ Has(b, r)'
  BY DEF Has, InHand
<1>2. Custody!Withdraw(r)
  BY <1>1 DEF Custody!Withdraw, Has, Unstarted
<1> QED BY <1>2 DEF CustodyTurn

LEMMA QuietTurn ==
    ASSUME NEW r \in Rows, UNCHANGED batch, Quiet
    PROVE  CustodyTurn(r)
<1>1. \A b \in Senders : Has(b, r)' <=> Has(b, r)
  BY DEF Has
<1> QED BY <1>1, RestTurn DEF Quiet

\* A write over rows is no concern of a row it does not make a written one.
LEMMA WriteTurn ==
    ASSUME RouteTypeOK, NEW rs \in SUBSET Rows, Rewrites(rs) \/ Ends(rs), UNCHANGED batch,
           NEW r \in Rows, r \notin moved'
    PROVE  CustodyTurn(r)
<1>1. CASE r \in rs /\ Rewrites(rs)
  <2>1. ~ InHand(r) /\ row[r].status # "over"
    BY <1>1 DEF Rewrites, WriteOver
  <2> QED BY <1>1, <2>1, AssignTurn DEF Rewrites
<1>2. CASE r \in rs /\ Ends(rs)
  <2>1. ~ InHand(r)
    BY <1>2 DEF Ends, WriteEnd
  <2> QED BY <1>2, <2>1, WithdrawTurn DEF Ends
<1>3. CASE r \notin rs
  <2>1. row'[r] = row[r] /\ \A b \in Senders : Has(b, r)' <=> Has(b, r)
    BY <1>3 DEF Has, Rewrites, Ends
  <2> QED BY <2>1, RestTurn
<1> QED BY <1>1, <1>2, <1>3

LEMMA ClaimTurn ==
    ASSUME RouteTypeOK, HandInv, NEW b \in Senders, NEW s \in Rows, Claim(b, s),
           NEW r \in Rows, r \notin moved
    PROVE  CustodyTurn(r)
<1>1. /\ batch[b].stage = "picked" /\ batch[b].row = s /\ batch[b] \in Batches
      /\ batch' = [batch EXCEPT ![b].stage = "claimed"]
  BY BatchOf DEF Claim
<1>2. /\ batch'[b].stage = "claimed" /\ batch'[b].row = s
      /\ \A c \in Senders \ {b} : batch'[c] = batch[c]
  BY <1>1 DEF RouteTypeOK, Batches
<1>3. CASE r = s
  <2>1. CASE batch[b].mine
    <3>1. row[r].box = b /\ row[r].status = "pending"
      BY <1>1, <1>3, <2>1 DEF HandInv
    <3>2. row' = row
      BY <1>1, <2>1 DEF Claim
    <3>3. \A c \in Senders : ~ Has(c, r)
      BY <1>1, <3>1, HasAlone DEF Has
    <3>4. \A c \in Senders : Has(c, r)' <=> c = b
      BY <1>2, <1>3, <3>3 DEF Has
    <3>5. Custody!TakeUp(r)
      BY <3>1, <3>2, <3>3, <3>4 DEF Custody!TakeUp, Has
    <3> QED BY <3>5 DEF CustodyTurn
  <2>2. CASE ~ batch[b].mine
    <3>1. /\ row[r].box \in {NoBox, b} /\ row[r].status \in {"queued", "pending"}
          /\ row'[r].box = b /\ row'[r].status = "pending"
      BY <1>3, <2>2 DEF Claim, Claimable, Unstarted, RouteTypeOK, RowStates
    <3>2. \A c \in Senders : ~ Has(c, r)
      BY <1>1, <3>1, HasAlone, RoutingConstants DEF Has
    <3>3. \A c \in Senders : Has(c, r)' <=> c = b
      BY <1>2, <1>3, <3>2 DEF Has
    <3>4. Custody!TakeUp(r)
      BY <3>1, <3>2, <3>3 DEF Custody!TakeUp, Has
    <3> QED BY <3>4 DEF CustodyTurn
  <2> QED BY <2>1, <2>2
<1>4. CASE r # s
  <2>1. row'[r] = row[r]
    BY <1>4 DEF Claim, RouteTypeOK
  <2>2. \A c \in Senders : Has(c, r)' <=> Has(c, r)
    BY <1>1, <1>2, <1>4 DEF Has
  <2> QED BY <2>1, <2>2, RestTurn
<1> QED BY <1>3, <1>4

\* A mailbox is done with the row it has picked or claimed.
LEMMA OutcomeTurn ==
    ASSUME RouteTypeOK, HandInv, NEW b \in Senders, Outcome(b), NEW r \in Rows, r \notin moved
    PROVE  CustodyTurn(r)
<1>1. batch[b].stage # "none" /\ batch' = [batch EXCEPT ![b] = NoBatch]
  BY OutcomeEffect DEF Done
<1>2. /\ ~ Has(b, r)'
      /\ \A c \in Senders \ {b} : Has(c, r)' <=> Has(c, r)
  BY <1>1 DEF Has, NoBatch, RouteTypeOK
<1>3. CASE Has(b, r)
  <2>1. row[r].box = b /\ row[r].status = "pending" /\ \A c \in Senders : ~ Has(c, r)'
    BY <1>2, <1>3, HasAlone
  <2>2. /\ row'[r].status = "over" => row'[r].box = row[r].box
        /\ row'[r].box \in {row[r].box, NoBox}
    BY <1>3, OutcomeEffect DEF Has
  <2>3. CASE row'[r].status = "over"
    <3>1. Custody!GiveUp(r)
      BY <1>3, <2>1, <2>2, <2>3 DEF Custody!GiveUp, Has
    <3> QED BY <3>1 DEF CustodyTurn
  <2>4. CASE row'[r].status # "over"
    <3>1. Custody!PutBack(r)
      BY <1>3, <2>1, <2>2, <2>4 DEF Custody!PutBack, Has
    <3> QED BY <3>1 DEF CustodyTurn
  <2> QED BY <2>3, <2>4
<1>4. CASE ~ Has(b, r)
  <2>1. row'[r] = row[r]
    BY <1>4, OutcomeEffect DEF Has
  <2>2. \A c \in Senders : Has(c, r)' <=> Has(c, r)
    BY <1>2, <1>4
  <2> QED BY <2>1, <2>2, RestTurn
<1> QED BY <1>3, <1>4

LEMMA CustodyStep ==
    ASSUME RouteTypeOK, HandInv, [Next]_vars, NEW r \in Rows, r \notin moved, r \notin moved'
    PROVE  CustodyTurn(r)
<1>1. ASSUME UNCHANGED <<row, batch>> PROVE CustodyTurn(r)
  <2>1. \A b \in Senders : Has(b, r)' <=> Has(b, r)
    BY <1>1 DEF Has
  <2> QED BY <1>1, <2>1, RestTurn
<1>2. ASSUME NEW w \in Workers, Stamp(w) PROVE CustodyTurn(r)
  <2>1. batch' = batch /\ Quiet
    BY <1>2 DEF Stamp, history, Quiet, RouteTypeOK, RowStates
  <2> QED BY <2>1, QuietTurn
<1>3. ASSUME NEW w \in Workers, WriteRoute(w) PROVE CustodyTurn(r)
  BY <1>3, RouteWrites, WriteTurn
<1>4. ASSUME NEW b \in Boxes, NEW s \in Rows, WriteUpgrade(b, s) PROVE CustodyTurn(r)
  <2>1. Rewrites({s}) /\ batch' = batch
    BY <1>4, UpgradeWrites
  <2> QED BY <2>1, WriteTurn
<1>5. CASE Outside
  BY <1>5, OutsideHarmless, QuietTurn, WriteTurn DEF Harmless
<1>6. ASSUME NEW b \in Senders, NEW s \in Rows, Pick(b, s) PROVE CustodyTurn(r)
  <2>1. /\ row' = row /\ ~ Has(b, r) /\ ~ Has(b, r)'
        /\ \A c \in Senders \ {b} : batch'[c] = batch[c]
    BY <1>6 DEF Pick, NoBatch, Has, RouteTypeOK
  <2>2. \A c \in Senders : Has(c, r)' <=> Has(c, r)
    BY <2>1 DEF Has
  <2> QED BY <2>1, <2>2, RestTurn
<1>7. CASE Inside
  BY <1>1, <1>2, <1>3, <1>4, <1>7 DEF Inside, Enqueue, EnqueueFast, LockExpires, Step, Handoff,
     Lock, Assign, AssignNone, Unlock, Take, Recover, HandAgain, SelectUpgrades
<1>8. CASE Mishap \/ \E b \in Boxes : Connect(b)
  BY <1>1, <1>8 DEF Mishap, RequestDies, Throw, Crash, TakenForStalled, HandAgain, Connect
<1>9. CASE UNCHANGED vars
  BY <1>1, <1>9 DEF vars
<1> QED BY <1>5, <1>6, <1>7, <1>8, <1>9, ClaimTurn, OutcomeTurn, NextParts DEF BatchStep

\* For any rows, mailboxes, workers and troubles, the rows are in the custody that
\* RowCustody describes: with the conditional claims and the old copies, the
\* unconditional writes of the router, the upgrades, the redistribution and the
\* overflow, the aborts and replies, and every crash and stall, a mailbox works only
\* at rows of its own that nobody else works at, and what is given up or withdrawn
\* stays so - of every row that none of them wrote while a mailbox had it in hand.
THEOREM CustodyRefinement == Spec => ImplementsCustody
<1>1. Init => Custody!Init
  BY DEF Init, Custody!Init, NoBatch
<1>2. RouteInv /\ [Next]_vars => [Custody!Next]_(Custody!vars)
  <2> SUFFICES ASSUME RouteInv, [Next]_vars PROVE Custody!Next
    OBVIOUS
  <2>1. ASSUME NEW r \in Rows, r \notin moved, r \notin moved' PROVE CustodyTurn(r)
    BY <2>1, CustodyStep DEF RouteInv
  <2> QED BY <2>1 DEF Custody!Next, CustodyTurn
<1> QED BY <1>1, <1>2, RouteInvHolds, PTL DEF Spec, ImplementsCustody, Custody!Spec

=============================================================================
