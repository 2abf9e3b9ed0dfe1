----------------------------- MODULE ImapLease ------------------------------
(***************************************************************************)
(* The permanent IMAP connections of the email workers:                    *)
(* services/email-worker/src/imap/imap-connection-manager.ts, the boot and *)
(* watchdog code of services/email-worker/src/index.ts and the task queue  *)
(* of imap/mailbox-worker.ts.  Replicas share                              *)
(*   - the hash imap:active:<mailbox>, the claim of the replica that holds *)
(*     the mailbox: its owner and its last heartbeat,                      *)
(*   - a set of mailboxes per replica, the load set, the orphans list,     *)
(*   - the per-host circuit breaker, and the BullMQ queue imap-idle-tasks. *)
(* One mail host; Redis is reachable (without it every claim succeeds).    *)
(***************************************************************************)
EXTENDS Naturals, FiniteSets

CONSTANTS
    Workers,            \* replicas (WORKER_ID)
    Slots,              \* what a replica may have in progress at once
    Mailboxes,          \* integrations of provider gmail or outlook
    MaxSockets,         \* IMAP_MAX_SOCKETS
    Threshold,          \* CIRCUIT_BREAKER.FAILURE_THRESHOLD
    MaxTasks,           \* bound: queued CONNECT_MAILBOX tasks per mailbox
    MaxTroubles,        \* bound: crashes, restarts, broken connections, refusals
    MaxUser,            \* bound: times a user disconnects a mailbox
    Admitted            \* which of the Disturbances may occur

\* The events that break what the claim is written under:
\*   inboxRefused     connect() succeeds and opening INBOX throws
\*   closedAndFailed  one attempt both emits 'close' and rejects
\*   cutConnect       a DISCONNECT_MAILBOX task arrives during the attempt
\*   overlappedReap   a stale claim is deleted some time after it was judged
\*   lostBeats        a connected replica leaves its heartbeat to grow old
Disturbances ==
    {"inboxRefused", "closedAndFailed", "cutConnect", "overlappedReap", "lostBeats"}

ASSUME SocketsAssumption  == MaxSockets \in Nat /\ Threshold \in Nat \ {0}
ASSUME BoundsAssumption   == MaxTasks \in Nat /\ MaxTroubles \in Nat /\ MaxUser \in Nat
ASSUME LeaseDisturbances  == Admitted \subseteq Disturbances

\* A call of _establishConnection and, from there on, the ImapFlow client and
\* the clientData it makes.
Clients == Workers \X Slots
Home(c) == c[1]

NoOne    == "no one"
NoBox    == "no mailbox"
NoClient == <<NoOne, NoOne>>
NoKey == [owner |-> NoOne, age |-> 3]

ASSUME NamesAssumption == NoOne \notin Workers

\* The age of lastHeartbeat: below 3 minutes, below 5 minutes, older.
Ages == 0 .. 2
Keys == [owner : Workers \cup {NoOne}, age : Ages]

VARIABLES
    connected,          \* mailboxes whose integration row says connected
    key,                \* imap:active of each mailbox, NoKey when absent
    wset,               \* imap:worker:*:integrations of each replica
    load,               \* members of imap:worker:load
    orphans,            \* mailboxes in imap:orphans
    connects,           \* queued CONNECT_MAILBOX tasks per mailbox
    disconnects,        \* mailboxes with a queued DISCONNECT_MAILBOX task
    failures,           \* failures in the circuit's window
    up,                 \* replicas that run
    connections,        \* the map of each replica: the client of a mailbox
    pc,                 \* where each client stands
    box,                \* the mailbox it is for
    cooling,            \* mailboxes with a cool-off timer, per replica
    troubles,           \* (bound) troubles so far
    asked,              \* (bound) disconnections by users so far
    excused             \* (history) mailboxes a disturbance has hit

redis == <<key, wset, load, orphans, failures>>
queue == <<connects, disconnects>>
procs == <<up, connections, pc, box, cooling>>
bound == <<troubles, asked, excused>>
vars  == <<connected, key, wset, load, orphans, connects, disconnects, failures,
           up, connections, pc, box, cooling, troubles, asked, excused>>

\* open      before the auth config       claim   before reading the claim
\* reap      before deleting a stale one  lua     before the Lua claim
\* connect   connect() is pending         mark    connected, not yet recorded
\* idle      in IDLE, timers armed        logout  recycling, logout pending
\* retry     reconnect timer armed        broken  dead, its heartbeat still runs
\* failed    connect() rejected           leaked  connected, in no one's hands
\* closed    recycling, socket closed     leaving disconnecting, before release
PCs == {"free", "open", "claim", "reap", "lua", "connect", "mark", "idle", "logout",
        "retry", "broken", "failed", "leaked", "closed", "leaving"}

Live(c) == pc[c] \in {"mark", "idle", "logout", "leaked"}

\* Clients whose replica keeps the claim fresh, or gives it up within seconds.
Holds(c) == pc[c] \in {"connect", "mark", "idle", "logout", "retry", "leaving"}

LeaseTypeOK ==
    /\ connected \subseteq Mailboxes
    /\ key \in [Mailboxes -> Keys \cup {NoKey}]
    /\ wset \in [Workers -> SUBSET Mailboxes]
    /\ load \subseteq Workers
    /\ orphans \subseteq Mailboxes
    /\ connects \in [Mailboxes -> 0 .. MaxTasks]
    /\ disconnects \subseteq Mailboxes
    /\ failures \in 0 .. Threshold
    /\ up \subseteq Workers
    /\ connections \in [Workers -> [Mailboxes -> Clients \cup {NoClient}]]
    /\ pc \in [Clients -> PCs]
    /\ box \in [Clients -> Mailboxes \cup {NoBox}]
    /\ \A c \in Clients : pc[c] # "free" => box[c] \in Mailboxes /\ Home(c) \in up
    /\ cooling \in [Workers -> SUBSET Mailboxes]
    /\ troubles \in 0 .. MaxTroubles
    /\ asked \in 0 .. MaxUser
    /\ excused \subseteq Mailboxes

\* Every replica has booted and nothing is connected yet.
Init ==
    /\ connected = Mailboxes
    /\ key = [m \in Mailboxes |-> NoKey]
    /\ wset = [w \in Workers |-> {}]
    /\ load = Workers
    /\ orphans = {}
    /\ connects = [m \in Mailboxes |-> 0]
    /\ disconnects = {}
    /\ failures = 0
    /\ up = Workers
    /\ connections = [w \in Workers |-> [m \in Mailboxes |-> NoClient]]
    /\ pc = [c \in Clients |-> "free"]
    /\ box = [c \in Clients |-> NoBox]
    /\ cooling = [w \in Workers |-> {}]
    /\ troubles = 0
    /\ asked = 0
    /\ excused = {}

-----------------------------------------------------------------------------
Mine(c)    == connections[Home(c)][box[c]]       \* connections.get(id)
Goto(c, s) == pc' = [pc EXCEPT ![c] = s]
Finish(c)  == Goto(c, "free") /\ box' = [box EXCEPT ![c] = NoBox]

\* Mutant of Begin: the flow forgets which mailbox it is for.
BeginForgetsBox(c, m) == Goto(c, "open") /\ UNCHANGED box

Begin(c, m) == Goto(c, "open") /\ box' = [box EXCEPT ![c] = m]
Idle(c)    == Home(c) \in up /\ pc[c] = "free"

Trouble == troubles < MaxTroubles /\ troubles' = troubles + 1

Disturb(kind, m) == kind \in Admitted /\ excused' = excused \cup {m}

\* connections.delete(integrationId): whatever client the map holds.
Unmap(w, m) == connections' = [connections EXCEPT ![w][m] = NoClient]

\* HSET on imap:active: the claim grows young; an absent one appears, ownerless.
Touch(m) == key' = [key EXCEPT ![m] = [owner |-> @.owner, age |-> 0]]

\* _redisRelease: DEL whoever owns the claim.
Release(w, m) ==
    /\ key' = [key EXCEPT ![m] = NoKey]
    /\ wset' = [wset EXCEPT ![w] = @ \ {m}]

\* _recordCircuitFailure reads, computes and writes in three calls that nobody
\* awaits: the count it writes is one more than some earlier count, or 1.
RecordFailure ==
    failures' \in {n \in 1 .. Threshold : n <= failures + 1}

CircuitOpen == failures = Threshold

Stale(m) == key[m] # NoKey /\ key[m].owner # NoOne /\ key[m].age = 2

-----------------------------------------------------------------------------
(* connectMailbox and _establishConnection                                  *)

\* A CONNECT_MAILBOX task: nothing is done for a mailbox in the map, at the
\* socket cap or for a mailbox the user has disconnected.
TakeConnect(c, m) ==
    LET w == Home(c) IN
    /\ Idle(c)
    /\ connects[m] > 0
    /\ connects' = [connects EXCEPT ![m] = @ - 1]
    /\ IF \/ connections[w][m] # NoClient
          \/ Cardinality({n \in Mailboxes : connections[w][n] # NoClient}) >= MaxSockets
          \/ m \notin connected
       THEN UNCHANGED <<pc, box>>
       ELSE Begin(c, m)
    /\ UNCHANGED <<connected, redis, disconnects, up, connections, cooling, bound>>

\* No token: _handleAuthFailure marks the claim, whoever has it, and drops the
\* mailbox from the map.
NoToken(c) ==
    /\ pc[c] = "open"
    /\ Trouble
    /\ Touch(box[c])
    /\ Unmap(Home(c), box[c])
    /\ Finish(c)
    /\ UNCHANGED <<connected, wset, load, orphans, failures, queue, up, cooling, asked, excused>>

CheckCircuit(c) ==
    /\ pc[c] = "open"
    /\ IF CircuitOpen
       THEN /\ cooling' = [cooling EXCEPT ![Home(c)] = @ \cup {box[c]}]
            /\ Finish(c)
       ELSE Goto(c, "claim") /\ UNCHANGED <<box, cooling>>
    /\ UNCHANGED <<connected, redis, queue, up, connections, bound>>

\* The cool-off timer, which looks at the map and not at the integration.
CoolOver(c, m) ==
    LET w == Home(c) IN
    /\ Idle(c)
    /\ m \in cooling[w]
    /\ cooling' = [cooling EXCEPT ![w] = @ \ {m}]
    /\ IF connections[w][m] = NoClient THEN Begin(c, m) ELSE UNCHANGED <<pc, box>>
    /\ UNCHANGED <<connected, redis, queue, up, connections, bound>>

\* The deletion of a stale claim, with the entry in its owner's set.
Reap(m) ==
    /\ key' = [key EXCEPT ![m] = NoKey]
    /\ \E o \in Workers : wset' = [wset EXCEPT ![o] = @ \ {m}]

\* _redisClaim up to the Lua script: a claim silent for five minutes is deleted.
ReadClaim(c) ==
    /\ pc[c] = "claim"
    /\ \/ ~ Stale(box[c]) /\ Goto(c, "lua") /\ UNCHANGED <<key, wset, excused>>
       \/ Stale(box[c]) /\ Goto(c, "lua") /\ Reap(box[c]) /\ UNCHANGED excused
       \/ /\ Stale(box[c]) /\ Goto(c, "reap") /\ UNCHANGED <<key, wset>>
          /\ Disturb("overlappedReap", box[c])
    /\ UNCHANGED <<connected, load, orphans, failures, queue, up, connections,
                   box, cooling, troubles, asked>>

LateReap(c) ==
    /\ pc[c] = "reap"
    /\ Goto(c, "lua")
    /\ Reap(box[c])
    /\ UNCHANGED <<connected, load, orphans, failures, queue, up, connections,
                   box, cooling, bound>>

\* Mutant of Claim: HSET without the script's EXISTS.
ClaimAnyway(c) ==
    /\ pc[c] = "lua"
    /\ key' = [key EXCEPT ![box[c]] = [owner |-> Home(c), age |-> 0]]
    /\ wset' = [wset EXCEPT ![Home(c)] = @ \cup {box[c]}]
    /\ connections' = [connections EXCEPT ![Home(c)][box[c]] = c]
    /\ Goto(c, "connect")
    /\ UNCHANGED <<connected, load, orphans, failures, queue, up, box, cooling, bound>>

\* LUA_CLAIM, and the new client's entry in the map.
Claim(c) ==
    /\ pc[c] = "lua"
    /\ key[box[c]] = NoKey
    /\ key' = [key EXCEPT ![box[c]] = [owner |-> Home(c), age |-> 0]]
    /\ wset' = [wset EXCEPT ![Home(c)] = @ \cup {box[c]}]
    /\ connections' = [connections EXCEPT ![Home(c)][box[c]] = c]
    /\ Goto(c, "connect")
    /\ UNCHANGED <<connected, load, orphans, failures, queue, up, box, cooling, bound>>

Refused(c) ==
    /\ pc[c] = "lua"
    /\ key[box[c]] # NoKey
    /\ Finish(c)
    /\ UNCHANGED <<connected, redis, queue, up, connections, cooling, bound>>

Connect(c) ==
    /\ pc[c] = "connect"
    /\ Goto(c, "mark")
    /\ UNCHANGED <<connected, redis, queue, up, connections, box, cooling, bound>>

\* _redisMarkConnected, _workerLoadUpdate, INBOX opened, timers armed.
MarkConnected(c) ==
    /\ pc[c] = "mark"
    /\ Touch(box[c])
    /\ load' = load \cup {Home(c)}
    /\ Goto(c, "idle")
    /\ UNCHANGED <<connected, wset, orphans, failures, queue, up, connections,
                   box, cooling, bound>>

\* The catch: the mailbox leaves the map, the claim is released, a refused
\* login leaves an ownerless ERROR claim, anything else counts for the circuit.
\* _handleReconnect then finds no entry.  What is left is "after".
Catch(c, after) ==
    LET w == Home(c)
        m == box[c]
    IN
    /\ Unmap(w, m)
    /\ wset' = [wset EXCEPT ![w] = @ \ {m}]
    /\ \/ /\ key' = [key EXCEPT ![m] = [owner |-> NoOne, age |-> 0]]
          /\ UNCHANGED failures
       \/ key' = [key EXCEPT ![m] = NoKey] /\ RecordFailure
    /\ Goto(c, after)
    /\ box' = [box EXCEPT ![c] = IF after = "free" THEN NoBox ELSE @]
    /\ UNCHANGED <<connected, load, orphans, queue, up, cooling>>

\* connect() or, the connection lost, the opening of INBOX throws.  Where a
\* 'close' was heard first, its handler has armed the reconnect timer, which the
\* catch leaves armed.
ConnectFails(c) ==
    /\ Trouble
    /\ \/ pc[c] = "connect" /\ Catch(c, "free") /\ UNCHANGED excused
       \/ /\ pc[c] \in {"connect", "mark"} /\ Catch(c, "retry")
          /\ Disturb("closedAndFailed", box[c])
    /\ UNCHANGED asked

\* Opening INBOX throws after connect(): nobody closes the client.
InboxFails(c) ==
    /\ pc[c] = "mark"
    /\ Trouble
    /\ Catch(c, "leaked") /\ Disturb("inboxRefused", box[c])
    /\ UNCHANGED asked

\* A connection attempt whose client was closed under it.
CutFails(c) ==
    /\ pc[c] = "failed"
    /\ Catch(c, "free")
    /\ UNCHANGED bound

-----------------------------------------------------------------------------
(* A connection's timers and events                                         *)

Heartbeat(c) ==
    /\ pc[c] = "idle"
    /\ Touch(box[c])
    /\ UNCHANGED <<connected, wset, load, orphans, failures, queue, procs, bound>>

\* Three heartbeats in a row failed.
HeartbeatLimit(c) ==
    /\ \/ pc[c] = "idle" /\ Trouble /\ Goto(c, "logout")
       \/ pc[c] = "broken" /\ Goto(c, "closed") /\ UNCHANGED troubles
    /\ UNCHANGED <<connected, redis, queue, up, connections, box, cooling, asked, excused>>

\* Mutant of Recycle: the claim is released before the old client has logged out.
RecycleReleases(c) ==
    /\ pc[c] = "idle"
    /\ Goto(c, "logout")
    /\ Release(Home(c), box[c])
    /\ UNCHANGED <<connected, load, orphans, failures, queue, up, connections, box,
                   cooling, bound>>

\* Fourteen minutes after connecting.
Recycle(c) ==
    /\ pc[c] = "idle"
    /\ Goto(c, "logout")
    /\ UNCHANGED <<connected, redis, queue, up, connections, box, cooling, bound>>

\* The old client has logged out: _establishConnection, with the claim unreleased.
Reestablish(c) ==
    /\ pc[c] \in {"logout", "closed"}
    /\ Unmap(Home(c), box[c])
    /\ Goto(c, "open")
    /\ UNCHANGED <<connected, redis, queue, up, box, cooling, bound>>

\* A connection ends: _handleReconnect closes the client the map holds, which
\* need not be the one that ended, and arms its reconnect timer.
ConnectionEnds(c) ==
    LET d == Mine(c) IN
    /\ \/ pc[c] = "idle" /\ Trouble
       \/ pc[c] = "leaked" /\ UNCHANGED troubles
    /\ \/ RecordFailure
       \/ UNCHANGED failures
    /\ pc' = [x \in Clients |->
                IF x = c THEN IF d = c THEN "retry"
                              ELSE IF pc[c] = "idle" THEN "broken" ELSE "free"
                ELSE IF x = d /\ pc[d] \in {"connect", "mark", "idle"} THEN "retry"
                ELSE pc[x]]
    /\ box' = [box EXCEPT ![c] = IF pc'[c] = "free" THEN NoBox ELSE @]
    /\ UNCHANGED <<connected, key, wset, load, orphans, queue, up, connections,
                   cooling, asked, excused>>

\* The reconnect timer, always without delay: a client starts with backoff 0,
\* and the next one is written to the entry that is deleted right after.
Reconnect(c) ==
    /\ pc[c] = "retry"
    /\ Unmap(Home(c), box[c])
    /\ Release(Home(c), box[c])
    /\ Goto(c, "open")
    /\ UNCHANGED <<connected, load, orphans, failures, queue, up, box, cooling, bound>>

-----------------------------------------------------------------------------
(* disconnectMailbox                                                        *)

\* A DISCONNECT_MAILBOX task goes to one replica, which logs its client out if
\* it has one: an attempt in progress will fail, a recycle will go on.
TakeDisconnect(c, m) ==
    LET w == Home(c)
        d == connections[w][m]
    IN
    /\ Idle(c)
    /\ m \in disconnects
    /\ disconnects' = disconnects \ {m}
    /\ IF d = NoClient THEN UNCHANGED <<pc, box, connections, excused>>
       ELSE /\ IF pc[d] \in {"connect", "mark"} THEN Disturb("cutConnect", m)
                                                ELSE UNCHANGED excused
            /\ Unmap(w, m)
            /\ pc' = [pc EXCEPT ![c] = "leaving",
                                ![d] = CASE @ \in {"connect", "mark"} -> "failed"
                                         [] @ = "logout" -> "closed"
                                         [] @ \in {"idle", "retry"} -> "free"
                                         [] OTHER -> @]
            /\ box' = [box EXCEPT ![c] = m,
                                  ![d] = IF pc'[d] = "free" THEN NoBox ELSE @]
    /\ UNCHANGED <<connected, redis, connects, up, cooling, troubles, asked>>

FinishDisconnect(c) ==
    /\ pc[c] = "leaving"
    /\ Release(Home(c), box[c])
    /\ load' = load \cup {Home(c)}
    /\ Finish(c)
    /\ UNCHANGED <<connected, orphans, failures, queue, up, connections, cooling, bound>>

-----------------------------------------------------------------------------
(* Boot, watchdogs, shutdown                                                *)

Enqueue(m) ==
    connects' = [connects EXCEPT ![m] = IF @ < MaxTasks THEN @ + 1 ELSE @]

\* boot() and watchdog(): a connected mailbox without a claim becomes a task.
Reclaim(w, m) ==
    /\ w \in up
    /\ m \in connected
    /\ key[m] = NoKey
    /\ Enqueue(m)
    /\ UNCHANGED <<connected, redis, disconnects, procs, bound>>

DrainOrphan(w, m) ==
    /\ w \in up
    /\ m \in orphans
    /\ orphans' = orphans \ {m}
    /\ Enqueue(m)
    /\ UNCHANGED <<connected, key, wset, load, failures, disconnects, procs, bound>>

\* _startGlobalWatchdog, phase 1.
SweepOwnSet(w) ==
    /\ w \in up
    /\ wset' = [wset EXCEPT ![w] = {m \in @ : key[m] # NoKey}]
    /\ UNCHANGED <<connected, key, load, orphans, failures, queue, procs, bound>>

\* Phase 2.  A replica's score is its number of connections, read as a time it
\* is always long ago: every other registered replica is scanned and dropped.
SweepOther(w, o) ==
    LET Silent == {m \in wset[o] : key[m].owner = o /\ key[m].age \in {1, 2}} IN
    /\ w \in up
    /\ o \in load \ {w}
    /\ key' = [m \in Mailboxes |-> IF m \in Silent THEN NoKey ELSE key[m]]
    /\ orphans' = orphans \cup Silent
    /\ load' = load \ {o}
    /\ wset' = [wset EXCEPT ![o] = {}]
    /\ UNCHANGED <<connected, failures, queue, procs, bound>>

\* The replica is gone with all it had in memory.
Gone(w) ==
    /\ up' = up \ {w}
    /\ connections' = [connections EXCEPT ![w] = [m \in Mailboxes |-> NoClient]]
    /\ pc' = [c \in Clients |-> IF Home(c) = w THEN "free" ELSE pc[c]]
    /\ box' = [c \in Clients |-> IF Home(c) = w THEN NoBox ELSE box[c]]
    /\ cooling' = [cooling EXCEPT ![w] = {}]

Crash(w) ==
    /\ w \in up
    /\ Trouble
    /\ Gone(w)
    /\ UNCHANGED <<connected, redis, queue, asked, excused>>

\* SIGTERM: disconnectAll releases what the map holds.
Shutdown(w) ==
    LET Held == {m \in Mailboxes : connections[w][m] # NoClient} IN
    /\ w \in up
    /\ Trouble
    /\ Gone(w)
    /\ key' = [m \in Mailboxes |-> IF m \in Held THEN NoKey ELSE key[m]]
    /\ wset' = [wset EXCEPT ![w] = @ \ Held]
    /\ load' = load \ {w}
    /\ UNCHANGED <<connected, orphans, failures, queue, asked, excused>>

Boot(w) ==
    /\ w \notin up
    /\ up' = up \cup {w}
    /\ load' = load \cup {w}
    /\ UNCHANGED <<connected, key, wset, orphans, failures, queue, connections,
                   pc, box, cooling, bound>>

-----------------------------------------------------------------------------
(* Time and users                                                           *)

\* Minutes pass without a heartbeat: not while a replica is beating, or is
\* within the seconds an attempt, a logout or a retry takes.
GrowOld(m) ==
    /\ key[m].age < 2
    /\ IF \E c \in Clients : box[c] = m /\ Holds(c) THEN Disturb("lostBeats", m)
                                                     ELSE UNCHANGED excused
    /\ key' = [key EXCEPT ![m].age = @ + 1]
    /\ UNCHANGED <<connected, wset, load, orphans, failures, queue, procs,
                   troubles, asked>>

\* Mutant of Expire: the script's claim has no EXPIRE, only ERROR marks have one.
ExpireErrorsOnly(m) ==
    /\ key[m].age = 2 /\ key[m].owner = NoOne
    /\ key' = [key EXCEPT ![m] = NoKey]
    /\ UNCHANGED <<connected, wset, load, orphans, failures, queue, procs, bound>>

\* 35 minutes, or an hour for an ERROR claim.
Expire(m) ==
    /\ key[m].age = 2
    /\ key' = [key EXCEPT ![m] = NoKey]
    /\ UNCHANGED <<connected, wset, load, orphans, failures, queue, procs, bound>>

CircuitExpires ==
    /\ failures > 0
    /\ failures' = 0
    /\ UNCHANGED <<connected, key, wset, load, orphans, queue, procs, bound>>

UserDisconnects(m) ==
    /\ m \in connected
    /\ asked < MaxUser
    /\ asked' = asked + 1
    /\ connected' = connected \ {m}
    /\ disconnects' = disconnects \cup {m}
    /\ UNCHANGED <<redis, connects, procs, troubles, excused>>

UserConnects(m) ==
    /\ m \notin connected
    /\ connected' = connected \cup {m}
    /\ UNCHANGED <<redis, queue, procs, bound>>

-----------------------------------------------------------------------------
ClientStep(c) ==
    \/ \E m \in Mailboxes : TakeConnect(c, m) \/ TakeDisconnect(c, m) \/ CoolOver(c, m)
    \/ NoToken(c) \/ CheckCircuit(c) \/ ReadClaim(c) \/ LateReap(c)
    \/ Claim(c) \/ Refused(c) \/ Connect(c) \/ MarkConnected(c)
    \/ ConnectFails(c) \/ InboxFails(c) \/ CutFails(c)
    \/ Heartbeat(c) \/ HeartbeatLimit(c) \/ Recycle(c) \/ Reestablish(c)
    \/ ConnectionEnds(c) \/ Reconnect(c) \/ FinishDisconnect(c)

WorkerStep(w) ==
    \/ \E m \in Mailboxes : Reclaim(w, m) \/ DrainOrphan(w, m)
    \/ SweepOwnSet(w)
    \/ \E o \in Workers : SweepOther(w, o)
    \/ Crash(w) \/ Shutdown(w) \/ Boot(w)

Outside ==
    \/ \E m \in Mailboxes : GrowOld(m) \/ Expire(m) \/ UserDisconnects(m) \/ UserConnects(m)
    \/ CircuitExpires

Next ==
    \/ \E c \in Clients : ClientStep(c)
    \/ \E w \in Workers : WorkerStep(w)
    \/ Outside

Spec == Init /\ [][Next]_vars

\* A Node process goes on with what it awaits and its timers fire; BullMQ hands
\* out what is queued; the watchdogs sweep; the platform restarts a replica that
\* is gone; time passes and Redis expires keys.  Nothing is assumed of troubles,
\* users, recycles and the sweeps of other replicas' sets.
Progress(c) ==
    \/ CheckCircuit(c) \/ ReadClaim(c) \/ LateReap(c) \/ Claim(c) \/ Refused(c)
    \/ Connect(c) \/ MarkConnected(c) \/ CutFails(c) \/ Reestablish(c)
    \/ Reconnect(c) \/ FinishDisconnect(c)
    \/ pc[c] = "broken" /\ HeartbeatLimit(c)
    \/ pc[c] = "leaked" /\ ConnectionEnds(c)

FairSpec ==
    /\ Spec
    /\ \A c \in Clients : WF_vars(Progress(c))
    /\ \A c \in Clients, m \in Mailboxes :
           WF_vars(TakeConnect(c, m)) /\ WF_vars(TakeDisconnect(c, m)) /\ WF_vars(CoolOver(c, m))
    /\ \A w \in Workers, m \in Mailboxes : WF_vars(Reclaim(w, m)) /\ WF_vars(DrainOrphan(w, m))
    /\ \A w \in Workers : WF_vars(Boot(w))
    /\ \A m \in Mailboxes : WF_vars(GrowOld(m)) /\ WF_vars(Expire(m))
    /\ WF_vars(CircuitExpires)

-----------------------------------------------------------------------------
(* Properties                                                               *)

\* At most one replica at a time is connected to a mailbox, and it once, through
\* crashes, restarts, recycles, reconnects and reaping: only a disturbance of the
\* mailbox explains a second connection.
OneConnection ==
    \A c, d \in Clients :
        Live(c) /\ Live(d) /\ box[c] = box[d] => c = d \/ box[c] \in excused

\* The claims of the replicas and their live connections, as MailboxLease has them.
Lease == INSTANCE MailboxLease WITH
    holder <- [m \in Mailboxes |-> key[m].owner],
    open   <- [m \in Mailboxes |-> {c \in Clients : Live(c) /\ box[c] = m}],
    hit    <- excused

\* Seen from outside, LUA_CLAIM and all that reads, refreshes, releases, reaps and
\* expires imap:active amount to a lease: until a disturbance hits the mailbox,
\* its claim goes to one replica, which alone connects, once, and no step takes
\* the claim from a replica that is connected.
ImplementsLease == Lease!Spec

\* A mailbox its user keeps connected is, again and again, in IDLE somewhere.
ComesBack ==
    \A m \in Mailboxes :
        []<>(m \notin connected \/ \E c \in Clients : box[c] = m /\ pc[c] = "idle")

=============================================================================
