-------------------------- MODULE ImapLease_proofs --------------------------
(* Theorems about ImapLease: types, and one connection per mailbox.         *)
EXTENDS ImapLease, TLAPS

\* While a mailbox is undisturbed, whoever holds it owns its claim, and the
\* claim is young.
Owned ==
    \A c \in Clients :
        Holds(c) /\ box[c] \notin excused =>
            key[box[c]] = [owner |-> Home(c), age |-> 0]

\* It has one holder.
Exclusive ==
    \A c, d \in Clients :
        /\ Holds(c) /\ Holds(d)
        /\ box[c] = box[d]
        /\ box[c] \notin excused
        => c = d

\* The map of a replica names, for each mailbox, a holder of its own.
MapTruth ==
    \A w \in Workers, m \in Mailboxes :
        connections[w][m] # NoClient =>
            /\ Home(connections[w][m]) = w
            /\ box[connections[w][m]] = m
            /\ pc[connections[w][m]] \in {"connect", "mark", "idle", "logout", "retry"}

\* Clients no one answers for are the work of a disturbance.
NoStrays ==
    \A c \in Clients :
        pc[c] \in {"reap", "failed", "leaked"} => box[c] \in excused

ClaimsInv == Owned /\ Exclusive /\ MapTruth /\ NoStrays

LeaseInv == LeaseTypeOK /\ ClaimsInv

LEMMA HomeIsWorker == \A c \in Clients : Home(c) \in Workers
BY DEF Clients, Home

\* What a catch leaves is well formed, whatever becomes of the client.
LEMMA CatchTypes ==
    ASSUME LeaseTypeOK, NEW c \in Clients, NEW after \in {"free", "retry", "leaked"},
           pc[c] # "free", Catch(c, after), troubles' \in 0 .. MaxTroubles,
           excused' \subseteq Mailboxes, asked' = asked
    PROVE  LeaseTypeOK'
<1> USE SocketsAssumption, HomeIsWorker
<1> USE DEF LeaseTypeOK, Catch, Keys, Ages, NoKey, PCs, Goto, Unmap, RecordFailure
<1>1. Home(c) \in up /\ box[c] \in Mailboxes /\ Home(c) \in Workers
  OBVIOUS
<1>2. key' \in [Mailboxes -> Keys \cup {NoKey}]
  <2>1. [owner |-> NoOne, age |-> 0] \in Keys
    OBVIOUS
  <2> HIDE DEF Keys, NoKey
  <2> QED BY <1>1, <2>1
<1>2a. wset' \in [Workers -> SUBSET Mailboxes]
  BY <1>1
<1>3. failures' \in 0 .. Threshold
  OBVIOUS
<1>4. connections' \in [Workers -> [Mailboxes -> Clients \cup {NoClient}]]
  BY <1>1
<1>5. pc' \in [Clients -> PCs] /\ box' \in [Clients -> Mailboxes \cup {NoBox}]
  OBVIOUS
<1>6. \A x \in Clients : pc'[x] # "free" => box'[x] \in Mailboxes /\ Home(x) \in up'
  BY <1>1
<1> QED BY <1>2, <1>2a, <1>3, <1>4, <1>5, <1>6 DEF queue

\* The types are inductive as they stand.
LEMMA TypeStep == LeaseTypeOK /\ [Next]_vars => LeaseTypeOK'
<1> SUFFICES ASSUME LeaseTypeOK, [Next]_vars PROVE LeaseTypeOK'
  OBVIOUS
<1> USE BoundsAssumption, SocketsAssumption, HomeIsWorker
<1> USE DEF LeaseTypeOK, Keys, Ages, NoKey, PCs, Goto, Finish, Begin, Idle, Trouble, Disturb,
            Unmap, Touch, Release, RecordFailure, Reap, Gone, Enqueue,
            redis, queue, procs, bound, Mine
<1>1. ASSUME NEW c \in Clients, ClientStep(c) PROVE LeaseTypeOK'
  <2>1. ASSUME NEW m \in Mailboxes, TakeConnect(c, m) PROVE LeaseTypeOK'
    <3>1. connects' \in [Mailboxes -> 0 .. MaxTasks]
      BY <2>1 DEF TakeConnect
    <3>2. CASE UNCHANGED <<pc, box>>
      BY <2>1, <3>1, <3>2 DEF TakeConnect
    <3>3. CASE Begin(c, m)
      <4>1. \A x \in Clients : pc'[x] # "free" => box'[x] \in Mailboxes /\ Home(x) \in up
        BY <2>1, <3>3 DEF TakeConnect
      <4> QED BY <2>1, <3>1, <3>3, <4>1 DEF TakeConnect
    <3> QED BY <2>1, <3>2, <3>3 DEF TakeConnect
  <2>2. ASSUME NEW m \in Mailboxes, TakeDisconnect(c, m) PROVE LeaseTypeOK'
    <3> DEFINE d == connections[Home(c)][m]
    <3>1. CASE d = NoClient
      BY <2>2, <3>1 DEF TakeDisconnect
    <3>2. CASE d # NoClient
      <4>1. d \in Clients /\ Home(c) \in up /\ pc[c] = "free"
        BY <2>2, <3>2 DEF TakeDisconnect
      <4>2. /\ pc' = [pc EXCEPT ![c] = "leaving",
                                ![d] = CASE @ \in {"connect", "mark"} -> "failed"
                                         [] @ = "logout" -> "closed"
                                         [] @ \in {"idle", "retry"} -> "free"
                                         [] OTHER -> @]
            /\ box' = [box EXCEPT ![c] = m,
                                  ![d] = IF pc'[d] = "free" THEN NoBox ELSE @]
            /\ UNCHANGED <<connected, redis, connects, up, cooling, troubles, asked>>
        BY <2>2, <3>2 DEF TakeDisconnect
      <4>2a. excused' \subseteq Mailboxes /\ disconnects' \subseteq Mailboxes
        <5>1. /\ disconnects' = disconnects \ {m}
              /\ excused' = excused \cup {m} \/ excused' = excused
          BY <2>2, <3>2, Zenon DEF TakeDisconnect, Disturb
        <5> QED BY <5>1
      <4>2b. connections' \in [Workers -> [Mailboxes -> Clients \cup {NoClient}]]
        <5>1. connections' = [connections EXCEPT ![Home(c)][m] = NoClient]
          BY <2>2, <3>2, Zenon DEF TakeDisconnect, Unmap
        <5> QED BY <5>1
      <4>3. pc' \in [Clients -> PCs] /\ box' \in [Clients -> Mailboxes \cup {NoBox}]
        BY <4>1, <4>2
      <4>4. pc'[c] = "leaving" /\ box'[c] = m
        BY <4>1, <4>2
      <4>5. \A x \in Clients : x # c /\ pc'[x] # "free" =>
               pc[x] # "free" /\ box'[x] = box[x]
        BY <4>1, <4>2
      <4>6. \A x \in Clients : pc'[x] # "free" => box'[x] \in Mailboxes /\ Home(x) \in up
        BY <4>1, <4>4, <4>5
      <4> QED BY <4>2, <4>2a, <4>2b, <4>3, <4>6
    <3> QED BY <3>1, <3>2
  <2>3. ASSUME NEW m \in Mailboxes, CoolOver(c, m) PROVE LeaseTypeOK'
    <3>1. cooling' \in [Workers -> SUBSET Mailboxes]
      BY <2>3 DEF CoolOver
    <3>2. CASE UNCHANGED <<pc, box>>
      BY <2>3, <3>1, <3>2 DEF CoolOver
    <3>3. CASE Begin(c, m)
      <4>1. \A x \in Clients : pc'[x] # "free" => box'[x] \in Mailboxes /\ Home(x) \in up
        BY <2>3, <3>3 DEF CoolOver
      <4> QED BY <2>3, <3>1, <3>3, <4>1 DEF CoolOver
    <3> QED BY <2>3, <3>2, <3>3 DEF CoolOver
  <2>4. CASE NoToken(c)
    BY <2>4 DEF NoToken
  <2>5. CASE CheckCircuit(c)
    <3>1. CASE CircuitOpen
      <4>1. cooling' \in [Workers -> SUBSET Mailboxes]
        BY <2>5, <3>1 DEF CheckCircuit
      <4> QED BY <2>5, <3>1, <4>1 DEF CheckCircuit
    <3>2. CASE ~ CircuitOpen
      BY <2>5, <3>2 DEF CheckCircuit
    <3> QED BY <3>1, <3>2
  <2>6. CASE ReadClaim(c)
    <3>1. key' \in [Mailboxes -> Keys \cup {NoKey}]
      <4> HIDE DEF Keys, NoKey
      <4> QED BY <2>6 DEF ReadClaim
    <3>1a. wset' \in [Workers -> SUBSET Mailboxes]
      <4> HIDE DEF Keys, NoKey
      <4> QED BY <2>6 DEF ReadClaim
    <3>2. pc' \in [Clients -> PCs] /\ excused' \subseteq Mailboxes
      BY <2>6 DEF ReadClaim
    <3>3. \A x \in Clients : pc'[x] # "free" => pc[x] # "free"
      BY <2>6 DEF ReadClaim
    <3> QED BY <2>6, <3>1, <3>1a, <3>2, <3>3 DEF ReadClaim
  <2>7. CASE LateReap(c)
    BY <2>7 DEF LateReap
  <2>8. CASE Claim(c)
    BY <2>8 DEF Claim
  <2>9. CASE Refused(c)
    BY <2>9 DEF Refused
  <2>10. CASE Connect(c)
    BY <2>10 DEF Connect
  <2>11. CASE MarkConnected(c)
    BY <2>11 DEF MarkConnected
  <2>12. CASE ConnectFails(c)
    <3>1. PICK after \in {"free", "retry", "leaked"} : Catch(c, after)
      BY <2>12 DEF ConnectFails
    <3>2. troubles' \in 0 .. MaxTroubles /\ excused' \subseteq Mailboxes /\ asked' = asked
      BY <2>12 DEF ConnectFails
    <3> QED BY <2>12, <3>1, <3>2, CatchTypes DEF ConnectFails
  <2>13. CASE InboxFails(c)
    <3>1. Catch(c, "leaked") /\ troubles' \in 0 .. MaxTroubles /\ excused' \subseteq Mailboxes
      BY <2>13 DEF InboxFails
    <3> QED BY <2>13, <3>1, CatchTypes DEF InboxFails
  <2>14. CASE CutFails(c)
    <3>1. Catch(c, "free") /\ pc[c] # "free" /\ asked' = asked
          /\ troubles' \in 0 .. MaxTroubles /\ excused' \subseteq Mailboxes
      BY <2>14 DEF CutFails
    <3> QED BY <3>1, CatchTypes
  <2>15. CASE Heartbeat(c)
    BY <2>15 DEF Heartbeat
  <2>16. CASE HeartbeatLimit(c)
    BY <2>16 DEF HeartbeatLimit
  <2>17. CASE Recycle(c)
    BY <2>17 DEF Recycle
  <2>18. CASE Reestablish(c)
    BY <2>18 DEF Reestablish
  <2>19. CASE ConnectionEnds(c)
    BY <2>19 DEF ConnectionEnds
  <2>20. CASE Reconnect(c)
    BY <2>20 DEF Reconnect
  <2>21. CASE FinishDisconnect(c)
    BY <2>21 DEF FinishDisconnect
  <2> QED BY <1>1, <2>1, <2>2, <2>3, <2>4, <2>5, <2>6, <2>7, <2>8, <2>9, <2>10, <2>11, <2>12, <2>13, <2>14, <2>15, <2>16, <2>17, <2>18, <2>19, <2>20, <2>21 DEF ClientStep
<1>2. ASSUME NEW w \in Workers, WorkerStep(w) PROVE LeaseTypeOK'
  <2>1. ASSUME NEW m \in Mailboxes, Reclaim(w, m) PROVE LeaseTypeOK'
    BY <2>1 DEF Reclaim
  <2>2. ASSUME NEW m \in Mailboxes, DrainOrphan(w, m) PROVE LeaseTypeOK'
    BY <2>2 DEF DrainOrphan
  <2>3. ASSUME NEW o \in Workers, SweepOther(w, o) PROVE LeaseTypeOK'
    BY <2>3 DEF SweepOther
  <2>4. CASE SweepOwnSet(w)
    BY <2>4 DEF SweepOwnSet
  <2>5. CASE Crash(w)
    BY <2>5 DEF Crash
  <2>6. CASE Shutdown(w)
    BY <2>6 DEF Shutdown
  <2>7. CASE Boot(w)
    BY <2>7 DEF Boot
  <2> QED BY <1>2, <2>1, <2>2, <2>3, <2>4, <2>5, <2>6, <2>7 DEF WorkerStep
<1>3. CASE Outside
  <2>1. ASSUME NEW m \in Mailboxes, GrowOld(m) PROVE LeaseTypeOK'
    <3>1. key[m] \in Keys /\ key[m].age + 1 \in Ages
      BY <2>1 DEF GrowOld
    <3>2. key' \in [Mailboxes -> Keys \cup {NoKey}]
      BY <2>1, <3>1 DEF GrowOld
    <3> QED BY <2>1, <3>2 DEF GrowOld
  <2>2. ASSUME NEW m \in Mailboxes, Expire(m) PROVE LeaseTypeOK'
    BY <2>2 DEF Expire
  <2>3. ASSUME NEW m \in Mailboxes, UserDisconnects(m) PROVE LeaseTypeOK'
    BY <2>3 DEF UserDisconnects
  <2>4. ASSUME NEW m \in Mailboxes, UserConnects(m) PROVE LeaseTypeOK'
    BY <2>4 DEF UserConnects
  <2>5. CASE CircuitExpires
    BY <2>5 DEF CircuitExpires
  <2> QED BY <1>3, <2>1, <2>2, <2>3, <2>4, <2>5 DEF Outside
<1>4. CASE UNCHANGED vars
  BY <1>4 DEF vars
<1> QED BY <1>1, <1>2, <1>3, <1>4 DEF Next

-----------------------------------------------------------------------------
\* A held claim is there, and young.
LEMMA Young ==
    ASSUME LeaseInv, NEW x \in Clients, Holds(x), box[x] \notin excused
    PROVE  key[box[x]].owner = Home(x) /\ key[box[x]].age = 0 /\ key[box[x]] # NoKey
<1>1. key[box[x]] = [owner |-> Home(x), age |-> 0]
  BY DEF LeaseInv, ClaimsInv, Owned
<1>2. key[box[x]].owner = Home(x) /\ key[box[x]].age = 0
  BY <1>1
<1>3. NoKey.age = 3
  BY DEF NoKey
<1> QED BY <1>2, <1>3

\* A client that holds nothing may come, go and wait: no claim is touched.
LEMMA Bystander ==
    ASSUME LeaseInv, NEW c \in Clients, ~ Holds(c),
           pc'[c] \in {"free", "open", "claim", "lua", "closed"},
           \A x \in Clients : x # c => pc'[x] = pc[x] /\ box'[x] = box[x],
           key' = key, connections' = connections, excused' = excused
    PROVE  ClaimsInv'
<1> USE DEF LeaseInv, ClaimsInv, LeaseTypeOK, Holds
<1>1. Owned' /\ Exclusive'
  BY DEF Owned, Exclusive
<1>2. NoStrays'
  BY DEF NoStrays
<1>3. MapTruth'
  BY DEF MapTruth
<1> QED BY <1>1, <1>2, <1>3

\* A catch gives up the claim of a client that held it, or of a disturbed mailbox.
LEMMA CatchClaims ==
    ASSUME LeaseInv, NEW c \in Clients, NEW after \in {"free", "retry", "leaked"},
           Catch(c, after), Holds(c) \/ box[c] \in excused, pc[c] # "free",
           (after = "free" /\ excused' = excused) \/ excused' = excused \cup {box[c]}
    PROVE  ClaimsInv'
<1> USE HomeIsWorker
<1> USE DEF LeaseInv, ClaimsInv, LeaseTypeOK, Holds
<1>1. /\ pc' = [pc EXCEPT ![c] = after]
      /\ box' = [box EXCEPT ![c] = IF after = "free" THEN NoBox ELSE @]
      /\ connections' = [connections EXCEPT ![Home(c)][box[c]] = NoClient]
      /\ \A m \in Mailboxes : m # box[c] => key'[m] = key[m]
  BY DEF Catch, Goto, Unmap
<1>2. \A x \in Clients : x # c => pc'[x] = pc[x] /\ box'[x] = box[x]
  BY <1>1
<1>3. pc'[c] = after /\ box[c] \in Mailboxes
  BY <1>1
<1>4. after # "free" => box'[c] = box[c]
  BY <1>1
<1>5. \A x \in Clients : Holds(x) /\ box[x] = box[c] /\ box[x] \notin excused => x = c
  BY DEF Exclusive
<1>6. Owned'
  BY <1>1, <1>2, <1>3, <1>4, <1>5 DEF Owned
<1>7. Exclusive'
  BY <1>1, <1>2, <1>3, <1>4, <1>5 DEF Exclusive
<1>8. NoStrays'
  BY <1>1, <1>2, <1>3, <1>4 DEF NoStrays
<1>9. MapTruth'
  <2> SUFFICES ASSUME NEW w \in Workers, NEW m \in Mailboxes,
                      connections'[w][m] # NoClient
               PROVE  /\ Home(connections'[w][m]) = w
                      /\ box'[connections'[w][m]] = m
                      /\ pc'[connections'[w][m]] \in {"connect", "mark", "idle", "logout", "retry"}
    BY DEF MapTruth
  <2>1. connections'[w][m] = connections[w][m]
    BY <1>1
  <2>2. connections[w][m] \in Clients /\ connections[w][m] # c
    <3>1. connections[w][m] \in Clients /\ Home(connections[w][m]) = w /\ box[connections[w][m]] = m
      BY <2>1 DEF MapTruth
    <3>2. connections'[Home(c)][box[c]] = NoClient
      BY <1>1, <1>3
    <3> QED BY <3>1, <3>2
  <2> QED BY <1>2, <2>1, <2>2 DEF MapTruth
<1> QED BY <1>6, <1>7, <1>8, <1>9

\* Claims are inductive together with the types: whoever deletes a claim holds it
\* itself, or finds it old, which no holder lets happen.
LEMMA ClaimsStep == LeaseInv /\ [Next]_vars => ClaimsInv'
<1> SUFFICES ASSUME LeaseInv, [Next]_vars PROVE ClaimsInv'
  OBVIOUS
<1> USE HomeIsWorker
<1> USE DEF LeaseInv, ClaimsInv, LeaseTypeOK, Owned, Exclusive, MapTruth, NoStrays, Holds,
            Goto, Finish, Begin, Idle, Trouble, Disturb, Unmap, Touch, Release, Reap, Gone,
            redis, queue, procs, bound, Mine, NoKey, Keys
<1>1. ASSUME NEW c \in Clients, ClientStep(c) PROVE ClaimsInv'
  <2>1. ASSUME NEW m \in Mailboxes, TakeConnect(c, m) PROVE ClaimsInv'
    <3>1. /\ ~ Holds(c) /\ key' = key /\ connections' = connections /\ excused' = excused
          /\ pc'[c] \in {"free", "open"}
          /\ \A x \in Clients : x # c => pc'[x] = pc[x] /\ box'[x] = box[x]
      BY <2>1 DEF TakeConnect
    <3> HIDE DEF LeaseInv, ClaimsInv, Holds
    <3> QED BY <3>1, Bystander
  <2>2. ASSUME NEW m \in Mailboxes, TakeDisconnect(c, m) PROVE ClaimsInv'
    <3> DEFINE d == connections[Home(c)][m]
    <3>1. CASE d = NoClient
      BY <2>2, <3>1 DEF TakeDisconnect
    <3>2. CASE d # NoClient
      <4>1. /\ d \in Clients /\ d # c /\ ~ Holds(c)
            /\ Home(d) = Home(c) /\ box[d] = m
            /\ pc[d] \in {"connect", "mark", "idle", "logout", "retry"}
        BY <2>2, <3>2 DEF TakeDisconnect
      <4>2. /\ pc' = [pc EXCEPT ![c] = "leaving",
                                ![d] = CASE @ \in {"connect", "mark"} -> "failed"
                                         [] @ = "logout" -> "closed"
                                         [] @ \in {"idle", "retry"} -> "free"
                                         [] OTHER -> @]
            /\ box' = [box EXCEPT ![c] = m,
                                  ![d] = IF pc'[d] = "free" THEN NoBox ELSE @]
            /\ key' = key
            /\ connections' = [connections EXCEPT ![Home(c)][m] = NoClient]
            /\ IF pc[d] \in {"connect", "mark"} THEN excused' = excused \cup {m}
                                               ELSE excused' = excused
        BY <2>2, <3>2 DEF TakeDisconnect
      <4>3. /\ \A x \in Clients : x # c /\ x # d => pc'[x] = pc[x] /\ box'[x] = box[x]
            /\ pc'[c] = "leaving" /\ box'[c] = m
        BY <4>1, <4>2
      <4>4. /\ pc'[d] \in {"failed", "closed", "free"}
            /\ pc'[d] # "free" => box'[d] = m
            /\ pc'[d] = "failed" => m \in excused'
            /\ excused \subseteq excused'
        BY <4>1, <4>2
      <4>5. \A x \in Clients : Holds(x)' => x = c \/ (Holds(x) /\ x # d /\ box'[x] = box[x])
        BY <4>3, <4>4
      <4>6. Owned'
        BY <4>1, <4>2, <4>3, <4>4, <4>5
      <4>7. Exclusive'
        BY <4>1, <4>3, <4>4, <4>5
      <4>8. NoStrays'
        BY <4>3, <4>4
      <4>9. MapTruth'
        <5> SUFFICES ASSUME NEW w \in Workers, NEW n \in Mailboxes,
                            connections'[w][n] # NoClient
                     PROVE  /\ Home(connections'[w][n]) = w
                            /\ box'[connections'[w][n]] = n
                            /\ pc'[connections'[w][n]] \in {"connect", "mark", "idle", "logout", "retry"}
          BY DEF MapTruth
        <5> DEFINE e == connections[w][n]
        <5>1. connections'[w][n] = e /\ <<w, n>> # <<Home(c), m>>
          BY <4>2
        <5>2. e \in Clients /\ Home(e) = w /\ box[e] = n
              /\ pc[e] \in {"connect", "mark", "idle", "logout", "retry"}
          BY <5>1
        <5>3. e # c /\ e # d
          BY <4>1, <5>1, <5>2
        <5> QED BY <4>3, <5>1, <5>2, <5>3
      <4> QED BY <4>6, <4>7, <4>8, <4>9
    <3> QED BY <3>1, <3>2
  <2>3. ASSUME NEW m \in Mailboxes, CoolOver(c, m) PROVE ClaimsInv'
    <3>1. /\ ~ Holds(c) /\ key' = key /\ connections' = connections /\ excused' = excused
          /\ pc'[c] \in {"free", "open"}
          /\ \A x \in Clients : x # c => pc'[x] = pc[x] /\ box'[x] = box[x]
      BY <2>3 DEF CoolOver
    <3> HIDE DEF LeaseInv, ClaimsInv, Holds
    <3> QED BY <3>1, Bystander
  <2>4. CASE NoToken(c)
    BY <2>4 DEF NoToken
  <2>5. CASE CheckCircuit(c)
    <3>1. /\ ~ Holds(c) /\ key' = key /\ connections' = connections /\ excused' = excused
          /\ pc'[c] \in {"free", "claim"}
          /\ \A x \in Clients : x # c => pc'[x] = pc[x] /\ box'[x] = box[x]
      BY <2>5 DEF CheckCircuit
    <3> HIDE DEF LeaseInv, ClaimsInv, Holds
    <3> QED BY <3>1, Bystander
  <2>6. CASE ReadClaim(c)
    <3>1. CASE ~ Stale(box[c])
      <4>1. /\ ~ Holds(c) /\ key' = key /\ connections' = connections /\ excused' = excused
            /\ pc'[c] = "lua"
            /\ \A x \in Clients : x # c => pc'[x] = pc[x] /\ box'[x] = box[x]
        BY <2>6, <3>1 DEF ReadClaim
      <4> HIDE DEF LeaseInv, ClaimsInv, Holds
      <4> QED BY <4>1, Bystander
    <3>2. CASE Stale(box[c]) /\ Goto(c, "lua") /\ Reap(box[c])
      <4>1. \A x \in Clients : Holds(x) /\ box[x] = box[c] => box[x] \in excused
        <5> HIDE DEF LeaseInv, ClaimsInv, Holds
        <5> QED BY <3>2, Young DEF Stale
      <4>2. \A m \in Mailboxes : m # box[c] => key'[m] = key[m]
        BY <3>2
      <4>3. excused' = excused /\ box' = box /\ connections' = connections
        BY <2>6, <3>2 DEF ReadClaim
      <4> QED BY <2>6, <3>2, <4>1, <4>2, <4>3 DEF ReadClaim
    <3>3. CASE Goto(c, "reap") /\ Disturb("overlappedReap", box[c]) /\ key' = key
      BY <2>6, <3>3 DEF ReadClaim
    <3> QED BY <2>6, <3>1, <3>2, <3>3 DEF ReadClaim
  <2>7. CASE LateReap(c)
    BY <2>7 DEF LateReap
  <2>8. CASE Claim(c)
    <3>1. \A x \in Clients : Holds(x) /\ box[x] = box[c] => box[x] \in excused
      <4> HIDE DEF LeaseInv, ClaimsInv, Holds
      <4> QED BY <2>8, Young DEF Claim
    <3>2. Owned' /\ Exclusive' /\ NoStrays'
      BY <2>8, <3>1 DEF Claim
    <3>3. MapTruth'
      BY <2>8, <3>1 DEF Claim
    <3> QED BY <3>2, <3>3
  <2>9. CASE Refused(c)
    BY <2>9 DEF Refused
  <2>10. CASE Connect(c)
    BY <2>10 DEF Connect
  <2>11. CASE MarkConnected(c)
    BY <2>11 DEF MarkConnected
  <2>12. CASE ConnectFails(c)
    <3>1. \E after \in {"free", "retry", "leaked"} :
              /\ Catch(c, after)
              /\ (after = "free" /\ excused' = excused) \/ excused' = excused \cup {box[c]}
      BY <2>12 DEF ConnectFails
    <3>2. (Holds(c) \/ box[c] \in excused) /\ pc[c] # "free"
      BY <2>12 DEF ConnectFails
    <3> HIDE DEF LeaseInv, ClaimsInv, Holds
    <3> QED BY <3>1, <3>2, CatchClaims
  <2>13. CASE InboxFails(c)
    <3>1. Catch(c, "leaked") /\ excused' = excused \cup {box[c]}
      BY <2>13 DEF InboxFails
    <3>2. (Holds(c) \/ box[c] \in excused) /\ pc[c] # "free"
      BY <2>13 DEF InboxFails
    <3> HIDE DEF LeaseInv, ClaimsInv, Holds
    <3> QED BY <3>1, <3>2, CatchClaims
  <2>14. CASE CutFails(c)
    <3>1. Catch(c, "free") /\ excused' = excused
      BY <2>14 DEF CutFails
    <3>2. (Holds(c) \/ box[c] \in excused) /\ pc[c] # "free"
      BY <2>14 DEF CutFails
    <3> HIDE DEF LeaseInv, ClaimsInv, Holds
    <3> QED BY <3>1, <3>2, CatchClaims
  <2>15. CASE Heartbeat(c)
    BY <2>15 DEF Heartbeat
  <2>16. CASE HeartbeatLimit(c)
    <3>1. CASE pc[c] = "idle"
      <4>1. /\ pc' = [pc EXCEPT ![c] = "logout"]
            /\ UNCHANGED <<key, box, connections, excused>>
        BY <2>16, <3>1 DEF HeartbeatLimit
      <4>2. Owned' /\ Exclusive' /\ NoStrays'
        BY <3>1, <4>1
      <4>3. MapTruth'
        BY <3>1, <4>1
      <4> QED BY <4>2, <4>3
    <3>2. CASE pc[c] = "broken"
      <4>1. /\ ~ Holds(c) /\ key' = key /\ connections' = connections /\ excused' = excused
            /\ pc'[c] = "closed"
            /\ \A x \in Clients : x # c => pc'[x] = pc[x] /\ box'[x] = box[x]
        BY <2>16, <3>2 DEF HeartbeatLimit
      <4> HIDE DEF LeaseInv, ClaimsInv, Holds
      <4> QED BY <4>1, Bystander
    <3> QED BY <2>16, <3>1, <3>2 DEF HeartbeatLimit
  <2>17. CASE Recycle(c)
    BY <2>17 DEF Recycle
  <2>18. CASE Reestablish(c)
    BY <2>18 DEF Reestablish
  <2>19. CASE ConnectionEnds(c)
    BY <2>19 DEF ConnectionEnds
  <2>20. CASE Reconnect(c)
    BY <2>20 DEF Reconnect
  <2>21. CASE FinishDisconnect(c)
    BY <2>21 DEF FinishDisconnect
  <2> QED BY <1>1, <2>1, <2>2, <2>3, <2>4, <2>5, <2>6, <2>7, <2>8, <2>9, <2>10, <2>11, <2>12, <2>13, <2>14, <2>15, <2>16, <2>17, <2>18, <2>19, <2>20, <2>21 DEF ClientStep
<1>2. ASSUME NEW w \in Workers, WorkerStep(w) PROVE ClaimsInv'
  <2>1. ASSUME NEW m \in Mailboxes, Reclaim(w, m) PROVE ClaimsInv'
    BY <2>1 DEF Reclaim
  <2>2. ASSUME NEW m \in Mailboxes, DrainOrphan(w, m) PROVE ClaimsInv'
    BY <2>2 DEF DrainOrphan
  <2>3. ASSUME NEW o \in Workers, SweepOther(w, o) PROVE ClaimsInv'
    BY <2>3 DEF SweepOther
  <2>4. CASE SweepOwnSet(w)
    BY <2>4 DEF SweepOwnSet
  <2>5. CASE Crash(w)
    BY <2>5 DEF Crash
  <2>6. CASE Shutdown(w)
    <3> DEFINE Held == {m \in Mailboxes : connections[w][m] # NoClient}
    <3>1. /\ pc' = [c \in Clients |-> IF Home(c) = w THEN "free" ELSE pc[c]]
          /\ box' = [c \in Clients |-> IF Home(c) = w THEN NoBox ELSE box[c]]
          /\ connections' = [connections EXCEPT ![w] = [m \in Mailboxes |-> NoClient]]
          /\ key' = [m \in Mailboxes |-> IF m \in Held THEN NoKey ELSE key[m]]
          /\ excused' = excused
      BY <2>6 DEF Shutdown
    <3>2. \A x \in Clients : Holds(x) /\ box[x] \in Held /\ box[x] \notin excused => Home(x) = w
      <4> SUFFICES ASSUME NEW x \in Clients, Holds(x), box[x] \in Held, box[x] \notin excused
                   PROVE  Home(x) = w
        OBVIOUS
      <4> DEFINE d == connections[w][box[x]]
      <4>1. d \in Clients /\ Home(d) = w /\ box[d] = box[x]
            /\ pc[d] \in {"connect", "mark", "idle", "logout", "retry"}
        BY DEF MapTruth
      <4>2. d = x
        BY <4>1 DEF Exclusive
      <4> QED BY <4>1, <4>2
    <3>3. \A x \in Clients : pc'[x] # "free" => Home(x) # w /\ pc'[x] = pc[x] /\ box'[x] = box[x]
      BY <3>1
    <3>4. Owned'
      BY <3>1, <3>2, <3>3
    <3>5. Exclusive' /\ NoStrays'
      BY <3>1, <3>3
    <3>6. MapTruth'
      BY <3>1, <3>3
    <3> QED BY <3>4, <3>5, <3>6
  <2>7. CASE Boot(w)
    BY <2>7 DEF Boot
  <2> QED BY <1>2, <2>1, <2>2, <2>3, <2>4, <2>5, <2>6, <2>7 DEF WorkerStep
<1>3. CASE Outside
  <2>1. ASSUME NEW m \in Mailboxes, GrowOld(m) PROVE ClaimsInv'
    BY <2>1 DEF GrowOld
  <2>2. ASSUME NEW m \in Mailboxes, Expire(m) PROVE ClaimsInv'
    BY <2>2 DEF Expire
  <2>3. ASSUME NEW m \in Mailboxes, UserDisconnects(m) PROVE ClaimsInv'
    BY <2>3 DEF UserDisconnects
  <2>4. ASSUME NEW m \in Mailboxes, UserConnects(m) PROVE ClaimsInv'
    BY <2>4 DEF UserConnects
  <2>5. CASE CircuitExpires
    BY <2>5 DEF CircuitExpires
  <2> QED BY <1>3, <2>1, <2>2, <2>3, <2>4, <2>5 DEF Outside
<1>4. CASE UNCHANGED vars
  BY <1>4 DEF vars
<1> QED BY <1>1, <1>2, <1>3, <1>4 DEF Next

-----------------------------------------------------------------------------
\* The variables of connectMailbox, of the claims in Redis and of the queue keep
\* their types through every interleaving of replicas, crashes and users.
THEOREM LeaseTypeCorrect == Spec => []LeaseTypeOK
<1>1. Init => LeaseTypeOK
  BY BoundsAssumption, SocketsAssumption DEF Init, LeaseTypeOK, Keys, NoKey, PCs
<1>2. LeaseTypeOK /\ [Next]_vars => LeaseTypeOK'
  BY TypeStep
<1> QED BY <1>1, <1>2, PTL DEF Spec

\* The types and the claims together are inductive.
LEMMA LeaseInvHolds == Spec => []LeaseInv
<1>1. Init => LeaseInv
  <2>1. Init => LeaseTypeOK
    BY BoundsAssumption, SocketsAssumption DEF Init, LeaseTypeOK, Keys, NoKey, PCs
  <2>2. Init => ClaimsInv
    BY DEF Init, ClaimsInv, Owned, Exclusive, MapTruth, NoStrays, Holds
  <2> QED BY <2>1, <2>2 DEF LeaseInv
<1>2. LeaseInv /\ [Next]_vars => LeaseInv'
  BY TypeStep, ClaimsStep DEF LeaseInv
<1> QED BY <1>1, <1>2, PTL DEF Spec

\* However many replicas, slots and mailboxes there are, a mailbox no disturbance
\* has hit is connected at most once: LUA_CLAIM, the heartbeats, the recycling and
\* the reaping of stale claims together keep its claim with the one client.
THEOREM OneConnectionHolds == Spec => []OneConnection
<1>1. LeaseInv => OneConnection
  BY DEF LeaseInv, ClaimsInv, LeaseTypeOK, Exclusive, NoStrays, OneConnection, Holds, Live
<1> QED BY <1>1, LeaseInvHolds, PTL

-----------------------------------------------------------------------------
(* The refinement of MailboxLease.  For a mailbox m that is undisturbed, each *)
(* step of ImapLease grants the claim, opens the mailbox, leaves it closed    *)
(* with the claim where it was or given up, or changes nothing.               *)

\* c is a live connection to m.
Serves(c, m) == Live(c) /\ box[c] = m

\* Whoever has the mailbox in hand is the only one who can be connected to it.
LEMMA Alone ==
    ASSUME LeaseInv, NEW m \in Mailboxes, m \notin excused,
           NEW c \in Clients, Holds(c), box[c] = m
    PROVE  /\ \A x \in Clients : Serves(x, m) => x = c
           /\ key[m].owner = Home(c) /\ key[m].age = 0 /\ key[m] # NoKey
<1>1. key[m].owner = Home(c) /\ key[m].age = 0 /\ key[m] # NoKey
  BY Young
<1>2. \A x \in Clients : Serves(x, m) => Holds(x)
  BY DEF LeaseInv, ClaimsInv, NoStrays, Serves, Live, Holds
<1>3. \A x \in Clients : Serves(x, m) => x = c
  BY <1>2 DEF LeaseInv, ClaimsInv, Exclusive, Serves
<1> QED BY <1>1, <1>3

\* A mailbox whose claim is gone or has aged is connected nowhere.
LEMMA Unserved ==
    ASSUME LeaseInv, NEW m \in Mailboxes, m \notin excused,
           key[m].age # 0 \/ key[m] = NoKey
    PROVE  \A x \in Clients : ~ Serves(x, m)
<1>1. \A x \in Clients : Serves(x, m) => Holds(x) /\ box[x] = m
  BY DEF LeaseInv, ClaimsInv, NoStrays, Serves, Live, Holds
<1> QED BY <1>1, Young

\* Nothing an observer of m could see.
LEMMA RestStep ==
    ASSUME NEW m \in Mailboxes, key'[m].owner = key[m].owner,
           \A x \in Clients : Serves(x, m)' <=> Serves(x, m)
    PROVE  Lease!Rest(m)
BY DEF Lease!Rest, Serves

\* m is closed afterwards and no new replica has its claim.
LEMMA ClosedStep ==
    ASSUME NEW m \in Mailboxes, key'[m].owner \in {key[m].owner, NoOne},
           \A x \in Clients : ~ Serves(x, m)'
    PROVE  Lease!Close(m) \/ Lease!Lapse(m) \/ Lease!Rest(m)
BY DEF Lease!Rest, Lease!Close, Lease!Lapse, Serves

\* What MailboxLease lets a step do to m.
LeaseTurn(m) ==
    Lease!Grant(m) \/ Lease!Open(m) \/ Lease!Close(m) \/ Lease!Lapse(m) \/ Lease!Rest(m)

\* Disturbances are not forgotten.
LEMMA ExcusedGrows == [Next]_vars => excused \subseteq excused'
<1> SUFFICES ASSUME [Next]_vars PROVE excused \subseteq excused'
  OBVIOUS
<1> USE DEF Disturb, bound
<1>1. ASSUME NEW c \in Clients, ClientStep(c) PROVE excused \subseteq excused'
  BY <1>1 DEF ClientStep, TakeConnect, TakeDisconnect, CoolOver, NoToken, CheckCircuit,
     ReadClaim, LateReap, Claim, Refused, Connect, MarkConnected, ConnectFails, InboxFails,
     CutFails, Heartbeat, HeartbeatLimit, Recycle, Reestablish, ConnectionEnds, Reconnect,
     FinishDisconnect
<1>2. ASSUME NEW w \in Workers, WorkerStep(w) PROVE excused \subseteq excused'
  BY <1>2 DEF WorkerStep, Reclaim, DrainOrphan, SweepOwnSet, SweepOther, Crash, Shutdown, Boot
<1>3. CASE Outside
  BY <1>3 DEF Outside, GrowOld, Expire, UserDisconnects, UserConnects, CircuitExpires
<1>4. CASE UNCHANGED vars
  BY <1>4 DEF vars
<1> QED BY <1>1, <1>2, <1>3, <1>4 DEF Next

\* A step of one client that is connected neither before nor after it.
LEMMA Offstage ==
    ASSUME LeaseTypeOK, NEW m \in Mailboxes, NEW c \in Clients,
           key'[m].owner = key[m].owner, ~ Live(c), ~ Live(c)',
           \A x \in Clients : x # c => pc'[x] = pc[x] /\ box'[x] = box[x]
    PROVE  LeaseTurn(m)
<1>1. \A x \in Clients : Serves(x, m)' <=> Serves(x, m)
  BY DEF Serves, Live
<1> QED BY <1>1, RestStep DEF LeaseTurn

\* A step of one client for another mailbox.
LEMMA Elsewhere ==
    ASSUME LeaseTypeOK, NEW m \in Mailboxes, NEW c \in Clients,
           key'[m].owner = key[m].owner, box[c] # m, box'[c] # m,
           \A x \in Clients : x # c => pc'[x] = pc[x] /\ box'[x] = box[x]
    PROVE  LeaseTurn(m)
<1>1. \A x \in Clients : Serves(x, m)' <=> Serves(x, m)
  BY DEF Serves, Live
<1> QED BY <1>1, RestStep DEF LeaseTurn

\* The client that has m in hand ends up unconnected, its claim kept or released.
LEMMA LetsGo ==
    ASSUME LeaseInv, NEW m \in Mailboxes, m \notin excused,
           NEW c \in Clients, Holds(c), box[c] = m, ~ Serves(c, m)',
           key'[m].owner \in {key[m].owner, NoOne},
           \A x \in Clients : x # c => pc'[x] = pc[x] /\ box'[x] = box[x]
    PROVE  LeaseTurn(m)
<1>1. \A x \in Clients : ~ Serves(x, m)'
  BY Alone DEF Serves, Live
<1> QED BY <1>1, ClosedStep DEF LeaseTurn

\* What follows a catch.
LEMMA CatchTurn ==
    ASSUME LeaseInv, NEW m \in Mailboxes, m \notin excused',
           NEW c \in Clients, NEW after \in {"free", "retry", "leaked"}, Catch(c, after),
           (pc[c] = "connect" /\ after = "free") \/ box[c] \in excused',
           excused \subseteq excused', pc[c] # "free"
    PROVE  LeaseTurn(m)
<1> USE DEF Catch, Goto, Unmap, queue
<1>1. /\ \A x \in Clients : x # c => pc'[x] = pc[x] /\ box'[x] = box[x]
      /\ pc'[c] = after
      /\ box'[c] \in {box[c], NoBox} /\ (after # "free" => box'[c] = box[c])
      /\ box[c] \in Mailboxes
      /\ m # box[c] => key'[m] = key[m]
      /\ key'[box[c]].owner = NoOne
  BY DEF LeaseInv, LeaseTypeOK, NoKey
<1>2. CASE box[c] = m
  <2>1. Holds(c) /\ ~ Serves(c, m)'
    BY <1>1, <1>2 DEF Holds, Serves, Live
  <2> QED BY <1>1, <1>2, <2>1, LetsGo
<1>3. CASE box[c] # m
  <2>1. CASE after = "free"
    <3>1. \A x \in Clients : Serves(x, m)' <=> Serves(x, m)
      BY <1>1, <1>3, <2>1 DEF Serves, Live
    <3> QED BY <1>1, <1>3, <3>1, RestStep DEF LeaseTurn
  <2>2. CASE after # "free"
    BY <1>1, <1>3, <2>2, Elsewhere DEF LeaseInv
  <2> QED BY <2>1, <2>2
<1> QED BY <1>2, <1>3

\* The steps of a client.
LEMMA ClientTurn ==
    ASSUME LeaseInv, NEW c \in Clients, ClientStep(c), excused \subseteq excused',
           NEW m \in Mailboxes, m \notin excused'
    PROVE  LeaseTurn(m)
<1> USE HomeIsWorker, NamesAssumption
<1> USE DEF Goto, Finish, Begin, Idle, Trouble, Disturb, Unmap, Touch, Release, Reap,
            redis, queue, procs, bound, Mine
<1>0. LeaseTypeOK /\ m \notin excused /\ NoClient \notin Clients
  BY DEF LeaseInv, NoClient, Clients
<1>1. ASSUME NEW n \in Mailboxes, TakeConnect(c, n) PROVE LeaseTurn(m)
  <2>1. /\ key' = key /\ ~ Live(c) /\ ~ Live(c)'
        /\ \A x \in Clients : x # c => pc'[x] = pc[x] /\ box'[x] = box[x]
    BY <1>0, <1>1 DEF TakeConnect, LeaseTypeOK, Live
  <2> QED BY <1>0, <2>1, Offstage
<1>2. ASSUME NEW n \in Mailboxes, TakeDisconnect(c, n) PROVE LeaseTurn(m)
  <2> DEFINE d == connections[Home(c)][n]
  <2>1. CASE d = NoClient
    <3>1. /\ key' = key
          /\ \A x \in Clients : Serves(x, m)' <=> Serves(x, m)
      BY <1>2, <2>1 DEF TakeDisconnect, Serves, Live
    <3> QED BY <3>1, RestStep DEF LeaseTurn
  <2>2. CASE d # NoClient
    <3>1. /\ d \in Clients /\ d # c /\ box[d] = n
          /\ pc[d] \in {"connect", "mark", "idle", "logout", "retry"}
          /\ pc[c] = "free"
      <4>1. pc[c] = "free" /\ Home(c) \in Workers
        BY <1>2 DEF TakeDisconnect
      <4>2. d \in Clients
        BY <1>0, <2>2, <4>1 DEF LeaseTypeOK
      <4>3. box[d] = n /\ pc[d] \in {"connect", "mark", "idle", "logout", "retry"}
        BY <2>2, <4>1 DEF LeaseInv, ClaimsInv, MapTruth
      <4> QED BY <4>1, <4>2, <4>3
    <3>2. /\ key' = key
          /\ pc' = [pc EXCEPT ![c] = "leaving",
                              ![d] = CASE @ \in {"connect", "mark"} -> "failed"
                                       [] @ = "logout" -> "closed"
                                       [] @ \in {"idle", "retry"} -> "free"
                                       [] OTHER -> @]
          /\ box' = [box EXCEPT ![c] = n,
                                ![d] = IF pc'[d] = "free" THEN NoBox ELSE @]
      BY <1>2, <2>2 DEF TakeDisconnect
    <3>3. \A x \in Clients : x # c /\ x # d => pc'[x] = pc[x] /\ box'[x] = box[x]
      BY <1>0, <3>1, <3>2 DEF LeaseTypeOK
    <3>4. ~ Live(c) /\ ~ Live(c)' /\ pc'[d] \in {"failed", "closed", "free"}
      <4>1. pc'[c] = "leaving"
        BY <1>0, <3>1, <3>2 DEF LeaseTypeOK
      <4>2. pc'[d] \in {"failed", "closed", "free"}
        BY <1>0, <3>1, <3>2 DEF LeaseTypeOK
      <4> QED BY <3>1, <4>1, <4>2 DEF Live
    <3>5. CASE n = m
      <4>1. Holds(d)
        BY <3>1 DEF Holds
      <4>2. \A x \in Clients : ~ Serves(x, m)'
        BY <1>0, <3>1, <3>3, <3>4, <3>5, <4>1, Alone DEF Serves, Live
      <4> QED BY <3>2, <4>2, ClosedStep DEF LeaseTurn
    <3>6. CASE n # m
      <4>1. \A x \in Clients : Serves(x, m)' <=> Serves(x, m)
        BY <3>1, <3>3, <3>4, <3>6 DEF Serves, Live
      <4> QED BY <3>2, <4>1, RestStep DEF LeaseTurn
    <3> QED BY <3>5, <3>6
  <2> QED BY <2>1, <2>2
<1>3. ASSUME NEW n \in Mailboxes, CoolOver(c, n) PROVE LeaseTurn(m)
  <2>1. /\ key' = key /\ ~ Live(c) /\ ~ Live(c)'
        /\ \A x \in Clients : x # c => pc'[x] = pc[x] /\ box'[x] = box[x]
    BY <1>0, <1>3 DEF CoolOver, LeaseTypeOK, Live
  <2> QED BY <1>0, <2>1, Offstage
<1>4. CASE NoToken(c)
  <2>1. /\ key'[m].owner = key[m].owner /\ ~ Live(c) /\ ~ Live(c)'
        /\ \A x \in Clients : x # c => pc'[x] = pc[x] /\ box'[x] = box[x]
    BY <1>0, <1>4 DEF NoToken, LeaseTypeOK, Live
  <2> QED BY <1>0, <2>1, Offstage
<1>5. CASE CheckCircuit(c)
  <2>1. /\ key' = key /\ ~ Live(c) /\ ~ Live(c)'
        /\ \A x \in Clients : x # c => pc'[x] = pc[x] /\ box'[x] = box[x]
    BY <1>0, <1>5 DEF CheckCircuit, LeaseTypeOK, Live
  <2> QED BY <1>0, <2>1, Offstage
<1>6. CASE ReadClaim(c)
  <2>1. /\ ~ Live(c) /\ ~ Live(c)' /\ box' = box
        /\ \A x \in Clients : x # c => pc'[x] = pc[x] /\ box'[x] = box[x]
    BY <1>0, <1>6 DEF ReadClaim, LeaseTypeOK, Live
  <2>2. CASE key'[m] = key[m]
    BY <1>0, <2>1, <2>2, Offstage
  <2>3. CASE key'[m] # key[m]
    <3>1. m = box[c] /\ Stale(m) /\ key'[m].owner = NoOne
      BY <1>0, <1>6, <2>3 DEF ReadClaim, LeaseTypeOK, NoKey
    <3>2. \A x \in Clients : ~ Serves(x, m)
      BY <1>0, <3>1, Unserved DEF Stale
    <3>3. \A x \in Clients : ~ Serves(x, m)'
      BY <2>1, <3>2 DEF Serves, Live
    <3> QED BY <3>1, <3>3, ClosedStep DEF LeaseTurn
  <2> QED BY <2>2, <2>3
<1>7. CASE LateReap(c)
  <2>1. box[c] # m
    BY <1>0, <1>7 DEF LateReap, LeaseInv, ClaimsInv, NoStrays
  <2>2. /\ key'[m] = key[m] /\ ~ Live(c) /\ ~ Live(c)'
        /\ \A x \in Clients : x # c => pc'[x] = pc[x] /\ box'[x] = box[x]
    BY <1>0, <1>7, <2>1 DEF LateReap, LeaseTypeOK, Live
  <2> QED BY <1>0, <2>2, Offstage
<1>8. CASE Claim(c)
  <2>1. /\ key[box[c]] = NoKey /\ ~ Live(c) /\ ~ Live(c)'
        /\ \A x \in Clients : x # c => pc'[x] = pc[x] /\ box'[x] = box[x]
        /\ key'[m] = IF m = box[c] THEN [owner |-> Home(c), age |-> 0] ELSE key[m]
    BY <1>0, <1>8 DEF Claim, LeaseTypeOK, Live
  <2>2. CASE m = box[c]
    <3>1. \A x \in Clients : ~ Serves(x, m)
      BY <1>0, <2>1, <2>2, Unserved
    <3>2. \A x \in Clients : ~ Serves(x, m)'
      BY <2>1, <3>1 DEF Serves, Live
    <3>3. key[m].owner = NoOne /\ key'[m].owner = Home(c)
      BY <2>1, <2>2 DEF NoKey
    <3>4. Lease!Grant(m)
      BY <3>1, <3>2, <3>3 DEF Lease!Grant, Serves
    <3> QED BY <3>4 DEF LeaseTurn
  <2>3. CASE m # box[c]
    BY <1>0, <2>1, <2>3, Offstage
  <2> QED BY <2>2, <2>3
<1>9. CASE Refused(c)
  <2>1. /\ key' = key /\ ~ Live(c) /\ ~ Live(c)'
        /\ \A x \in Clients : x # c => pc'[x] = pc[x] /\ box'[x] = box[x]
    BY <1>0, <1>9 DEF Refused, LeaseTypeOK, Live
  <2> QED BY <1>0, <2>1, Offstage
<1>10. CASE Connect(c)
  <2>1. /\ key' = key /\ box' = box /\ pc[c] = "connect" /\ pc'[c] = "mark"
        /\ \A x \in Clients : x # c => pc'[x] = pc[x] /\ box'[x] = box[x]
    BY <1>0, <1>10 DEF Connect, LeaseTypeOK
  <2>2. CASE m = box[c]
    <3>1. Holds(c)
      BY <2>1 DEF Holds
    <3>2. key[m].owner = Home(c) /\ \A x \in Clients : ~ Serves(x, m)
      BY <1>0, <2>1, <2>2, <3>1, Alone DEF Serves, Live
    <3>3. \A x \in Clients : Serves(x, m)' <=> x = c
      BY <2>1, <2>2, <3>2 DEF Serves, Live
    <3>4. PICK s \in Slots : c = <<key[m].owner, s>>
      BY <3>2 DEF Clients, Home
    <3>5. {x \in Clients : Live(x) /\ box[x] = m} = {}
      BY <3>2 DEF Serves
    <3>6. {x \in Clients : Live(x) /\ box[x] = m}' = {<<key[m].owner, s>>}
      BY <3>3, <3>4 DEF Serves
    <3>7. Lease!Open(m)
      BY <2>1, <3>5, <3>6 DEF Lease!Open
    <3> QED BY <3>7 DEF LeaseTurn
  <2>3. CASE m # box[c]
    BY <1>0, <2>1, <2>3, Elsewhere
  <2> QED BY <2>2, <2>3
<1>11. CASE MarkConnected(c)
  <2>1. /\ key'[m].owner = key[m].owner
        /\ \A x \in Clients : Serves(x, m)' <=> Serves(x, m)
    BY <1>0, <1>11 DEF MarkConnected, LeaseTypeOK, Serves, Live
  <2> QED BY <2>1, RestStep DEF LeaseTurn
<1>12. CASE ConnectFails(c)
  <2>1. \E after \in {"free", "retry", "leaked"} :
            /\ Catch(c, after) /\ pc[c] # "free"
            /\ (pc[c] = "connect" /\ after = "free") \/ box[c] \in excused'
    BY <1>12 DEF ConnectFails
  <2> QED BY <1>0, <2>1, CatchTurn
<1>13. CASE InboxFails(c)
  <2>1. Catch(c, "leaked") /\ pc[c] # "free" /\ box[c] \in excused'
    BY <1>13 DEF InboxFails
  <2> QED BY <1>0, <2>1, CatchTurn
<1>14. CASE CutFails(c)
  <2>1. Catch(c, "free") /\ pc[c] # "free" /\ box[c] \in excused'
    BY <1>14 DEF CutFails, LeaseInv, ClaimsInv, NoStrays
  <2> QED BY <1>0, <2>1, CatchTurn
<1>15. CASE Heartbeat(c)
  <2>1. /\ key'[m].owner = key[m].owner
        /\ \A x \in Clients : Serves(x, m)' <=> Serves(x, m)
    BY <1>0, <1>15 DEF Heartbeat, LeaseTypeOK, Serves, Live
  <2> QED BY <2>1, RestStep DEF LeaseTurn
<1>16. CASE HeartbeatLimit(c)
  <2>1. /\ key' = key
        /\ \A x \in Clients : Serves(x, m)' <=> Serves(x, m)
    BY <1>0, <1>16 DEF HeartbeatLimit, LeaseTypeOK, Serves, Live
  <2> QED BY <2>1, RestStep DEF LeaseTurn
<1>17. CASE Recycle(c)
  <2>1. /\ key' = key
        /\ \A x \in Clients : Serves(x, m)' <=> Serves(x, m)
    BY <1>0, <1>17 DEF Recycle, LeaseTypeOK, Serves, Live
  <2> QED BY <2>1, RestStep DEF LeaseTurn
<1>18. CASE Reestablish(c)
  <2>1. /\ key' = key /\ box' = box /\ pc[c] \in {"logout", "closed"} /\ ~ Live(c)'
        /\ \A x \in Clients : x # c => pc'[x] = pc[x] /\ box'[x] = box[x]
    BY <1>0, <1>18 DEF Reestablish, LeaseTypeOK, Live
  <2>2. CASE m = box[c] /\ pc[c] = "logout"
    <3>1. Holds(c) /\ ~ Serves(c, m)'
      BY <2>1, <2>2 DEF Holds, Serves
    <3> QED BY <1>0, <2>1, <2>2, <3>1, LetsGo
  <2>3. CASE m # box[c]
    BY <1>0, <2>1, <2>3, Elsewhere
  <2>4. CASE pc[c] = "closed"
    BY <1>0, <2>1, <2>4, Offstage DEF Live
  <2> QED BY <2>1, <2>2, <2>3, <2>4
<1>19. CASE ConnectionEnds(c)
  <2> DEFINE d == connections[Home(c)][box[c]]
  <2>1. /\ key' = key /\ pc[c] \in {"idle", "leaked"} /\ ~ Live(c)'
        /\ \A x \in Clients : x # c => box'[x] = box[x]
        /\ \A x \in Clients : x # c /\ x # d => pc'[x] = pc[x]
        /\ d \in Clients /\ d # c => pc'[d] \in {pc[d], "retry"}
        /\ box[c] \in Mailboxes /\ d \in Clients \cup {NoClient}
    BY <1>0, <1>19 DEF ConnectionEnds, LeaseTypeOK, Live
  <2>2. CASE m = box[c]
    <3>1. pc[c] = "idle" /\ Holds(c)
      BY <1>0, <2>1, <2>2 DEF LeaseInv, ClaimsInv, NoStrays, Holds
    <3>2. \A x \in Clients : x # c => ~ Serves(x, m)
      BY <1>0, <2>2, <3>1, Alone
    <3>3. \A x \in Clients : ~ Serves(x, m)'
      BY <2>1, <3>2 DEF Serves, Live
    <3> QED BY <2>1, <3>3, ClosedStep DEF LeaseTurn
  <2>3. CASE m # box[c]
    <3>1. d \in Clients => box[d] = box[c]
      BY <1>0, <2>1 DEF LeaseInv, ClaimsInv, MapTruth
    <3>2. ~ Serves(c, m) /\ ~ Serves(c, m)'
      BY <2>1, <2>3 DEF Serves
    <3>3. \A x \in Clients : Serves(x, m)' <=> Serves(x, m)
      BY <2>1, <2>3, <3>1, <3>2 DEF Serves, Live
    <3> QED BY <2>1, <3>3, RestStep DEF LeaseTurn
  <2> QED BY <2>2, <2>3
<1>20. CASE Reconnect(c)
  <2>1. /\ pc[c] = "retry" /\ ~ Live(c) /\ ~ Live(c)' /\ box' = box
        /\ \A x \in Clients : x # c => pc'[x] = pc[x] /\ box'[x] = box[x]
        /\ m # box[c] => key'[m] = key[m]
        /\ m = box[c] => key'[m].owner = NoOne
    BY <1>0, <1>20 DEF Reconnect, LeaseTypeOK, Live, NoKey
  <2>2. CASE m = box[c]
    <3>1. Holds(c) /\ ~ Serves(c, m)'
      BY <2>1 DEF Holds, Serves
    <3> QED BY <1>0, <2>1, <2>2, <3>1, LetsGo
  <2>3. CASE m # box[c]
    BY <1>0, <2>1, <2>3, Offstage
  <2> QED BY <2>2, <2>3
<1>21. CASE FinishDisconnect(c)
  <2>1. /\ pc[c] = "leaving" /\ ~ Live(c) /\ ~ Live(c)'
        /\ \A x \in Clients : x # c => pc'[x] = pc[x] /\ box'[x] = box[x]
        /\ m # box[c] => key'[m] = key[m]
        /\ m = box[c] => key'[m].owner = NoOne
    BY <1>0, <1>21 DEF FinishDisconnect, LeaseTypeOK, Live, NoKey
  <2>2. CASE m = box[c]
    <3>1. Holds(c) /\ ~ Serves(c, m)'
      BY <2>1 DEF Holds, Serves
    <3> QED BY <1>0, <2>1, <2>2, <3>1, LetsGo
  <2>3. CASE m # box[c]
    BY <1>0, <2>1, <2>3, Offstage
  <2> QED BY <2>2, <2>3
<1> QED BY <1>1, <1>2, <1>3, <1>4, <1>5, <1>6, <1>7, <1>8, <1>9, <1>10, <1>11, <1>12, <1>13,
           <1>14, <1>15, <1>16, <1>17, <1>18, <1>19, <1>20, <1>21 DEF ClientStep

\* A replica ends: its clients are gone, and it gives up no claim but of a
\* mailbox that it has in its map.
LEMMA GoneTurn ==
    ASSUME LeaseInv, NEW w \in Workers, Gone(w), NEW m \in Mailboxes, m \notin excused,
           \/ key'[m].owner = key[m].owner
           \/ connections[w][m] # NoClient /\ key'[m].owner = NoOne
    PROVE  LeaseTurn(m)
<1> USE DEF Gone
<1>1. \A x \in Clients : /\ Home(x) = w => ~ Serves(x, m)'
                         /\ Home(x) # w => (Serves(x, m)' <=> Serves(x, m))
  BY DEF Serves, Live
<1>2. ASSUME NEW c \in Clients, Holds(c), box[c] = m, Home(c) = w PROVE LeaseTurn(m)
  <2>1. \A x \in Clients : ~ Serves(x, m)'
    BY <1>1, <1>2, Alone
  <2> QED BY <2>1, ClosedStep DEF LeaseTurn
<1>3. ASSUME \A c \in Clients : ~ (Holds(c) /\ box[c] = m /\ Home(c) = w) PROVE LeaseTurn(m)
  <2>1. \A x \in Clients : Serves(x, m) => Holds(x) /\ box[x] = m
    BY DEF LeaseInv, ClaimsInv, NoStrays, Serves, Live, Holds
  <2>2. \A x \in Clients : Serves(x, m)' <=> Serves(x, m)
    BY <1>1, <1>3, <2>1
  <2>3. connections[w][m] = NoClient
    <3>1. connections[w][m] \in Clients \cup {NoClient}
      BY DEF LeaseInv, LeaseTypeOK
    <3> QED BY <1>3, <3>1 DEF LeaseInv, ClaimsInv, MapTruth, Holds
  <2> QED BY <2>2, <2>3, RestStep DEF LeaseTurn
<1> QED BY <1>2, <1>3

\* The steps of boot, watchdogs and shutdown.
LEMMA WorkerTurn ==
    ASSUME LeaseInv, NEW w \in Workers, WorkerStep(w), NEW m \in Mailboxes, m \notin excused
    PROVE  LeaseTurn(m)
<1> USE DEF redis, queue, procs, bound
<1>1. ASSUME UNCHANGED <<key, pc, box>> PROVE LeaseTurn(m)
  <2>1. \A x \in Clients : Serves(x, m)' <=> Serves(x, m)
    BY <1>1 DEF Serves, Live
  <2> QED BY <1>1, <2>1, RestStep DEF LeaseTurn
<1>2. ASSUME NEW n \in Mailboxes, Reclaim(w, n) \/ DrainOrphan(w, n) PROVE LeaseTurn(m)
  BY <1>1, <1>2 DEF Reclaim, DrainOrphan
<1>3. CASE SweepOwnSet(w) \/ Boot(w)
  BY <1>1, <1>3 DEF SweepOwnSet, Boot
<1>4. ASSUME NEW o \in Workers, SweepOther(w, o) PROVE LeaseTurn(m)
  <2>1. /\ UNCHANGED <<pc, box>>
        /\ \/ key'[m] = key[m]
           \/ key[m].age \in {1, 2} /\ key'[m] = NoKey
    BY <1>4 DEF SweepOther
  <2>2. CASE key'[m] = key[m]
    <3>1. \A x \in Clients : Serves(x, m)' <=> Serves(x, m)
      BY <2>1 DEF Serves, Live
    <3> QED BY <2>2, <3>1, RestStep DEF LeaseTurn
  <2>3. CASE key[m].age \in {1, 2} /\ key'[m] = NoKey
    <3>1. key[m].age # 0 /\ key'[m].owner = NoOne
      BY <2>3 DEF NoKey
    <3>2. \A x \in Clients : ~ Serves(x, m)
      BY <3>1, Unserved
    <3>3. \A x \in Clients : ~ Serves(x, m)'
      BY <2>1, <3>2 DEF Serves, Live
    <3> QED BY <3>1, <3>3, ClosedStep DEF LeaseTurn
  <2> QED BY <2>1, <2>2, <2>3
<1>5. CASE Crash(w)
  BY <1>5, GoneTurn DEF Crash
<1>6. CASE Shutdown(w)
  <2>1. Gone(w)
    BY <1>6 DEF Shutdown
  <2>2. key'[m] = IF connections[w][m] # NoClient THEN NoKey ELSE key[m]
    BY <1>6 DEF Shutdown
  <2>3. NoKey.owner = NoOne
    BY DEF NoKey
  <2> QED BY <2>1, <2>2, <2>3, GoneTurn
<1> QED BY <1>2, <1>3, <1>4, <1>5, <1>6 DEF WorkerStep

\* Time, users, and Redis expiring keys.
LEMMA OutsideTurn ==
    ASSUME LeaseInv, Outside, NEW m \in Mailboxes, m \notin excused
    PROVE  LeaseTurn(m)
<1> USE DEF redis, queue, procs, bound
<1>1. UNCHANGED <<pc, box>>
  BY DEF Outside, GrowOld, Expire, UserDisconnects, UserConnects, CircuitExpires
<1>2. \A x \in Clients : Serves(x, m)' <=> Serves(x, m)
  BY <1>1 DEF Serves, Live
<1>3. CASE key'[m].owner = key[m].owner
  BY <1>2, <1>3, RestStep DEF LeaseTurn
<1>4. CASE Expire(m)
  <2>1. key[m].age # 0 /\ key'[m].owner = NoOne
    BY <1>4 DEF Expire, LeaseInv, LeaseTypeOK, NoKey
  <2>2. \A x \in Clients : ~ Serves(x, m)
    BY <2>1, Unserved
  <2>3. \A x \in Clients : ~ Serves(x, m)'
    BY <1>2, <2>2
  <2> QED BY <2>1, <2>3, ClosedStep DEF LeaseTurn
<1>5. ASSUME NEW n \in Mailboxes, Expire(n), n # m PROVE key'[m].owner = key[m].owner
  BY <1>5 DEF Expire, LeaseInv, LeaseTypeOK
<1>6. ASSUME NEW n \in Mailboxes, GrowOld(n) PROVE key'[m].owner = key[m].owner
  BY <1>6 DEF GrowOld, LeaseInv, LeaseTypeOK, Keys, NoKey
<1>7. ASSUME NEW n \in Mailboxes, UserDisconnects(n) \/ UserConnects(n) PROVE key' = key
  BY <1>7 DEF UserDisconnects, UserConnects
<1>8. CircuitExpires => key' = key
  BY DEF CircuitExpires
<1> QED BY <1>3, <1>4, <1>5, <1>6, <1>7, <1>8 DEF Outside

LEMMA LeaseStep == LeaseInv /\ [Next]_vars => [Lease!Next]_(Lease!vars)
<1> SUFFICES ASSUME LeaseInv, Next PROVE Lease!Next
  <2>1. UNCHANGED vars => UNCHANGED Lease!vars
    <3> SUFFICES ASSUME UNCHANGED vars PROVE UNCHANGED Lease!vars
      OBVIOUS
    <3>1. UNCHANGED <<key, pc, box, excused>>
      BY DEF vars
    <3>2. [m \in Mailboxes |-> key[m].owner]' = [m \in Mailboxes |-> key[m].owner]
      BY <3>1
    <3>3. [m \in Mailboxes |-> {c \in Clients : Live(c) /\ box[c] = m}]'
            = [m \in Mailboxes |-> {c \in Clients : Live(c) /\ box[c] = m}]
      BY <3>1 DEF Live
    <3> QED BY <3>1, <3>2, <3>3 DEF Lease!vars
  <2> QED BY <2>1
<1>1. excused \subseteq excused'
  BY ExcusedGrows
<1>2. ASSUME NEW m \in Mailboxes, m \notin excused' PROVE LeaseTurn(m)
  BY <1>1, <1>2, ClientTurn, WorkerTurn, OutsideTurn DEF Next
<1> QED BY <1>1, <1>2 DEF Lease!Next, LeaseTurn

\* For any number of replicas and mailboxes, whatever crashes, restarts, recycles,
\* retries, reaping and sweeping do, the claims work as a lease of each mailbox
\* no disturbance has hit: imap:active changes hands, and the mailbox is opened,
\* only as MailboxLease allows.
THEOREM LeaseRefinement == Spec => ImplementsLease
<1>1. Init => Lease!Init
  <2> SUFFICES ASSUME Init PROVE Lease!Init
    OBVIOUS
  <2>1. \A m \in Mailboxes : key[m].owner = NoOne
    BY DEF Init, NoKey
  <2>2. \A m \in Mailboxes : {c \in Clients : Live(c) /\ box[c] = m} = {}
    BY DEF Init, Live
  <2> QED BY <2>1, <2>2 DEF Lease!Init, Init
<1>2. LeaseInv /\ [Next]_vars => [Lease!Next]_(Lease!vars)
  BY LeaseStep
<1> QED BY <1>1, <1>2, LeaseInvHolds, PTL DEF Spec, ImplementsLease, Lease!Spec
=============================================================================
