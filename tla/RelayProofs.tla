---------------------------- MODULE RelayProofs ----------------------------
(***************************************************************************)
(* Proofs about the log relay for any clients and capacities: the ring     *)
(* buffer is the last messages in order, however often it has wrapped      *)
(* around, the hub keeps no client whose channel is closed, and a client   *)
(* has the history and every later message once and in order, except what  *)
(* found its channel full; and nobody keeps Stop waiting but a peer, or is *)
(* left at work once it has waited.                                        *)
(***************************************************************************)
EXTENDS Relay, SequenceTheorems, FiniteSetTheorems, WellFoundedInduction, TLAPS

\* The messages the hub has heard, counted.
HeardCount == Len(svc) - Len(queue)

\* What is queued are the numbers after those.
Queued ==
  /\ queue \in Seq(Nat) /\ svc \in Seq(Services)
  /\ HeardCount \in Nat
  /\ \A i \in 1..Len(queue) : queue[i] = HeardCount + i

\* The slot of the k-th oldest message in the ring
Slot(k) == LET x == head - count + k - 1 IN IF x < 0 THEN x + History ELSE x

RingTypes ==
  /\ items \in [0..History - 1 -> Nat]
  /\ head \in 0..History - 1 /\ count \in 0..History

\* The ring is full or has all that was heard, each where it belongs.
Ring ==
  /\ RingTypes
  /\ count = IF HeardCount < History THEN HeardCount ELSE History
  /\ \A k \in 1..count : items[Slot(k)] = HeardCount - count + k

HistoryInv == Queued /\ Ring

\* The hub knows a client from its registration to its end, and closes its channel
\* when it forgets it.
ClientsInv ==
  /\ conn \in [Clients -> {"off", "dialled", "reading", "register", "serving", "unregister", "gone"}]
  /\ clients \subseteq Clients
  /\ \A c \in clients : conn[c] \in {"serving", "unregister"} /\ ~chClosed[c]
  /\ \A c \in Clients : chClosed[c] => conn[c] \in {"serving", "unregister", "gone"}
  /\ hub \in {"off", "loop", "done"} /\ (server \in {"waiting", "listening"} => hub = "off")
  /\ hub # "loop" => clients = {}

USE DEF serverVars, ringVars, hubVars, chanVars, connVars, pumpVars

-----------------------------------------------------------------------------
(* The history *)

\* The slots of what is in the ring, and the one that is written next.
LEMMA SlotRange ==
  ASSUME RingTypes, NEW k \in 1..count
  PROVE  Slot(k) \in 0..History - 1 /\ (count < History => Slot(k) # head) /\ (k > 1 => Slot(k) # head)
  BY RelayAssumption DEF RingTypes, Slot

\* The index arithmetic of the code, without its remainders.
LEMMA SlotIsIndex ==
  ASSUME RingTypes, NEW k \in 1..count
  PROVE  (((head - count + History) % History) + k - 1) % History = Slot(k)
<1> DEFINE a == head - count + History
           start == a % History
<1>1. History \in Nat \ {0} /\ a \in 0..2 * History - 1
  BY RelayAssumption DEF RingTypes
<1>2. \A x \in 0..2 * History - 1 : x % History = IF x < History THEN x ELSE x - History
  BY <1>1
<1>3. start = IF a < History THEN a ELSE a - History
  BY <1>1, <1>2
<1> HIDE DEF start
<1> DEFINE y == start + k - 1
<1>4. y \in 0..2 * History - 1
  BY <1>1, <1>3 DEF RingTypes
<1>s. Slot(k) = IF y < History THEN y ELSE y - History
  BY <1>1, <1>3 DEF RingTypes, Slot
<1> HIDE DEF y
<1>5. y % History = IF y < History THEN y ELSE y - History
  BY <1>2, <1>4
<1> QED  BY <1>5, <1>s DEF y, start

\* The next slot, without the remainder.
LEMMA NextHead ==
  ASSUME RingTypes
  PROVE  (head + 1) % History = IF head + 1 < History THEN head + 1 ELSE 0
<1>1. History \in Nat \ {0} /\ head + 1 \in 1..History
  BY RelayAssumption DEF RingTypes
<1>2. CASE head + 1 < History
  BY <1>1, <1>2
<1>3. CASE head + 1 = History
  <2>1. History % History = 0
    BY <1>1
  <2>2. (head + 1) % History = 0
    BY <1>3, <2>1
  <2> QED  BY <1>1, <1>3, <2>2
<1> QED  BY <1>1, <1>2, <1>3

\* A message that is heard takes the place of the oldest one, if the ring is full.
LEMMA RingPushed ==
  ASSUME Ring, NEW n \in Nat, n = HeardCount + 1, HeardCount \in Nat, Push(n),
         HeardCount' = HeardCount + 1
  PROVE  Ring'
<1> USE RelayAssumption
<1>1. RingTypes
  BY DEF Ring
<1>2. head' = IF head + 1 < History THEN head + 1 ELSE 0
  BY <1>1, NextHead DEF Push
<1>3. items' = [items EXCEPT ![head] = n] /\ count' = IF count < History THEN count + 1 ELSE count
  BY DEF Push
<1>4. RingTypes'
  BY <1>1, <1>2, <1>3 DEF RingTypes
<1>5. count' = IF HeardCount' < History THEN HeardCount' ELSE History
  <2>1. count = IF HeardCount < History THEN HeardCount ELSE History
    BY DEF Ring
  <2> QED  BY <1>1, <1>3, <2>1 DEF RingTypes
<1>6. items'[head] = n /\ \A i \in 0..History - 1 : i # head => items'[i] = items[i]
  BY <1>1, <1>3 DEF RingTypes
<1>7. ASSUME NEW k \in 1..count' PROVE items'[Slot(k)'] = HeardCount' - count' + k
  <2>1. CASE count < History
    <3>1. Slot(k)' = Slot(k)
      BY <1>1, <1>2, <1>3, <2>1 DEF Slot, RingTypes
    <3>2. CASE k = count'
      <4>1. Slot(k) = head
        BY <1>1, <1>3, <2>1, <3>2 DEF Slot, RingTypes
      <4> QED  BY <1>1, <1>3, <1>6, <2>1, <3>1, <3>2, <4>1 DEF RingTypes
    <3>3. CASE k # count'
      <4>1. k \in 1..count
        BY <1>1, <1>3, <2>1, <3>3 DEF RingTypes
      <4>2. Slot(k) \in 0..History - 1 /\ Slot(k) # head
        BY <1>1, <2>1, <4>1, SlotRange
      <4>3. items[Slot(k)] = HeardCount - count + k
        BY <4>1 DEF Ring
      <4> QED  BY <1>1, <1>3, <1>6, <2>1, <3>1, <4>2, <4>3 DEF RingTypes
    <3> QED  BY <3>2, <3>3
  <2>2. CASE count >= History
    <3>1. count = History /\ count' = History
      BY <1>1, <1>3, <2>2 DEF RingTypes
    <3>2. CASE k = History
      <4>1. Slot(k)' = head
        BY <1>1, <1>2, <3>1, <3>2 DEF Slot, RingTypes
      <4> QED  BY <1>1, <1>6, <3>1, <3>2, <4>1 DEF RingTypes
    <3>3. CASE k # History
      <4>1. k + 1 \in 1..count /\ k + 1 > 1
        BY <1>1, <3>1, <3>3 DEF RingTypes
      <4>2. Slot(k)' = Slot(k + 1)
        BY <1>1, <1>2, <3>1, <3>3 DEF Slot, RingTypes
      <4>3. Slot(k + 1) \in 0..History - 1 /\ Slot(k + 1) # head
        BY <1>1, <4>1, SlotRange
      <4>4. items[Slot(k + 1)] = HeardCount - count + (k + 1)
        BY <4>1 DEF Ring
      <4> QED  BY <1>1, <1>6, <3>1, <4>2, <4>3, <4>4 DEF RingTypes
    <3> QED  BY <3>2, <3>3
  <2> QED  BY <1>1, <2>1, <2>2 DEF RingTypes
<1> QED  BY <1>4, <1>5, <1>7 DEF Ring

\* Nothing is heard.
LEMMA HistoryStill ==
  ASSUME HistoryInv, UNCHANGED <<queue, svc, ringVars>>
  PROVE  HistoryInv'
  BY DEF HistoryInv, Queued, Ring, RingTypes, Slot, HeardCount

\* The hub hears the first message of the queue.
LEMMA HistoryHeard == ASSUME HistoryInv, HubBroadcast PROVE HistoryInv'
<1> DEFINE n == Head(queue)
<1>1. queue # <<>> /\ queue' = Tail(queue) /\ svc' = svc /\ Push(n)
  BY DEF HubBroadcast
<1>2. queue \in Seq(Nat) /\ Len(queue) \in Nat /\ Len(queue) # 0 /\ Len(svc) \in Nat /\ HeardCount \in Nat
  BY <1>1, EmptySeq, LenProperties DEF HistoryInv, Queued
<1>3. /\ Head(queue) = queue[1] /\ Tail(queue) \in Seq(Nat) /\ Len(Tail(queue)) = Len(queue) - 1
      /\ \A i \in 1..Len(Tail(queue)) : Tail(queue)[i] = queue[i + 1]
  BY <1>1, <1>2, HeadTailProperties, LenProperties
<1>4. HeardCount' = HeardCount + 1
  BY <1>1, <1>2, <1>3 DEF HeardCount
<1>5. n = HeardCount + 1 /\ n \in Nat
  BY <1>2, <1>3 DEF HistoryInv, Queued
<1>6. Ring'
  BY <1>1, <1>2, <1>4, <1>5, RingPushed DEF HistoryInv
<1>7. Queued'
  <2>1. ASSUME NEW i \in 1..Len(queue') PROVE queue'[i] = HeardCount' + i
    <3>1. i + 1 \in 1..Len(queue) /\ queue'[i] = queue[i + 1]
      BY <1>1, <1>2, <1>3, <2>1
    <3>2. queue[i + 1] = HeardCount + (i + 1)
      BY <3>1 DEF HistoryInv, Queued
    <3> QED  BY <1>2, <1>4, <3>1, <3>2
  <2> QED  BY <1>1, <1>2, <1>3, <1>4, <2>1 DEF HistoryInv, Queued
<1> QED  BY <1>6, <1>7 DEF HistoryInv

\* A message is queued.
LEMMA HistoryQueued == ASSUME HistoryInv, Broadcast PROVE HistoryInv'
<1>1. PICK s \in Services : svc' = Append(svc, s)
  BY DEF Broadcast
<1>2. queue' = Append(queue, Len(svc) + 1) /\ UNCHANGED ringVars
  BY DEF Broadcast
<1>3. queue \in Seq(Nat) /\ svc \in Seq(Services) /\ Len(queue) \in Nat /\ Len(svc) \in Nat /\ HeardCount \in Nat
  BY LenProperties DEF HistoryInv, Queued
<1>4. /\ svc' \in Seq(Services) /\ Len(svc') = Len(svc) + 1
      /\ queue' \in Seq(Nat) /\ Len(queue') = Len(queue) + 1
  BY <1>1, <1>2, <1>3, AppendProperties
<1>5. HeardCount' = HeardCount
  BY <1>3, <1>4 DEF HeardCount
<1>6. \A i \in 1..Len(queue') : queue'[i] = IF i = Len(queue) + 1 THEN Len(svc) + 1 ELSE queue[i]
  BY <1>2, <1>3, <1>4, AppendProperties
<1>7. Len(svc) + 1 = HeardCount + (Len(queue) + 1)
  BY <1>3 DEF HeardCount
<1>8. Queued'
  <2>1. ASSUME NEW i \in 1..Len(queue') PROVE queue'[i] = HeardCount' + i
    <3>1. CASE i = Len(queue) + 1
      BY <1>3, <1>5, <1>6, <1>7, <3>1
    <3>2. CASE i # Len(queue) + 1
      <4>1. i \in 1..Len(queue)
        BY <1>3, <1>4, <3>2
      <4> QED  BY <1>5, <1>6, <3>2, <4>1 DEF HistoryInv, Queued
    <3> QED  BY <3>1, <3>2
  <2> QED  BY <1>3, <1>4, <1>5, <2>1 DEF Queued
<1>9. Ring'
  BY <1>2, <1>5 DEF HistoryInv, Ring, RingTypes, Slot
<1> QED  BY <1>8, <1>9 DEF HistoryInv

\* No other step touches the queue or the ring.
LEMMA HistoryPreserved == HistoryInv /\ [Next]_vars => HistoryInv'
<1> SUFFICES ASSUME HistoryInv, [Next]_vars PROVE HistoryInv'
  OBVIOUS
<1>1. CASE HubBroadcast
  BY <1>1, HistoryHeard
<1>2. CASE Broadcast
  BY <1>2, HistoryQueued
<1>3. CASE HubDone \/ Activate \/ GiveUp \/ Spawn \/ RootCancel \/ StopBegin \/ StopStep
  BY <1>3, HistoryStill DEF HubDone, Activate, GiveUp, Spawn, RootCancel, StopBegin, StopStep, StopClose, StopReturn
<1>4. ASSUME NEW c \in Clients, HubRegister(c) \/ HubUnregister(c) PROVE HistoryInv'
  BY <1>4, HistoryStill DEF HubRegister, HubUnregister
<1>5. CASE AcceptorStep
  BY <1>5, HistoryStill DEF AcceptorStep, AcceptorCheck, AcceptFails, Accept
<1>6. ASSUME NEW c \in Clients, ReadRequest(c) \/ ReadFails(c) \/ HandlerStep(c) PROVE HistoryInv'
  BY <1>6, HistoryStill DEF ReadRequest, ReadFails, HandlerStep, RegisterSkipped, PumpEnded, UnregisterSkipped
<1>7. ASSUME NEW c \in Clients, PumpStep(c) \/ Dial(c) PROVE HistoryInv'
  BY <1>7, HistoryStill DEF PumpStep, PumpTake, PumpWrite, PumpFails, PumpEnds, Dial
<1>8. CASE UNCHANGED vars
  BY <1>8, HistoryStill DEF vars
<1> QED  BY <1>1, <1>2, <1>3, <1>4, <1>5, <1>6, <1>7, <1>8 DEF Next, HubStep

\* At first nothing was sent.
LEMMA InitHistory == Init => HistoryInv
<1> SUFFICES ASSUME Init PROVE HistoryInv
  OBVIOUS
<1>1. <<>> \in Seq(Nat) /\ <<>> \in Seq(Services) /\ Len(<<>>) = 0
  OBVIOUS
<1>2. Queued /\ HeardCount = 0
  BY <1>1 DEF Init, Queued, HeardCount
<1>3. RingTypes
  BY RelayAssumption DEF Init, RingTypes
<1>4. Ring
  BY <1>2, <1>3, RelayAssumption DEF Init, Ring
<1> QED  BY <1>2, <1>4 DEF HistoryInv

\* The counted messages are those of the model's definition.
LEMMA HeardIsCount == ASSUME HistoryInv PROVE Heard = HeardCount
<1>1. queue \in Seq(Nat) /\ Len(queue) \in Nat /\ Len(svc) \in Nat /\ HeardCount \in Nat
  BY LenProperties DEF HistoryInv, Queued
<1>2. CASE queue = <<>>
  BY <1>1, <1>2 DEF Heard, HeardCount
<1>3. CASE queue # <<>>
  <2>1. Head(queue) = queue[1] /\ 1 \in 1..Len(queue)
    BY <1>1, <1>3, HeadTailProperties, EmptySeq, LenProperties
  <2>2. queue[1] = HeardCount + 1
    BY <2>1 DEF HistoryInv, Queued
  <2> QED  BY <1>1, <1>3, <2>1, <2>2 DEF Heard
<1> QED  BY <1>2, <1>3

\* What forEach goes through are the last of them.
LEMMA ReplayedIsLast ==
  ASSUME HistoryInv PROVE Replayed = [i \in 1..count |-> HeardCount - count + i]
<1>1. ASSUME NEW k \in 1..count
      PROVE  items[(((head - count + History) % History) + k - 1) % History] = HeardCount - count + k
  BY <1>1, SlotIsIndex DEF HistoryInv, Ring
<1> QED  BY <1>1 DEF Replayed

\* The ring has all the messages, or as many as it can.
LEMMA HistoryInvShows == HistoryInv => HistoryIsLast
<1> SUFFICES ASSUME HistoryInv PROVE HistoryIsLast
  OBVIOUS
<1>1. HeardCount \in Nat /\ Heard = HeardCount
  BY HeardIsCount DEF HistoryInv, Queued
<1>2. count = Min({Heard, History})
  <2>1. \A x, y \in Nat : Min({x, y}) = IF x < y THEN x ELSE y
    BY DEF Min
  <2> QED  BY <1>1, <2>1, RelayAssumption DEF HistoryInv, Ring
<1> QED  BY <1>1, <1>2, ReplayedIsLast DEF HistoryIsLast

\* The history that a new client is sent is the last messages, in order, for any
\* capacity and however often the ring has wrapped around (hub.go:59-86).
THEOREM RelayHistory == Spec => []HistoryIsLast
<1>1. Init => HistoryInv
  BY InitHistory
<1>2. HistoryInv /\ [Next]_vars => HistoryInv'
  BY HistoryPreserved
<1>3. HistoryInv => HistoryIsLast
  BY HistoryInvShows
<1> QED  BY <1>1, <1>2, <1>3, PTL DEF Spec

-----------------------------------------------------------------------------
(* The clients' channels *)

\* Nothing of it changes.
LEMMA ClientsStill ==
  ASSUME ClientsInv, UNCHANGED <<conn, clients, chClosed, hub, server>>
  PROVE  ClientsInv'
  BY DEF ClientsInv

\* A handler goes on.
LEMMA HandlerGoesOn ==
  ASSUME ClientsInv, NEW c \in Clients, NEW x, conn' = [conn EXCEPT ![c] = x],
         UNCHANGED <<clients, chClosed, hub, server>>,
         \/ conn[c] \in {"off", "dialled", "reading"} /\ x \in {"dialled", "reading", "register", "gone"}
         \/ conn[c] \in {"register", "serving"} /\ x \in {"serving", "unregister"}
         \/ conn[c] = "unregister" /\ x = "gone" /\ c \notin clients
  PROVE  ClientsInv'
<1>1. conn'[c] = x /\ \A d \in Clients : d # c => conn'[d] = conn[d]
  BY DEF ClientsInv
<1>2. conn' \in [Clients -> {"off", "dialled", "reading", "register", "serving", "unregister", "gone"}]
  BY DEF ClientsInv
<1>3. \A d \in clients : conn'[d] \in {"serving", "unregister"}
  BY <1>1 DEF ClientsInv
<1>4. \A d \in Clients : chClosed[d] => conn'[d] \in {"serving", "unregister", "gone"}
  BY <1>1 DEF ClientsInv
<1> QED  BY <1>2, <1>3, <1>4 DEF ClientsInv

\* The hub takes a client, or closes what it forgets.
LEMMA HubKeepsClients ==
  ASSUME ClientsInv, HubDone \/ \E c \in Clients : HubRegister(c) \/ HubUnregister(c)
  PROVE  ClientsInv'
<1>1. ASSUME NEW c \in Clients, HubRegister(c) PROVE ClientsInv'
  <2>1. /\ conn[c] = "register" /\ hub = "loop" /\ clients' = clients \cup {c}
        /\ conn' = [conn EXCEPT ![c] = "serving"] /\ UNCHANGED <<hub, server, chClosed>>
    BY <1>1 DEF HubRegister
  <2>2. ~chClosed[c]
    BY <2>1 DEF ClientsInv
  <2>3. conn'[c] = "serving" /\ \A d \in Clients : d # c => conn'[d] = conn[d]
    BY <2>1 DEF ClientsInv
  <2>4. conn' \in [Clients -> {"off", "dialled", "reading", "register", "serving", "unregister", "gone"}]
    BY <2>1 DEF ClientsInv
  <2>5. \A d \in clients' : conn'[d] \in {"serving", "unregister"} /\ ~chClosed'[d]
    BY <2>1, <2>2, <2>3 DEF ClientsInv
  <2>6. \A d \in Clients : chClosed'[d] => conn'[d] \in {"serving", "unregister", "gone"}
    BY <2>1, <2>3 DEF ClientsInv
  <2> QED  BY <2>1, <2>4, <2>5, <2>6 DEF ClientsInv
<1>2. ASSUME NEW c \in Clients, HubUnregister(c) PROVE ClientsInv'
  <2>1. /\ conn[c] = "unregister" /\ hub = "loop" /\ clients' = clients \ {c}
        /\ conn' = [conn EXCEPT ![c] = "gone"] /\ UNCHANGED <<hub, server>>
    BY <1>2 DEF HubUnregister, Discard
  <2>2. \A d \in Clients : chClosed'[d] => chClosed[d] \/ d = c
    BY <1>2 DEF HubUnregister, Discard
  <2>3. conn'[c] = "gone" /\ \A d \in Clients : d # c => conn'[d] = conn[d]
    BY <2>1 DEF ClientsInv
  <2>4. conn' \in [Clients -> {"off", "dialled", "reading", "register", "serving", "unregister", "gone"}]
    BY <2>1 DEF ClientsInv
  <2>5. \A d \in clients' : conn'[d] \in {"serving", "unregister"} /\ ~chClosed'[d]
    BY <2>1, <2>2, <2>3 DEF ClientsInv
  <2>6. \A d \in Clients : chClosed'[d] => conn'[d] \in {"serving", "unregister", "gone"}
    BY <2>1, <2>2, <2>3 DEF ClientsInv
  <2> QED  BY <2>1, <2>4, <2>5, <2>6 DEF ClientsInv
<1>3. CASE HubDone
  <2>1. /\ hub = "loop" /\ hub' = "done" /\ clients' = {} /\ UNCHANGED <<conn, server>>
    BY <1>3 DEF HubDone, Discard
  <2>2. \A d \in Clients : chClosed'[d] => chClosed[d] \/ d \in clients
    BY <1>3 DEF HubDone, Discard
  <2>3. \A d \in Clients : chClosed'[d] => conn'[d] \in {"serving", "unregister", "gone"}
    BY <2>1, <2>2 DEF ClientsInv
  <2> QED  BY <2>1, <2>3 DEF ClientsInv
<1> QED  BY <1>1, <1>2, <1>3

\* Every step keeps the clients.
LEMMA ClientsPreserved == ClientsInv /\ [Next]_vars => ClientsInv'
<1> SUFFICES ASSUME ClientsInv, [Next]_vars PROVE ClientsInv'
  OBVIOUS
<1>1. CASE HubBroadcast \/ Broadcast
  BY <1>1, ClientsStill DEF HubBroadcast, Broadcast
<1>2. CASE HubDone \/ \E c \in Clients : HubRegister(c) \/ HubUnregister(c)
  BY <1>2, HubKeepsClients
<1>3. CASE Activate \/ GiveUp \/ Spawn
  <2>1. UNCHANGED <<conn, clients, chClosed>>
    BY <1>3 DEF Activate, GiveUp, Spawn
  <2>2. \/ server = "waiting" /\ server' \in {"listening", "ended"} /\ hub' = hub
        \/ server = "listening" /\ server' = "serving" /\ hub' = "loop"
    BY <1>3 DEF Activate, GiveUp, Spawn
  <2> QED  BY <2>1, <2>2 DEF ClientsInv
<1>4. CASE RootCancel \/ StopBegin \/ StopReturn \/ AcceptorCheck \/ AcceptFails
  BY <1>4, ClientsStill DEF RootCancel, StopBegin, StopReturn, AcceptorCheck, AcceptFails
<1>5. CASE StopClose
  <2>1. UNCHANGED <<clients, chClosed, hub, server>>
    BY <1>5 DEF StopClose
  <2>2. conn' = [c \in Clients |-> IF conn[c] = "dialled" THEN "gone" ELSE conn[c]]
    BY <1>5 DEF StopClose
  <2>3. conn' \in [Clients -> {"off", "dialled", "reading", "register", "serving", "unregister", "gone"}]
    BY <2>2 DEF ClientsInv
  <2>4. \A c \in Clients : conn[c] \in {"serving", "unregister", "gone"} => conn'[c] = conn[c]
    BY <2>2
  <2> QED  BY <2>1, <2>3, <2>4 DEF ClientsInv
<1>6. ASSUME NEW c \in Clients, Accept(c) PROVE ClientsInv'
  BY <1>6, HandlerGoesOn DEF Accept
<1>7. ASSUME NEW c \in Clients, ReadRequest(c) \/ ReadFails(c) \/ Dial(c) PROVE ClientsInv'
  BY <1>7, HandlerGoesOn DEF ReadRequest, ReadFails, Dial
<1>8. ASSUME NEW c \in Clients, RegisterSkipped(c) \/ PumpEnded(c) PROVE ClientsInv'
  BY <1>8, HandlerGoesOn DEF RegisterSkipped, PumpEnded
<1>9. ASSUME NEW c \in Clients, UnregisterSkipped(c) PROVE ClientsInv'
  <2>1. hub = "done" /\ c \notin clients
    BY <1>9 DEF UnregisterSkipped, ClientsInv
  <2> QED  BY <1>9, <2>1, HandlerGoesOn DEF UnregisterSkipped
<1>10. ASSUME NEW c \in Clients, PumpStep(c) PROVE ClientsInv'
  BY <1>10, ClientsStill DEF PumpStep, PumpTake, PumpWrite, PumpFails, PumpEnds
<1>11. CASE UNCHANGED vars
  BY <1>11, ClientsStill DEF vars
<1> QED  BY <1>1, <1>2, <1>3, <1>4, <1>5, <1>6, <1>7, <1>8, <1>9, <1>10, <1>11
         DEF Next, HubStep, StopStep, AcceptorStep, HandlerStep

\* The hub sends on no closed channel and closes none twice, whichever of
\* Unregister and the end of the context comes first (hub.go:150-156, 183-187).
THEOREM RelayOpen == Spec => []OpenWhileRegistered
<1>1. Init => ClientsInv
  BY DEF Init, ClientsInv
<1>2. ClientsInv /\ [Next]_vars => ClientsInv'
  BY ClientsPreserved
<1>3. ClientsInv => OpenWhileRegistered
  BY DEF ClientsInv, OpenWhileRegistered
<1> QED  BY <1>1, <1>2, <1>3, PTL DEF Spec

-----------------------------------------------------------------------------
(* What a client is replayed *)

\* Every non-empty set of numbers has a least one.
LEMMA LeastNumber ==
  ASSUME NEW T, T \subseteq Nat, T # {} PROVE \E n \in T : \A m \in T : n <= m
<1> DEFINE R == {p \in Nat \X Nat : p[1] < p[2]}
<1>1. IsWellFoundedOn(R, Nat)
  BY NatLessThanWellFounded DEF OpToRel
<1>2. \A x, y \in Nat : x < y => <<x, y>> \in R
  OBVIOUS
<1> HIDE DEF R
<1>3. PICK n \in T : \A m \in T : ~ (<<m, n>> \in R)
  BY <1>1, WFMin
<1>4. \A m \in T : ~ (m < n)
  BY <1>2, <1>3
<1> QED  BY <1>4

\* What Wanted has picked of the first i numbers of s, given what it picked before.
Picked(c, s, f, i) ==
  IF i = 0 THEN <<>>
  ELSE IF ShouldReceive(c, s[i]) THEN Append(f[i - 1], s[i])
  ELSE f[i - 1]

\* f is what Wanted picks of the first numbers of s, up to n.
Picks(c, s, f, n) == DOMAIN f = 0..n /\ \A i \in 0..n : f[i] = Picked(c, s, f, i)

\* Picking comes to an end, whatever s is.
LEMMA PicksExist ==
  ASSUME NEW c, NEW s, NEW len \in Nat PROVE \E f : Picks(c, s, f, len)
<1> DEFINE T == {n \in Nat : ~ \E f : Picks(c, s, f, n)}
<1> SUFFICES ASSUME T # {} PROVE FALSE
  OBVIOUS
<1>1. PICK n \in T : \A m \in T : n <= m
  BY LeastNumber
<1>2. n # 0
  <2> SUFFICES ASSUME n = 0 PROVE FALSE
    OBVIOUS
  <2> DEFINE f == [i \in 0..0 |-> <<>>]
  <2>1. Picks(c, s, f, 0)
    BY DEF Picks, Picked
  <2> QED  BY <2>1
<1>3. n - 1 \in Nat /\ n - 1 \notin T
  BY <1>1, <1>2
<1>4. PICK f : Picks(c, s, f, n - 1)
  BY <1>3
<1> DEFINE g == [i \in 0..n |-> IF i < n THEN f[i] ELSE Picked(c, s, f, n)]
<1>5. \A i \in 0..n - 1 : g[i] = f[i]
  BY <1>3
<1>6. ASSUME NEW i \in 0..n PROVE g[i] = Picked(c, s, g, i)
  <2>1. CASE i = n
    <3>1. g[n] = Picked(c, s, f, n)
      BY <1>3
    <3>2. g[n - 1] = f[n - 1]
      BY <1>3, <1>5
    <3> HIDE DEF g
    <3> QED  BY <2>1, <3>1, <3>2 DEF Picked
  <2>2. CASE i # n
    <3>1. i \in 0..n - 1 /\ (i # 0 => i - 1 \in 0..n - 1)
      BY <1>3, <2>2
    <3>2. g[i] = f[i] /\ (i # 0 => g[i - 1] = f[i - 1])
      BY <1>5, <3>1
    <3>3. f[i] = Picked(c, s, f, i)
      BY <1>4, <3>1 DEF Picks
    <3> HIDE DEF g
    <3> QED  BY <3>2, <3>3 DEF Picked
  <2> QED  BY <2>1, <2>2
<1>7. DOMAIN g = 0..n
  OBVIOUS
<1> HIDE DEF g
<1>8. Picks(c, s, g, n)
  BY <1>6, <1>7 DEF Picks
<1> QED  BY <1>8

\* Wanted is what is picked of all of s.
LEMMA WantedIsPicked ==
  ASSUME NEW c, NEW s, Len(s) \in Nat
  PROVE  \E f : Picks(c, s, f, Len(s)) /\ Wanted(c, s) = f[Len(s)]
<1> DEFINE pick[i \in 0..Len(s)] ==
             IF i = 0 THEN <<>>
             ELSE IF ShouldReceive(c, s[i]) THEN Append(pick[i - 1], s[i])
             ELSE pick[i - 1]
<1>1. PICK f : Picks(c, s, f, Len(s))
  BY PicksExist
<1>2. PICK f1 : f1 = [i \in 0..Len(s) |-> f[i]]
  OBVIOUS
<1>3. f1 = [i \in 0..Len(s) |->
              IF i = 0 THEN <<>>
              ELSE IF ShouldReceive(c, s[i]) THEN Append(f1[i - 1], s[i])
              ELSE f1[i - 1]]
  <2>1. ASSUME NEW i \in 0..Len(s)
        PROVE  f[i] = IF i = 0 THEN <<>>
                      ELSE IF ShouldReceive(c, s[i]) THEN Append(f1[i - 1], s[i])
                      ELSE f1[i - 1]
    <3>1. i # 0 => i - 1 \in 0..Len(s)
      OBVIOUS
    <3>2. i # 0 => f1[i - 1] = f[i - 1]
      BY <1>2, <3>1
    <3>3. f[i] = Picked(c, s, f, i)
      BY <1>1 DEF Picks
    <3> QED  BY <3>2, <3>3 DEF Picked
  <2> QED  BY <1>2, <2>1
<1>4. pick = [i \in 0..Len(s) |->
              IF i = 0 THEN <<>>
              ELSE IF ShouldReceive(c, s[i]) THEN Append(pick[i - 1], s[i])
              ELSE pick[i - 1]]
  BY <1>3, Zenon
<1>5. Wanted(c, s) = pick[Len(s)]
  BY DEF Wanted
<1> HIDE DEF pick
<1>6. Picks(c, s, pick, Len(s))
  BY <1>4 DEF Picks, Picked
<1> QED  BY <1>5, <1>6

\* Appending a number above all others keeps the order.
LEMMA InOrderAppend ==
  ASSUME NEW q \in Seq(Nat), InOrder(q), NEW n \in Nat, \A i \in 1..Len(q) : q[i] < n
  PROVE  /\ Append(q, n) \in Seq(Nat) /\ InOrder(Append(q, n)) /\ Len(Append(q, n)) = Len(q) + 1
         /\ ToSet(Append(q, n)) = ToSet(q) \cup {n}
<1> DEFINE r == Append(q, n)
<1>1. /\ r \in Seq(Nat) /\ Len(r) = Len(q) + 1 /\ Len(q) \in Nat
      /\ \A i \in 1..Len(q) : r[i] = q[i]
      /\ r[Len(q) + 1] = n
      /\ DOMAIN r = 1..Len(q) + 1 /\ DOMAIN q = 1..Len(q)
  <2>1. r \in Seq(Nat) /\ Len(r) = Len(q) + 1 /\ Len(q) \in Nat
    BY AppendProperties, LenProperties
  <2> QED  BY <2>1, AppendProperties, LenProperties
<1> HIDE DEF r
<1>2. \A i \in 1..Len(q) : q[i] \in Nat
  OBVIOUS
<1>3. ASSUME NEW i \in 1..Len(r), NEW j \in 1..Len(r), i < j PROVE r[i] < r[j]
  <2>1. i \in 1..Len(q) /\ r[i] = q[i]
    BY <1>1, <1>3
  <2>2. CASE j \in 1..Len(q)
    BY <1>1, <1>3, <2>1, <2>2 DEF InOrder
  <2>3. CASE j = Len(q) + 1
    BY <1>1, <2>1, <2>3
  <2> QED  BY <1>1, <2>2, <2>3
<1>4. InOrder(r)
  BY <1>3 DEF InOrder
<1>5. ToSet(r) = ToSet(q) \cup {n}
  <2>1. ToSet(r) = {r[i] : i \in 1..Len(q) + 1} /\ ToSet(q) = {q[i] : i \in 1..Len(q)}
    BY <1>1 DEF ToSet
  <2>2. \A i \in 1..Len(q) + 1 : i \in 1..Len(q) \/ i = Len(q) + 1
    BY <1>1
  <2>3. 1..Len(q) \subseteq 1..Len(q) + 1 /\ Len(q) + 1 \in 1..Len(q) + 1
    BY <1>1
  <2>4. ToSet(r) \subseteq ToSet(q) \cup {n}
    BY <1>1, <2>1, <2>2
  <2>5. \A i \in 1..Len(q) : q[i] = r[i] /\ i \in 1..Len(q) + 1
    BY <1>1, <2>3
  <2>6. ToSet(q) \subseteq ToSet(r)
    BY <2>1, <2>5
  <2>7. n \in ToSet(r)
    BY <1>1, <2>1, <2>3
  <2> QED  BY <2>4, <2>6, <2>7
<1> QED  BY <1>1, <1>4, <1>5 DEF r

\* Wanted keeps the order, and what the client asked for.
LEMMA WantedInOrder ==
  ASSUME NEW c, NEW s \in Seq(Nat), InOrder(s)
  PROVE  /\ Wanted(c, s) \in Seq(Nat) /\ InOrder(Wanted(c, s)) /\ Len(Wanted(c, s)) <= Len(s)
         /\ ToSet(Wanted(c, s)) = {n \in ToSet(s) : ShouldReceive(c, n)}
<1> DEFINE First(n) == {s[j] : j \in 1..n}
           Right(q, n) == /\ q \in Seq(Nat) /\ InOrder(q) /\ Len(q) <= n
                          /\ ToSet(q) = {x \in First(n) : ShouldReceive(c, x)}
<1>1. Len(s) \in Nat /\ DOMAIN s = 1..Len(s) /\ \A i \in 1..Len(s) : s[i] \in Nat
  BY LenProperties
<1>2. PICK f : Picks(c, s, f, Len(s)) /\ Wanted(c, s) = f[Len(s)]
  BY <1>1, WantedIsPicked
<1> DEFINE T == {n \in 0..Len(s) : ~ Right(f[n], n)}
<1>3. T = {}
  <2> SUFFICES ASSUME T # {} PROVE FALSE
    OBVIOUS
  <2>1. T \subseteq Nat
    BY <1>1
  <2>2. PICK n \in T : \A m \in T : n <= m
    BY <2>1, LeastNumber
  <2>3. n \in 0..Len(s) /\ n \in Nat /\ ~ Right(f[n], n) /\ f[n] = Picked(c, s, f, n)
    BY <1>1, <1>2 DEF Picks
  <2>4. n # 0
    <3> SUFFICES ASSUME n = 0 PROVE FALSE
      OBVIOUS
    <3>1. f[0] = <<>>
      BY <2>3 DEF Picked
    <3>2. <<>> \in Seq(Nat) /\ InOrder(<<>>) /\ Len(<<>>) = 0 /\ ToSet(<<>>) = {}
      BY DEF InOrder, ToSet
    <3>3. First(0) = {}
      OBVIOUS
    <3>4. Right(<<>>, 0)
      BY <3>2, <3>3
    <3> QED  BY <2>3, <3>1, <3>4
  <2>5. n - 1 \in 0..Len(s) /\ n - 1 \notin T /\ n \in 1..Len(s)
    <3>1. n - 1 \in 0..Len(s) /\ n \in 1..Len(s) /\ ~ (n <= n - 1)
      BY <1>1, <2>3, <2>4
    <3> HIDE DEF T
    <3> QED  BY <2>2, <3>1
  <2>6. PICK q : q = f[n - 1]
    OBVIOUS
  <2>7. Right(q, n - 1)
    BY <2>5, <2>6
  <2>8. First(n) = First(n - 1) \cup {s[n]}
    <3>1. 1..n = (1..n - 1) \cup {n}
      BY <2>3, <2>5
    <3> QED  BY <3>1
  <2>9. s[n] \in Nat /\ \A x \in First(n - 1) : x < s[n]
    BY <1>1, <2>5 DEF InOrder
  <2> HIDE DEF First
  <2>10. q \in Seq(Nat) /\ InOrder(q) /\ Len(q) <= n - 1 /\ Len(q) \in Nat
         /\ ToSet(q) = {x \in First(n - 1) : ShouldReceive(c, x)}
    BY <2>7, LenProperties
  <2>11. Right(f[n], n)
    <3>1. CASE ShouldReceive(c, s[n])
      <4>1. f[n] = Append(q, s[n])
        BY <2>3, <2>4, <2>6, <3>1 DEF Picked
      <4>2. \A i \in 1..Len(q) : q[i] \in ToSet(q)
        BY <2>10, LenProperties DEF ToSet
      <4>3. \A i \in 1..Len(q) : q[i] < s[n]
        BY <2>9, <2>10, <4>2
      <4>4. /\ Append(q, s[n]) \in Seq(Nat) /\ InOrder(Append(q, s[n]))
            /\ Len(Append(q, s[n])) = Len(q) + 1 /\ ToSet(Append(q, s[n])) = ToSet(q) \cup {s[n]}
        BY <2>9, <2>10, <4>3, InOrderAppend
      <4>5. Len(f[n]) <= n
        BY <2>3, <2>10, <4>1, <4>4
      <4>6. ToSet(f[n]) = {x \in First(n) : ShouldReceive(c, x)}
        BY <2>8, <2>10, <3>1, <4>1, <4>4
      <4> QED  BY <4>1, <4>4, <4>5, <4>6
    <3>2. CASE ~ ShouldReceive(c, s[n])
      <4>1. f[n] = q
        BY <2>3, <2>4, <2>6, <3>2 DEF Picked
      <4>2. Len(f[n]) <= n
        BY <2>3, <2>10, <4>1
      <4>3. ToSet(f[n]) = {x \in First(n) : ShouldReceive(c, x)}
        BY <2>8, <2>10, <3>2, <4>1
      <4> QED  BY <2>10, <4>1, <4>2, <4>3
    <3> QED  BY <3>1, <3>2
  <2> QED  BY <2>3, <2>11
<1>4. Len(s) \in 0..Len(s)
  BY <1>1
<1>5. Right(f[Len(s)], Len(s))
  BY <1>3, <1>4
<1>6. ToSet(s) = First(Len(s))
  BY <1>1 DEF ToSet
<1> QED  BY <1>2, <1>5, <1>6

-----------------------------------------------------------------------------
(* What a client has *)

\* The numbers from a to b that c asked for.
Asked(c, a, b) == {k \in a..b : ShouldReceive(c, k)}

\* The channel of a client has room, and some of what was due to it in order.
Channel(c) ==
  /\ from[c] \in 1..HeardCount + 1
  /\ Len(ch[c]) <= Buffer + History /\ InOrder(ch[c])
  /\ ToSet(ch[c]) \subseteq Asked(c, from[c], HeardCount)

\* A message is only missed with a full channel of earlier ones.
Missing(c) ==
  \A n \in missed[c] : /\ n \in from[c]..HeardCount
                        /\ Cardinality(Asked(c, from[c], n - 1)) >= Buffer + History

\* All the others are on their way, or written.
Streaming(c) ==
  pump[c] # "done" => /\ InOrder(Stream(c))
                      /\ ToSet(Stream(c)) = Asked(c, from[c], HeardCount) \ missed[c]

\* Before it registers, a client has nothing.
Idle(c) == ch[c] = <<>> /\ got[c] = <<>> /\ missed[c] = {} /\ pump[c] # "write"

Unregistered == {"off", "dialled", "reading", "register"}

ClientOK(c) ==
  /\ conn[c] \in Unregistered => Idle(c)
  /\ c \in clients => Channel(c) /\ Missing(c) /\ Streaming(c)

StreamTypes ==
  /\ pump \in [Clients -> {"off", "take", "write", "done"}] /\ DOMAIN wants = Clients
  /\ ch \in [Clients -> Seq(Nat)] /\ got \in [Clients -> Seq(Nat)] /\ inHand \in [Clients -> Nat]
  /\ from \in [Clients -> Nat] /\ missed \in [Clients -> SUBSET Nat]

StreamInv == HistoryInv /\ ClientsInv /\ StreamTypes /\ \A c \in Clients : ClientOK(c)

\* A channel in order holds as many numbers as there are.
LEMMA CountInOrder ==
  ASSUME NEW q \in Seq(Nat), InOrder(q), NEW S, ToSet(q) \subseteq S, IsFiniteSet(S)
  PROVE  Cardinality(S) \in Nat /\ Len(q) <= Cardinality(S)
<1> DEFINE f == [i \in 1..Len(q) |-> q[i]]
<1>1. Len(q) \in Nat /\ DOMAIN q = 1..Len(q) /\ \A i \in 1..Len(q) : q[i] \in Nat /\ q[i] \in S
  BY LenProperties DEF ToSet
<1>2. \A i, j \in 1..Len(q) : i # j => q[i] # q[j]
  <2> SUFFICES ASSUME NEW i \in 1..Len(q), NEW j \in 1..Len(q), i # j PROVE q[i] # q[j]
    OBVIOUS
  <2>1. i < j \/ j < i
    BY <1>1
  <2> QED  BY <1>1, <2>1 DEF InOrder
<1>3. f \in Injection(1..Len(q), S)
  BY <1>1, <1>2 DEF Injection, IsInjective
<1> HIDE DEF f
<1>4. Cardinality(1..Len(q)) <= Cardinality(S)
  BY <1>3, FS_Injection
<1>5. Cardinality(1..Len(q)) = Len(q)
  <2>1. \A k \in Nat : Cardinality(1..k) = k
    <3>1. \A k \in Nat : Cardinality(1..k) = IF 1 > k THEN 0 ELSE k - 1 + 1
      BY FS_Interval
    <3> QED  BY <3>1
  <2> QED  BY <1>1, <2>1
<1>6. Cardinality(S) \in Nat
  BY FS_CardinalityType
<1> QED  BY <1>4, <1>5, <1>6

\* What is asked for is finite.
LEMMA AskedFinite ==
  ASSUME NEW c, NEW a \in Int, NEW b \in Int PROVE IsFiniteSet(Asked(c, a, b))
BY FS_Interval, FS_Subset DEF Asked

\* The pump moves a message from the channel to its hand.
LEMMA TakeMoves ==
  ASSUME NEW g \in Seq(Nat), NEW q \in Seq(Nat), q # <<>>
  PROVE  (g \o <<>>) \o q = (g \o <<Head(q)>>) \o Tail(q)
<1>1. Head(q) \in Nat /\ Tail(q) \in Seq(Nat) /\ <<Head(q)>> \in Seq(Nat) /\ Len(<<Head(q)>>) = 1
      /\ <<Head(q)>>[1] = Head(q)
  BY HeadTailProperties
<1> DEFINE r == <<Head(q)>> \o Tail(q)
<1>2. r \in Seq(Nat) /\ Len(r) = 1 + Len(Tail(q))
      /\ \A i \in 1..1 + Len(Tail(q)) : r[i] = IF i <= 1 THEN <<Head(q)>>[i] ELSE Tail(q)[i - 1]
  BY <1>1, ConcatProperties
<1> HIDE DEF r
<1>3. Len(q) \in Nat /\ Len(q) > 0 /\ Len(Tail(q)) = Len(q) - 1
      /\ \A i \in 1..Len(Tail(q)) : Tail(q)[i] = q[i + 1]
  BY EmptySeq, HeadTailProperties
<1>4. Len(r) = Len(q)
  BY <1>2, <1>3
<1>5. ASSUME NEW i \in 1..Len(r) PROVE r[i] = q[i]
  <2>1. CASE i = 1
    BY <1>1, <1>2, <1>3, <2>1
  <2>2. CASE i # 1
    <3>1. i - 1 \in 1..Len(Tail(q)) /\ r[i] = Tail(q)[i - 1]
      BY <1>2, <1>3, <2>2
    <3> QED  BY <1>3, <3>1
  <2> QED  BY <2>1, <2>2
<1>6. r = q
  BY <1>2, <1>4, <1>5, SeqEqual
<1>7. (g \o <<Head(q)>>) \o Tail(q) = g \o r
  BY <1>1, ConcatAssociative DEF r
<1>8. g \o <<>> = g
  BY ConcatEmptySeq
<1> QED  BY <1>6, <1>7, <1>8

\* The pump writes what it has in its hand.
LEMMA WriteMoves ==
  ASSUME NEW g \in Seq(Nat), NEW x \in Nat, NEW q \in Seq(Nat)
  PROVE  (g \o <<x>>) \o q = (Append(g, x) \o <<>>) \o q
<1>1. Append(g, x) = g \o <<x>> /\ Append(g, x) \in Seq(Nat)
  BY AppendIsConcat, AppendProperties
<1>2. Append(g, x) \o <<>> = Append(g, x)
  BY <1>1, ConcatEmptySeq
<1> QED  BY <1>1, <1>2

\* What joins the channel joins the stream.
LEMMA JoinMoves ==
  ASSUME NEW g \in Seq(Nat), NEW q \in Seq(Nat), NEW x \in Nat
  PROVE  g \o Append(q, x) = Append(g \o q, x)
<1>1. <<x>> \in Seq(Nat) /\ g \o q \in Seq(Nat)
  BY ConcatProperties
<1>2. Append(q, x) = q \o <<x>> /\ Append(g \o q, x) = (g \o q) \o <<x>>
  BY <1>1, AppendIsConcat
<1> QED  BY <1>1, <1>2, ConcatAssociative

\* The first of a channel in order is taken from it.
LEMMA InOrderTail ==
  ASSUME NEW q \in Seq(Nat), q # <<>>, InOrder(q)
  PROVE  /\ Tail(q) \in Seq(Nat) /\ Head(q) \in Nat /\ InOrder(Tail(q)) /\ Len(Tail(q)) <= Len(q)
         /\ ToSet(Tail(q)) \subseteq ToSet(q)
<1>1. /\ Head(q) \in Nat /\ Tail(q) \in Seq(Nat) /\ Len(Tail(q)) = Len(q) - 1 /\ Len(q) \in Nat
      /\ \A i \in 1..Len(Tail(q)) : Tail(q)[i] = q[i + 1] /\ i + 1 \in 1..Len(q)
      /\ DOMAIN q = 1..Len(q) /\ DOMAIN Tail(q) = 1..Len(Tail(q))
  <2>1. Tail(q) \in Seq(Nat) /\ Len(q) \in Nat /\ Len(q) > 0
    BY HeadTailProperties, EmptySeq
  <2> QED  BY <2>1, HeadTailProperties, LenProperties
<1>2. InOrder(Tail(q))
  <2> SUFFICES ASSUME NEW i \in 1..Len(Tail(q)), NEW j \in 1..Len(Tail(q)), i < j
               PROVE  Tail(q)[i] < Tail(q)[j]
    BY DEF InOrder
  <2>1. i + 1 \in 1..Len(q) /\ j + 1 \in 1..Len(q) /\ i + 1 < j + 1
    BY <1>1
  <2>2. q[i + 1] < q[j + 1]
    BY <2>1 DEF InOrder
  <2> QED  BY <1>1, <2>2
<1>3. ToSet(Tail(q)) \subseteq ToSet(q)
  BY <1>1 DEF ToSet
<1> QED  BY <1>1, <1>2, <1>3

\* A single message offered to a client: it takes it, or its channel is full.
LEMMA OfferOne ==
  ASSUME NEW c, ch[c] \in Seq(Nat), Len(ch[c]) <= Buffer + History, NEW n \in Nat, missed[c] \subseteq Nat
  PROVE  \/ Len(ch[c]) < Buffer + History
            /\ Accepted(c, <<n>>) = Append(ch[c], n) /\ Dropped(c, <<n>>) = missed[c]
         \/ Len(ch[c]) = Buffer + History
            /\ Accepted(c, <<n>>) = ch[c] /\ Dropped(c, <<n>>) = missed[c] \cup {n}
<1>1. Len(ch[c]) \in Nat /\ Buffer \in Nat /\ History \in Nat
  BY RelayAssumption, LenProperties
<1>2. Room(c) \in Nat
  BY <1>1 DEF Room
<1>3. \A x, y \in Nat : Min({x, y}) = IF x < y THEN x ELSE y
  BY DEF Min
<1>4. <<n>> \in Seq(Nat) /\ Len(<<n>>) = 1 /\ <<n>>[1] = n /\ \A i \in 1..1 : <<n>>[i] \in Nat
  OBVIOUS
<1>5. CASE Room(c) > 0
  <2>1. Min({Len(<<n>>), Room(c)}) = 1
    BY <1>2, <1>3, <1>4, <1>5
  <2>2. SubSeq(<<n>>, 1, 1) = <<n>>
    BY <1>4, SubSeqFull
  <2>3. Accepted(c, <<n>>) = Append(ch[c], n)
    BY <2>1, <2>2, AppendIsConcat DEF Accepted
  <2>4. SubSeq(<<n>>, Room(c) + 1, Len(<<n>>)) = <<>>
    BY <1>2, <1>4, <1>5, SubSeqEmpty
  <2>5. ToSet(<<>>) = {}
    BY DEF ToSet
  <2>6. Dropped(c, <<n>>) = missed[c]
    BY <2>4, <2>5 DEF Dropped
  <2>7. Len(ch[c]) < Buffer + History
    <3>1. \A x, y, z \in Nat : x + y - z > 0 => z < x + y
      OBVIOUS
    <3> QED  BY <1>1, <1>5, <3>1 DEF Room
  <2> QED  BY <2>3, <2>6, <2>7
<1>6. CASE Room(c) = 0
  <2>1. Min({Len(<<n>>), Room(c)}) = 0
    BY <1>2, <1>3, <1>4, <1>6
  <2>2. SubSeq(<<n>>, 1, 0) = <<>>
    BY SubSeqEmpty
  <2>3. Accepted(c, <<n>>) = ch[c]
    <3>1. \A q \in Seq(Nat) : q \o <<>> = q
      BY ConcatEmptySeq
    <3>2. Accepted(c, <<n>>) = ch[c] \o SubSeq(<<n>>, 1, 0)
      BY <2>1 DEF Accepted
    <3> QED  BY <2>2, <3>1, <3>2
  <2>4. SubSeq(<<n>>, Room(c) + 1, Len(<<n>>)) = <<n>>
    <3>1. SubSeq(<<n>>, 1, Len(<<n>>)) = <<n>>
      BY <1>4, SubSeqFull
    <3>2. Room(c) + 1 = 1
      BY <1>6
    <3> QED  BY <3>1, <3>2
  <2>5. ToSet(<<n>>) = {n}
    BY <1>4 DEF ToSet
  <2>6. Dropped(c, <<n>>) = missed[c] \cup {n}
    BY <2>4, <2>5 DEF Dropped
  <2>7. Len(ch[c]) = Buffer + History
    BY <1>1, <1>6 DEF Room
  <2> QED  BY <2>3, <2>6, <2>7
<1> QED  BY <1>2, <1>5, <1>6

-----------------------------------------------------------------------------
(* The steps *)

\* What c asked for does not depend on later messages.
LEMMA AskedKept ==
  ASSUME NEW c, NEW CONSTANT a, NEW CONSTANT b, \A k \in a..b : ShouldReceive(c, k)' <=> ShouldReceive(c, k)
  PROVE  Asked(c, a, b)' = Asked(c, a, b)
BY DEF Asked

\* What c asked for of what the hub has heard stays the same.
SameAsked(c) ==
  /\ HeardCount' = HeardCount
  /\ \A k \in 1..HeardCount : ShouldReceive(c, k)' <=> ShouldReceive(c, k)

\* The channel does not change.
LEMMA ChannelKept ==
  ASSUME NEW c, HeardCount \in Nat, Channel(c), Missing(c), SameAsked(c),
         UNCHANGED <<ch[c], from[c], missed[c]>>
  PROVE  Channel(c)' /\ Missing(c)'
<1>1. PICK a : a = from[c]
  OBVIOUS
<1>2. PICK h : h = HeardCount
  OBVIOUS
<1>3. a \in 1..h + 1 /\ h \in Nat /\ from'[c] = a /\ HeardCount' = h
  BY <1>1, <1>2 DEF Channel, SameAsked
<1>4. ASSUME NEW b \in Int, b <= h PROVE Asked(c, a, b)' = Asked(c, a, b)
  <2>1. \A k \in a..b : k \in 1..HeardCount
    BY <1>2, <1>3, <1>4
  <2> QED  BY <2>1, AskedKept DEF SameAsked
<1>5. Channel(c)'
  <2>1. Asked(c, a, h)' = Asked(c, a, h)
    BY <1>3, <1>4
  <2>2. Asked(c, from[c], HeardCount)' = Asked(c, from[c], HeardCount)
    BY <1>1, <1>2, <1>3, <2>1 DEF Asked
  <2> QED  BY <1>1, <1>3, <2>2 DEF Channel, InOrder
<1>6. Missing(c)'
  <2> SUFFICES ASSUME NEW n \in missed[c]
               PROVE  /\ n \in from'[c]..HeardCount'
                      /\ Cardinality({k \in from'[c]..n - 1 : ShouldReceive(c, k)'}) >= Buffer + History
    BY DEF Missing, Asked
  <2>1. n \in a..h /\ Cardinality(Asked(c, a, n - 1)) >= Buffer + History
    BY <1>1, <1>2 DEF Missing
  <2>2. n - 1 \in Int /\ n - 1 <= h
    BY <1>3, <2>1
  <2>3. PICK b : b = n - 1
    OBVIOUS
  <2>4. Asked(c, a, b)' = Asked(c, a, b)
    BY <1>4, <2>2, <2>3
  <2>5. {k \in a..b : ShouldReceive(c, k)'} = Asked(c, a, b)
    BY <2>4 DEF Asked
  <2> QED  BY <1>3, <2>1, <2>3, <2>5
<1> QED  BY <1>5, <1>6

\* The stream does not change.
LEMMA StreamKept ==
  ASSUME NEW c, HeardCount \in Nat, Channel(c), Streaming(c), SameAsked(c), UNCHANGED <<from[c], missed[c]>>,
         pump'[c] # "done" => pump[c] # "done" /\ Stream(c)' = Stream(c)
  PROVE  Streaming(c)'
<1> SUFFICES ASSUME pump'[c] # "done"
             PROVE  /\ InOrder(Stream(c))'
                    /\ ToSet(Stream(c))' = Asked(c, from[c], HeardCount)' \ missed'[c]
  BY DEF Streaming
<1>1. InOrder(Stream(c)) /\ ToSet(Stream(c)) = Asked(c, from[c], HeardCount) \ missed[c]
      /\ Stream(c)' = Stream(c)
  BY DEF Streaming
<1>2. PICK a : a = from[c]
  OBVIOUS
<1>3. PICK h : h = HeardCount
  OBVIOUS
<1>4. \A k \in a..h : k \in 1..HeardCount
  BY <1>2, <1>3 DEF Channel
<1>5. Asked(c, a, h)' = Asked(c, a, h)
  BY <1>4, AskedKept DEF SameAsked
<1>6. Asked(c, from[c], HeardCount)' = Asked(c, from[c], HeardCount)
  BY <1>2, <1>3, <1>5 DEF Asked, SameAsked
<1>7. InOrder(Stream(c))'
  BY <1>1 DEF InOrder
<1>8. ToSet(Stream(c))' = ToSet(Stream(c))
  BY <1>1 DEF ToSet
<1> QED  BY <1>1, <1>6, <1>7, <1>8

\* Nothing about a client changes, or it is forgotten.
LEMMA ClientKept ==
  ASSUME NEW c, HeardCount \in Nat, ClientOK(c), SameAsked(c),
         UNCHANGED <<ch[c], from[c], missed[c], got[c], inHand[c], pump[c]>>,
         c \in clients' => c \in clients,
         conn'[c] \in Unregistered => conn[c] \in Unregistered
  PROVE  ClientOK(c)'
<1>1. conn'[c] \in Unregistered => Idle(c)'
  BY DEF ClientOK, Idle
<1>2. Stream(c)' = Stream(c)
  BY DEF Stream
<1>3. c \in clients' => Channel(c)' /\ Missing(c)' /\ Streaming(c)'
  BY <1>2, ChannelKept, StreamKept DEF ClientOK
<1> QED  BY <1>1, <1>3 DEF ClientOK, Unregistered

\* The hub hears nothing and nobody subscribes.
LEMMA AskedUnheard ==
  ASSUME NEW c, UNCHANGED <<queue, svc>>, wants'[c] = wants[c] PROVE SameAsked(c)
BY DEF SameAsked, HeardCount, ShouldReceive

\* The other clients notice nothing.
LEMMA OthersKept ==
  ASSUME StreamInv, NEW c \in Clients, UNCHANGED <<queue, svc>>, clients' \subseteq clients \cup {c},
         \A d \in Clients : d # c => UNCHANGED <<ch[d], from[d], missed[d], got[d], inHand[d], pump[d], wants[d], conn[d]>>,
         ClientOK(c)'
  PROVE  \A d \in Clients : ClientOK(d)'
<1> SUFFICES ASSUME NEW d \in Clients, d # c PROVE ClientOK(d)'
  OBVIOUS
<1>1. SameAsked(d)
  BY AskedUnheard
<1> QED  BY <1>1, ClientKept DEF StreamInv, HistoryInv, Queued

\* A client registers: it has what it asked for of the history, and misses nothing.
LEMMA RegisterStep ==
  ASSUME StreamInv, NEW c \in Clients, HubRegister(c)
  PROVE  StreamTypes' /\ \A d \in Clients : ClientOK(d)'
<1> DEFINE s == Replayed
           w == Wanted(c, s)
<1>1. /\ conn[c] = "register" /\ clients' = clients \cup {c}
      /\ ch' = [ch EXCEPT ![c] = Accepted(c, w)]
      /\ missed' = [missed EXCEPT ![c] = Dropped(c, w)]
      /\ from' = [from EXCEPT ![c] = Heard - count + 1]
      /\ conn' = [conn EXCEPT ![c] = "serving"]
      /\ UNCHANGED <<queue, svc, wants, pump, inHand, got>>
  BY DEF HubRegister
<1>2. /\ ch[c] = <<>> /\ got[c] = <<>> /\ missed[c] = {} /\ pump[c] # "write"
  BY <1>1 DEF StreamInv, ClientOK, Unregistered, Idle
<1>3. /\ HeardCount \in Nat /\ Heard = HeardCount /\ count \in 0..History /\ count <= HeardCount
      /\ History \in Nat /\ Buffer \in Nat
  BY HeardIsCount, RelayAssumption DEF StreamInv, HistoryInv, Queued, Ring, RingTypes
<1>4. s = [i \in 1..count |-> HeardCount - count + i]
  BY ReplayedIsLast DEF StreamInv
<1> HIDE DEF s
<1>5. s \in Seq(Nat) /\ Len(s) = count /\ InOrder(s)
  <2>1. s \in Seq(Nat) /\ Len(s) = count
    BY <1>3, <1>4
  <2>2. \A i \in 1..count : s[i] = HeardCount - count + i
    BY <1>4
  <2> QED  BY <1>3, <2>1, <2>2 DEF InOrder
<1>6. ToSet(s) = HeardCount - count + 1..HeardCount
  <2>1. ToSet(s) = {HeardCount - count + i : i \in 1..count}
    BY <1>4 DEF ToSet
  <2>2. \A k \in HeardCount - count + 1..HeardCount :
          k - (HeardCount - count) \in 1..count /\ k = HeardCount - count + (k - (HeardCount - count))
    BY <1>3
  <2>3. \A i \in 1..count : HeardCount - count + i \in HeardCount - count + 1..HeardCount
    BY <1>3
  <2> QED  BY <2>1, <2>2, <2>3
<1>7. /\ w \in Seq(Nat) /\ InOrder(w) /\ Len(w) <= count
      /\ ToSet(w) = {k \in HeardCount - count + 1..HeardCount : ShouldReceive(c, k)}
  BY <1>5, <1>6, WantedInOrder
<1> HIDE DEF w
<1>8. Room(c) = Buffer + History /\ Len(w) \in Nat /\ Len(w) <= Room(c)
  <2>1. Len(ch[c]) = 0
    BY <1>2
  <2> QED  BY <1>3, <1>7, <2>1, LenProperties DEF Room
<1>9. Accepted(c, w) = w
  <2>1. Min({Len(w), Room(c)}) = Len(w)
    <3>1. \A x, y \in Nat : x <= y => Min({x, y}) = x
      BY DEF Min
    <3> QED  BY <1>3, <1>8, <3>1
  <2>2. SubSeq(w, 1, Len(w)) = w
    BY <1>7, SubSeqFull
  <2>3. <<>> \o w = w
    BY <1>7, ConcatEmptySeq
  <2>4. Accepted(c, w) = <<>> \o SubSeq(w, 1, Len(w))
    BY <1>2, <2>1 DEF Accepted
  <2> QED  BY <2>2, <2>3, <2>4
<1>10. Dropped(c, w) = {}
  <2>1. SubSeq(w, Room(c) + 1, Len(w)) = <<>>
    BY <1>3, <1>8, SubSeqEmpty
  <2>2. ToSet(<<>>) = {}
    BY DEF ToSet
  <2> QED  BY <1>2, <2>1, <2>2 DEF Dropped
<1>11. HeardCount - count + 1 \in Nat /\ HeardCount - count + 1 \in 1..HeardCount + 1
  BY <1>3
<1>12. StreamTypes'
  BY <1>1, <1>3, <1>7, <1>9, <1>10, <1>11 DEF StreamInv, StreamTypes
<1>13. /\ ch'[c] = w /\ missed'[c] = {} /\ from'[c] = HeardCount - count + 1 /\ conn'[c] = "serving"
       /\ got'[c] = <<>> /\ pump'[c] # "write" /\ HeardCount' = HeardCount
  BY <1>1, <1>2, <1>3, <1>9, <1>10 DEF StreamInv, StreamTypes, ClientsInv, HeardCount
<1>14. \A k : ShouldReceive(c, k)' <=> ShouldReceive(c, k)
  BY <1>1 DEF ShouldReceive
<1>15. Asked(c, from[c], HeardCount)' = ToSet(w)
  BY <1>7, <1>13, <1>14 DEF Asked
<1>16. Channel(c)'
  <2>1. ToSet(ch[c])' = ToSet(w)
    BY <1>13 DEF ToSet
  <2>2. InOrder(ch[c])'
    BY <1>7, <1>13 DEF InOrder
  <2>3. Len(w) <= Buffer + History
    BY <1>8
  <2> QED  BY <1>11, <1>13, <1>15, <2>1, <2>2, <2>3 DEF Channel
<1>17. Missing(c)'
  BY <1>13 DEF Missing
<1>18. Streaming(c)'
  <2>1. (<<>> \o <<>>) \o w = w
    <3>1. <<>> \o <<>> = <<>> /\ <<>> \o w = w
      BY <1>7, ConcatEmptySeq, EmptySeq
    <3> QED  BY <3>1
  <2>2. Stream(c)' = w
    BY <1>13, <2>1 DEF Stream
  <2>3. InOrder(Stream(c))' /\ ToSet(Stream(c))' = ToSet(w)
    BY <1>7, <2>2 DEF InOrder, ToSet
  <2> QED  BY <1>13, <1>15, <2>3 DEF Streaming
<1>19. ClientOK(c)'
  BY <1>13, <1>16, <1>17, <1>18 DEF ClientOK, Unregistered
<1>20. \A d \in Clients : d # c =>
         UNCHANGED <<ch[d], from[d], missed[d], got[d], inHand[d], pump[d], wants[d], conn[d]>>
  BY <1>1 DEF StreamInv, StreamTypes, ClientsInv
<1> QED  BY <1>1, <1>12, <1>19, <1>20, OthersKept

\* What the hub hears next.
LEMMA NextHeard ==
  ASSUME HistoryInv, HubBroadcast
  PROVE  Head(queue) = HeardCount + 1 /\ HeardCount' = HeardCount + 1 /\ HeardCount \in Nat
<1>1. queue # <<>> /\ queue' = Tail(queue) /\ svc' = svc
  BY DEF HubBroadcast
<1>2. queue \in Seq(Nat) /\ Len(queue) \in Nat /\ Len(queue) > 0 /\ Len(svc) \in Nat /\ HeardCount \in Nat
  BY <1>1, EmptySeq, LenProperties DEF HistoryInv, Queued
<1>3. Head(queue) = queue[1] /\ Len(Tail(queue)) = Len(queue) - 1
  BY <1>1, <1>2, HeadTailProperties
<1> QED  BY <1>1, <1>2, <1>3 DEF HistoryInv, Queued, HeardCount

\* The next message is asked for, or is not.
LEMMA AskedNext ==
  ASSUME NEW c, NEW a \in Nat, NEW n \in Nat, a <= n
  PROVE  /\ ShouldReceive(c, n) => Asked(c, a, n) = Asked(c, a, n - 1) \cup {n}
         /\ ~ ShouldReceive(c, n) => Asked(c, a, n) = Asked(c, a, n - 1)
<1>1. a..n = (a..n - 1) \cup {n}
  OBVIOUS
<1> QED  BY <1>1 DEF Asked

\* A client that the message is for, and that is still written to or not.
LEMMA HeardByOne ==
  ASSUME StreamInv, HubBroadcast, NEW c \in clients, ShouldReceive(c, HeardCount + 1)
  PROVE  ClientOK(c)'
<1> DEFINE n == HeardCount + 1
<1>1. Head(queue) = n /\ HeardCount' = n /\ HeardCount \in Nat /\ n \in Nat
  BY NextHeard DEF StreamInv
<1>2. c \in Clients /\ conn[c] \notin Unregistered /\ Channel(c) /\ Missing(c) /\ Streaming(c)
  BY DEF StreamInv, ClientsInv, ClientOK, Unregistered
<1>3. /\ ch[c] \in Seq(Nat) /\ got[c] \in Seq(Nat) /\ inHand[c] \in Nat /\ missed[c] \subseteq Nat
      /\ from[c] \in Nat
  BY <1>2 DEF StreamInv, StreamTypes
<1>4. /\ ch'[c] = Accepted(c, <<n>>) /\ missed'[c] = Dropped(c, <<n>>)
      /\ UNCHANGED <<from, conn, wants, pump, inHand, got, svc, clients>>
  BY <1>1, <1>2 DEF HubBroadcast
<1> HIDE DEF n
<1>5. \A k : ShouldReceive(c, k)' <=> ShouldReceive(c, k)
  BY <1>4 DEF ShouldReceive
<1>6. PICK a : a = from[c]
  OBVIOUS
<1>7. a \in Nat /\ a <= n /\ a \in 1..n + 1 /\ from'[c] = a /\ n - 1 = HeardCount
  BY <1>1, <1>2, <1>3, <1>4, <1>6 DEF Channel, n
<1>8. Asked(c, a, n) = Asked(c, a, n - 1) \cup {n} /\ n \notin Asked(c, a, n - 1)
  <2>1. ShouldReceive(c, n)
    BY DEF n
  <2>2. n \notin a..n - 1
    BY <1>1, <1>7
  <2> QED  BY <1>1, <1>7, <2>1, <2>2, AskedNext DEF Asked
<1>9. \A b : Asked(c, a, b) = {k \in a..b : ShouldReceive(c, k)'}
  BY <1>5 DEF Asked
<1>10. Asked(c, from[c], HeardCount)' = Asked(c, a, n)
  BY <1>1, <1>7, <1>9 DEF Asked
<1>11. Asked(c, from[c], HeardCount) = Asked(c, a, n - 1)
  BY <1>6, <1>7
<1>12. ToSet(ch[c]) \subseteq Asked(c, a, n - 1) /\ InOrder(ch[c]) /\ Len(ch[c]) <= Buffer + History
  BY <1>2, <1>11 DEF Channel
<1>13. \A q \in Seq(Nat) : ToSet(q) \subseteq Asked(c, a, n - 1) => \A i \in 1..Len(q) : q[i] < n
  <2> SUFFICES ASSUME NEW q \in Seq(Nat), ToSet(q) \subseteq Asked(c, a, n - 1), NEW i \in 1..Len(q)
               PROVE  q[i] < n
    OBVIOUS
  <2>1. q[i] \in a..n - 1
    BY LenProperties DEF ToSet, Asked
  <2> QED  BY <1>1, <1>7, <2>1
<1>14. ASSUME NEW m \in missed[c]
       PROVE  m \in a..n - 1 /\ Cardinality(Asked(c, a, m - 1)) >= Buffer + History
  BY <1>2, <1>6, <1>7 DEF Missing
<1>15. \/ Len(ch[c]) < Buffer + History /\ ch'[c] = Append(ch[c], n) /\ missed'[c] = missed[c]
       \/ Len(ch[c]) = Buffer + History /\ ch'[c] = ch[c] /\ missed'[c] = missed[c] \cup {n}
  <2>1. \/ Len(ch[c]) < Buffer + History
           /\ Accepted(c, <<n>>) = Append(ch[c], n) /\ Dropped(c, <<n>>) = missed[c]
        \/ Len(ch[c]) = Buffer + History
           /\ Accepted(c, <<n>>) = ch[c] /\ Dropped(c, <<n>>) = missed[c] \cup {n}
    BY <1>1, <1>3, <1>12, OfferOne
  <2> QED  BY <1>4, <2>1
<1> DEFINE g == got[c] \o (IF pump[c] = "write" THEN <<inHand[c]>> ELSE <<>>)
<1>16. g \in Seq(Nat) /\ Stream(c) = g \o ch[c]
  <2>1. (IF pump[c] = "write" THEN <<inHand[c]>> ELSE <<>>) \in Seq(Nat)
    BY <1>3
  <2> QED  BY <1>3, <2>1, ConcatProperties DEF Stream
<1>17. Stream(c)' = g \o ch'[c]
  BY <1>4 DEF Stream
<1> HIDE DEF g
<1>18. CASE Len(ch[c]) < Buffer + History /\ ch'[c] = Append(ch[c], n) /\ missed'[c] = missed[c]
  <2>1. /\ InOrder(Append(ch[c], n)) /\ Len(Append(ch[c], n)) = Len(ch[c]) + 1
        /\ ToSet(Append(ch[c], n)) = ToSet(ch[c]) \cup {n}
    BY <1>1, <1>3, <1>12, <1>13, InOrderAppend
  <2>2. Channel(c)'
    <3>1. InOrder(ch[c])' /\ ToSet(ch[c])' = ToSet(ch[c]) \cup {n}
      BY <1>18, <2>1 DEF InOrder, ToSet
    <3>2. Len(ch'[c]) <= Buffer + History
      BY <1>3, <1>18, <2>1, LenProperties, RelayAssumption
    <3> QED  BY <1>1, <1>7, <1>8, <1>10, <1>12, <3>1, <3>2 DEF Channel
  <2>3. Missing(c)'
    <3> SUFFICES ASSUME NEW m \in missed[c]
                 PROVE  /\ m \in a..n
                        /\ Cardinality({k \in a..m - 1 : ShouldReceive(c, k)'}) >= Buffer + History
      BY <1>1, <1>7, <1>18 DEF Missing, Asked
    <3>1. {k \in a..m - 1 : ShouldReceive(c, k)'} = Asked(c, a, m - 1)
      BY <1>5 DEF Asked
    <3>2. m \in a..n
      BY <1>1, <1>7, <1>14
    <3> QED  BY <1>14, <3>1, <3>2
  <2>4. Streaming(c)'
    <3> SUFFICES ASSUME pump[c] # "done"
                 PROVE  InOrder(Stream(c))' /\ ToSet(Stream(c))' = Asked(c, a, n) \ missed[c]
      BY <1>4, <1>10, <1>18 DEF Streaming
    <3>1. InOrder(Stream(c)) /\ ToSet(Stream(c)) = Asked(c, a, n - 1) \ missed[c]
      BY <1>2, <1>11 DEF Streaming
    <3>2. Stream(c) \in Seq(Nat)
      BY <1>3, <1>16, ConcatProperties
    <3>3. Stream(c)' = Append(Stream(c), n)
      <4>1. g \o Append(ch[c], n) = Append(g \o ch[c], n)
        BY <1>1, <1>3, <1>16, JoinMoves
      <4> QED  BY <1>16, <1>17, <1>18, <4>1
    <3>4. \A i \in 1..Len(Stream(c)) : Stream(c)[i] < n
      BY <1>13, <3>1, <3>2
    <3>5. InOrder(Append(Stream(c), n)) /\ ToSet(Append(Stream(c), n)) = ToSet(Stream(c)) \cup {n}
      BY <1>1, <3>1, <3>2, <3>4, InOrderAppend
    <3>6. InOrder(Stream(c))' /\ ToSet(Stream(c))' = ToSet(Stream(c)) \cup {n}
      BY <3>3, <3>5 DEF InOrder, ToSet
    <3>7. n \notin missed[c]
      BY <1>1, <1>7, <1>14
    <3> QED  BY <1>8, <3>1, <3>6, <3>7
  <2> QED  BY <1>2, <1>4, <2>2, <2>3, <2>4 DEF ClientOK, Unregistered
<1>19. CASE Len(ch[c]) = Buffer + History /\ ch'[c] = ch[c] /\ missed'[c] = missed[c] \cup {n}
  <2>1. Channel(c)'
    <3>1. InOrder(ch[c])' /\ ToSet(ch[c])' = ToSet(ch[c])
      BY <1>12, <1>19 DEF InOrder, ToSet
    <3> QED  BY <1>1, <1>7, <1>8, <1>10, <1>12, <1>19, <3>1 DEF Channel
  <2>2. Missing(c)'
    <3> SUFFICES ASSUME NEW m \in missed[c] \cup {n}
                 PROVE  /\ m \in a..n
                        /\ Cardinality({k \in a..m - 1 : ShouldReceive(c, k)'}) >= Buffer + History
      BY <1>1, <1>7, <1>19 DEF Missing, Asked
    <3>a. {k \in a..m - 1 : ShouldReceive(c, k)'} = Asked(c, a, m - 1)
      BY <1>5 DEF Asked
    <3>1. CASE m \in missed[c]
      <4>1. m \in a..n
        BY <1>1, <1>7, <1>14, <3>1
      <4> QED  BY <1>14, <3>a, <3>1, <4>1
    <3>2. CASE m = n
      <4>1. IsFiniteSet(Asked(c, a, n - 1))
        BY <1>1, <1>7, AskedFinite
      <4>2. Len(ch[c]) <= Cardinality(Asked(c, a, n - 1))
        BY <1>3, <1>12, <4>1, CountInOrder
      <4>3. Cardinality(Asked(c, a, n - 1)) \in Nat
        BY <4>1, FS_CardinalityType
      <4>4. Cardinality(Asked(c, a, n - 1)) >= Buffer + History
        BY <1>19, <4>2, <4>3, RelayAssumption
      <4> QED  BY <1>1, <1>7, <3>a, <3>2, <4>4
    <3> QED  BY <3>1, <3>2
  <2>3. Streaming(c)'
    <3> SUFFICES ASSUME pump[c] # "done"
                 PROVE  /\ InOrder(Stream(c))'
                        /\ ToSet(Stream(c))' = Asked(c, a, n) \ (missed[c] \cup {n})
      BY <1>4, <1>10, <1>19 DEF Streaming
    <3>1. InOrder(Stream(c)) /\ ToSet(Stream(c)) = Asked(c, a, n - 1) \ missed[c]
      BY <1>2, <1>11 DEF Streaming
    <3>2. Stream(c)' = Stream(c)
      BY <1>16, <1>17, <1>19
    <3>3. InOrder(Stream(c))' /\ ToSet(Stream(c))' = ToSet(Stream(c))
      BY <3>1, <3>2 DEF InOrder, ToSet
    <3> QED  BY <1>8, <3>1, <3>3
  <2> QED  BY <1>2, <1>4, <2>1, <2>2, <2>3 DEF ClientOK, Unregistered
<1> QED  BY <1>15, <1>18, <1>19

\* The hub sends a message to the clients that asked for it.
LEMMA HeardStep ==
  ASSUME StreamInv, HubBroadcast PROVE StreamTypes' /\ \A c \in Clients : ClientOK(c)'
<1> DEFINE n == HeardCount + 1
           to == {c \in clients : ShouldReceive(c, n)}
<1>1. Head(queue) = n /\ HeardCount' = n /\ HeardCount \in Nat /\ n \in Nat
  BY NextHeard DEF StreamInv
<1>2. /\ ch' = [c \in Clients |-> IF c \in to THEN Accepted(c, <<n>>) ELSE ch[c]]
      /\ missed' = [c \in Clients |-> IF c \in to THEN Dropped(c, <<n>>) ELSE missed[c]]
      /\ UNCHANGED <<from, conn, wants, pump, inHand, got, svc, clients>>
  BY <1>1 DEF HubBroadcast
<1>3. clients \subseteq Clients
  BY DEF StreamInv, ClientsInv
<1> HIDE DEF n
<1>4. ASSUME NEW c \in Clients PROVE ch'[c] \in Seq(Nat) /\ missed'[c] \in SUBSET Nat
  <2>1. ch[c] \in Seq(Nat) /\ missed[c] \in SUBSET Nat
    BY DEF StreamInv, StreamTypes
  <2>2. CASE c \in to
    <3>1. ch'[c] = Accepted(c, <<n>>) /\ missed'[c] = Dropped(c, <<n>>) /\ c \in clients
      BY <1>2, <2>2
    <3>2. Len(ch[c]) <= Buffer + History
      BY <3>1 DEF StreamInv, ClientOK, Channel
    <3>3. \/ Accepted(c, <<n>>) = Append(ch[c], n) /\ Dropped(c, <<n>>) = missed[c]
          \/ Accepted(c, <<n>>) = ch[c] /\ Dropped(c, <<n>>) = missed[c] \cup {n}
      BY <1>1, <2>1, <3>2, OfferOne
    <3>4. Append(ch[c], n) \in Seq(Nat)
      BY <1>1, <2>1, AppendProperties
    <3> QED  BY <1>1, <2>1, <3>1, <3>3, <3>4
  <2>3. CASE c \notin to
    BY <1>2, <2>1, <2>3
  <2> QED  BY <2>2, <2>3
<1>5. StreamTypes'
  BY <1>2, <1>4 DEF StreamInv, StreamTypes
<1>6. ASSUME NEW c \in Clients PROVE ClientOK(c)'
  <2>1. CASE c \in to
    BY <2>1, HeardByOne DEF n
  <2>2. CASE c \notin clients
    <3>1. ch'[c] = ch[c] /\ missed'[c] = missed[c]
      BY <1>2, <2>2
    <3> QED  BY <1>2, <2>2, <3>1 DEF StreamInv, ClientOK, Idle, Unregistered
  <2>3. CASE c \in clients /\ ~ ShouldReceive(c, n)
    <3>1. ch'[c] = ch[c] /\ missed'[c] = missed[c]
      BY <1>2, <2>3
    <3>2. c \in Clients /\ conn[c] \notin Unregistered /\ Channel(c) /\ Missing(c) /\ Streaming(c)
      BY <2>3 DEF StreamInv, ClientsInv, ClientOK, Unregistered
    <3>3. PICK a : a = from[c]
      OBVIOUS
    <3>4. a \in Nat /\ a <= n /\ a \in 1..n + 1 /\ from'[c] = a /\ n - 1 = HeardCount
      BY <1>1, <1>2, <3>2, <3>3 DEF Channel, n, StreamInv, StreamTypes
    <3>5. Asked(c, a, n) = Asked(c, a, n - 1)
      <4>1. \A x, y \in Nat : x <= y /\ ~ ShouldReceive(c, y) => Asked(c, x, y) = Asked(c, x, y - 1)
        BY AskedNext
      <4> QED  BY <1>1, <2>3, <3>4, <4>1
    <3>6. \A k : ShouldReceive(c, k)' <=> ShouldReceive(c, k)
      BY <1>2 DEF ShouldReceive
    <3>7. Asked(c, from[c], HeardCount)' = Asked(c, from[c], HeardCount)
      <4>1. Asked(c, from[c], HeardCount)' = Asked(c, a, n)
        BY <1>1, <3>4, <3>6 DEF Asked
      <4> QED  BY <3>3, <3>4, <3>5, <4>1
    <3>8. Channel(c)'
      <4>1. InOrder(ch[c])' /\ ToSet(ch[c])' = ToSet(ch[c])
        BY <3>1, <3>2 DEF Channel, InOrder, ToSet
      <4> QED  BY <1>1, <3>1, <3>2, <3>4, <3>7, <4>1 DEF Channel
    <3>9. Missing(c)'
      <4> SUFFICES ASSUME NEW m \in missed[c]
                   PROVE  /\ m \in a..n
                          /\ Cardinality({k \in a..m - 1 : ShouldReceive(c, k)'}) >= Buffer + History
        BY <1>1, <3>1, <3>4 DEF Missing, Asked
      <4>1. {k \in a..m - 1 : ShouldReceive(c, k)'} = Asked(c, a, m - 1)
        BY <3>6 DEF Asked
      <4>2. m \in a..n - 1 /\ Cardinality(Asked(c, a, m - 1)) >= Buffer + History
        BY <3>2, <3>3, <3>4 DEF Missing
      <4>3. m \in a..n
        BY <1>1, <3>4, <4>2
      <4> QED  BY <4>1, <4>2, <4>3
    <3>10. Streaming(c)'
      <4>1. Stream(c)' = Stream(c)
        BY <1>2, <3>1 DEF Stream
      <4>2. InOrder(Stream(c))' = InOrder(Stream(c)) /\ ToSet(Stream(c))' = ToSet(Stream(c))
        BY <4>1 DEF InOrder, ToSet
      <4> QED  BY <1>2, <3>1, <3>2, <3>7, <4>2 DEF Streaming
    <3> QED  BY <1>2, <3>2, <3>8, <3>9, <3>10 DEF ClientOK, Unregistered
  <2> QED  BY <2>1, <2>2, <2>3
<1> QED  BY <1>5, <1>6

\* A message is queued: what the clients have stays the same.
LEMMA QueuedStep ==
  ASSUME StreamInv, Broadcast PROVE StreamTypes' /\ \A c \in Clients : ClientOK(c)'
<1>1. PICK s \in Services : svc' = Append(svc, s)
  BY DEF Broadcast
<1>2. queue' = Append(queue, Len(svc) + 1) /\ UNCHANGED <<clients, chanVars, connVars, pumpVars>>
  BY DEF Broadcast
<1>3. /\ queue \in Seq(Nat) /\ svc \in Seq(Services) /\ Len(queue) \in Nat /\ Len(svc) \in Nat
      /\ HeardCount \in Nat
  BY LenProperties DEF StreamInv, HistoryInv, Queued
<1>4. /\ Len(svc') = Len(svc) + 1 /\ Len(queue') = Len(queue) + 1
      /\ \A k \in 1..Len(svc) : svc'[k] = svc[k]
  BY <1>1, <1>2, <1>3, AppendProperties
<1>5. HeardCount' = HeardCount /\ HeardCount <= Len(svc)
  BY <1>3, <1>4 DEF HeardCount
<1>6. StreamTypes'
  BY <1>2 DEF StreamInv, StreamTypes
<1>7. ASSUME NEW c \in Clients PROVE ClientOK(c)'
  <2>1. \A k \in 1..HeardCount : svc'[k] = svc[k]
    BY <1>3, <1>4, <1>5
  <2>2. SameAsked(c)
    BY <1>2, <1>5, <2>1 DEF SameAsked, ShouldReceive
  <2> QED  BY <1>2, <1>3, <2>2, ClientKept DEF StreamInv
<1> QED  BY <1>6, <1>7

\* Clients are forgotten, dial, are accepted or go away.
LEMMA FlowKept ==
  ASSUME StreamInv, UNCHANGED <<queue, svc, ch, from, missed, wants, pump, inHand, got>>,
         clients' \subseteq clients,
         \A c \in Clients : conn'[c] \in Unregistered => conn[c] \in Unregistered
  PROVE  StreamTypes' /\ \A c \in Clients : ClientOK(c)'
<1>1. StreamTypes'
  BY DEF StreamInv, StreamTypes
<1>2. ASSUME NEW c \in Clients PROVE ClientOK(c)'
  <2>1. SameAsked(c)
    BY AskedUnheard
  <2> QED  BY <2>1, ClientKept DEF StreamInv, HistoryInv, Queued
<1> QED  BY <1>1, <1>2

\* The subscription of a client arrives, which has nothing yet.
LEMMA ReadStep ==
  ASSUME StreamInv, NEW c \in Clients, ReadRequest(c)
  PROVE  StreamTypes' /\ \A d \in Clients : ClientOK(d)'
<1>1. /\ conn[c] = "reading" /\ conn' = [conn EXCEPT ![c] = "register"]
      /\ pump' = [pump EXCEPT ![c] = "take"]
      /\ UNCHANGED <<queue, svc, clients, ch, from, missed, inHand, got>>
  BY DEF ReadRequest
<1>2. PICK S \in Requests : wants' = [wants EXCEPT ![c] = S]
  BY DEF ReadRequest
<1>3. c \notin clients /\ Idle(c)
  BY <1>1 DEF StreamInv, ClientsInv, ClientOK, Unregistered
<1>4. StreamTypes'
  BY <1>1, <1>2 DEF StreamInv, StreamTypes
<1>5. pump'[c] = "take"
  BY <1>1 DEF StreamInv, StreamTypes
<1>6. ClientOK(c)'
  BY <1>1, <1>3, <1>5 DEF ClientOK, Idle
<1>7. \A d \in Clients : d # c =>
        UNCHANGED <<ch[d], from[d], missed[d], got[d], inHand[d], pump[d], wants[d], conn[d]>>
  BY <1>1, <1>2 DEF StreamInv, StreamTypes, ClientsInv
<1> QED  BY <1>1, <1>4, <1>6, <1>7, OthersKept

\* The pump takes and writes messages, and ends: the stream stays the same.
LEMMA PumpKeeps ==
  ASSUME StreamInv, NEW c \in Clients, PumpStep(c)
  PROVE  StreamTypes' /\ \A d \in Clients : ClientOK(d)'
<1>1. UNCHANGED <<queue, svc, clients, from, missed, conn, wants>>
  BY DEF PumpStep, PumpTake, PumpWrite, PumpFails, PumpEnds
<1>2. /\ ch[c] \in Seq(Nat) /\ got[c] \in Seq(Nat) /\ inHand[c] \in Nat
      /\ HeardCount \in Nat /\ ClientOK(c) /\ SameAsked(c)
  BY <1>1, AskedUnheard DEF StreamInv, StreamTypes, HistoryInv, Queued
<1>3. ASSUME UNCHANGED <<ch, inHand, got>>, pump' = [pump EXCEPT ![c] = "done"]
      PROVE  StreamTypes' /\ \A d \in Clients : ClientOK(d)'
  <2>1. StreamTypes'
    BY <1>1, <1>3 DEF StreamInv, StreamTypes
  <2>2. pump'[c] = "done"
    BY <1>3 DEF StreamInv, StreamTypes
  <2>3. Streaming(c)'
    BY <2>2 DEF Streaming
  <2>4. c \in clients => Channel(c)' /\ Missing(c)'
    BY <1>1, <1>2, <1>3, ChannelKept DEF ClientOK
  <2>5. conn[c] \in Unregistered => Idle(c)'
    BY <1>1, <1>2, <1>3, <2>2 DEF ClientOK, Idle
  <2>6. ClientOK(c)'
    BY <1>1, <2>3, <2>4, <2>5 DEF ClientOK, Unregistered
  <2>7. \A d \in Clients : d # c =>
          UNCHANGED <<ch[d], from[d], missed[d], got[d], inHand[d], pump[d], wants[d], conn[d]>>
    BY <1>1, <1>3 DEF StreamInv, StreamTypes
  <2> QED  BY <1>1, <2>1, <2>6, <2>7, OthersKept
<1>4. CASE PumpFails(c) \/ PumpEnds(c)
  BY <1>3, <1>4 DEF PumpFails, PumpEnds
<1>5. CASE PumpTake(c)
  <2>1. /\ pump[c] = "take" /\ ch[c] # <<>>
        /\ inHand' = [inHand EXCEPT ![c] = Head(ch[c])]
        /\ ch' = [ch EXCEPT ![c] = Tail(ch[c])]
        /\ pump' = [pump EXCEPT ![c] = "write"]
        /\ UNCHANGED <<missed, got>>
    BY <1>5 DEF PumpTake
  <2>2. Head(ch[c]) \in Nat /\ Tail(ch[c]) \in Seq(Nat)
    BY <1>2, <2>1, HeadTailProperties
  <2>3. StreamTypes'
    BY <1>1, <2>1, <2>2 DEF StreamInv, StreamTypes
  <2>4. /\ ch'[c] = Tail(ch[c]) /\ inHand'[c] = Head(ch[c]) /\ pump'[c] = "write"
        /\ \A d \in Clients : d # c =>
             UNCHANGED <<ch[d], from[d], missed[d], got[d], inHand[d], pump[d], wants[d], conn[d]>>
    BY <1>1, <2>1 DEF StreamInv, StreamTypes
  <2>5. conn[c] \notin Unregistered
    BY <1>2, <2>1 DEF ClientOK, Idle
  <2>6. Stream(c)' = Stream(c)
    <3>1. (got[c] \o <<>>) \o ch[c] = (got[c] \o <<Head(ch[c])>>) \o Tail(ch[c])
      BY <1>2, <2>1, TakeMoves
    <3> QED  BY <2>1, <2>4, <3>1 DEF Stream
  <2>7. ASSUME c \in clients PROVE Channel(c)' /\ Missing(c)' /\ Streaming(c)'
    <3>1. Channel(c) /\ Missing(c) /\ Streaming(c) /\ pump[c] # "done"
      BY <1>2, <2>1, <2>7 DEF ClientOK
    <3>2. Streaming(c)'
      BY <1>1, <1>2, <2>6, <3>1, StreamKept
    <3>3. /\ InOrder(Tail(ch[c])) /\ Len(Tail(ch[c])) <= Len(ch[c]) /\ ToSet(Tail(ch[c])) \subseteq ToSet(ch[c])
      BY <1>2, <2>1, <3>1, InOrderTail DEF Channel
    <3>4. Asked(c, from[c], HeardCount)' = Asked(c, from[c], HeardCount) /\ HeardCount' = HeardCount
      BY <1>1 DEF Asked, ShouldReceive, HeardCount
    <3>5. Channel(c)'
      <4>1. InOrder(ch[c])' /\ ToSet(ch[c])' = ToSet(Tail(ch[c]))
        BY <2>4, <3>3 DEF InOrder, ToSet
      <4>2. Len(ch'[c]) <= Buffer + History
        BY <1>2, <2>2, <2>4, <3>1, <3>3, LenProperties, RelayAssumption DEF Channel
      <4> QED  BY <1>1, <3>1, <3>3, <3>4, <4>1, <4>2 DEF Channel
    <3>6. Missing(c)'
      BY <1>1, <3>1, <3>4 DEF Missing, Asked, ShouldReceive
    <3> QED  BY <3>2, <3>5, <3>6
  <2>8. ClientOK(c)'
    BY <1>1, <2>5, <2>7 DEF ClientOK, Unregistered
  <2> QED  BY <1>1, <2>3, <2>4, <2>8, OthersKept
<1>6. CASE PumpWrite(c)
  <2>1. /\ pump[c] = "write"
        /\ got' = [got EXCEPT ![c] = Append(got[c], inHand[c])]
        /\ inHand' = [inHand EXCEPT ![c] = 0]
        /\ pump' = [pump EXCEPT ![c] = "take"]
        /\ UNCHANGED <<ch, missed>>
    BY <1>6 DEF PumpWrite
  <2>2. Append(got[c], inHand[c]) \in Seq(Nat)
    BY <1>2, AppendProperties
  <2>3. StreamTypes'
    BY <1>1, <2>1, <2>2 DEF StreamInv, StreamTypes
  <2>4. /\ got'[c] = Append(got[c], inHand[c]) /\ pump'[c] = "take"
        /\ \A d \in Clients : d # c =>
             UNCHANGED <<ch[d], from[d], missed[d], got[d], inHand[d], pump[d], wants[d], conn[d]>>
    BY <1>1, <2>1 DEF StreamInv, StreamTypes
  <2>5. conn[c] \notin Unregistered
    BY <1>2, <2>1 DEF ClientOK, Idle
  <2>6. Stream(c)' = Stream(c)
    <3>1. (got[c] \o <<inHand[c]>>) \o ch[c] = (Append(got[c], inHand[c]) \o <<>>) \o ch[c]
      BY <1>2, WriteMoves
    <3> QED  BY <2>1, <2>4, <3>1 DEF Stream
  <2>7. c \in clients => Channel(c)' /\ Missing(c)' /\ Streaming(c)'
    BY <1>1, <1>2, <2>1, <2>6, ChannelKept, StreamKept DEF ClientOK
  <2>8. ClientOK(c)'
    BY <1>1, <2>5, <2>7 DEF ClientOK, Unregistered
  <2> QED  BY <1>1, <2>3, <2>4, <2>8, OthersKept
<1> QED  BY <1>4, <1>5, <1>6 DEF PumpStep

\* Every step keeps what the clients have.
LEMMA StreamPreserved == StreamInv /\ [Next]_vars => StreamInv'
<1> SUFFICES ASSUME StreamInv, [Next]_vars PROVE StreamInv'
  OBVIOUS
<1>1. HistoryInv' /\ ClientsInv'
  BY HistoryPreserved, ClientsPreserved DEF StreamInv
<1> SUFFICES StreamTypes' /\ \A c \in Clients : ClientOK(c)'
  BY <1>1 DEF StreamInv
<1>c. DOMAIN conn = Clients
  BY DEF StreamInv, ClientsInv
<1>2. CASE HubBroadcast
  BY <1>2, HeardStep
<1>3. CASE Broadcast
  BY <1>3, QueuedStep
<1>4. CASE HubDone
  BY <1>4, FlowKept DEF HubDone, Discard
<1>5. ASSUME NEW c \in Clients, HubRegister(c) PROVE StreamTypes' /\ \A d \in Clients : ClientOK(d)'
  BY <1>5, RegisterStep
<1>6. ASSUME NEW c \in Clients, HubUnregister(c) PROVE StreamTypes' /\ \A d \in Clients : ClientOK(d)'
  <2>1. conn[c] = "unregister" /\ conn' = [conn EXCEPT ![c] = "gone"] /\ clients' \subseteq clients
        /\ UNCHANGED <<queue, svc, ch, from, missed, wants, pump, inHand, got>>
    BY <1>6 DEF HubUnregister, Discard
  <2>2. \A d \in Clients : conn'[d] \in Unregistered => conn[d] \in Unregistered
    BY <1>c, <2>1 DEF Unregistered
  <2> QED  BY <2>1, <2>2, FlowKept
<1>7. CASE Activate \/ GiveUp \/ Spawn \/ RootCancel \/ StopBegin \/ StopReturn \/ AcceptorCheck \/ AcceptFails
  BY <1>7, FlowKept
     DEF Activate, GiveUp, Spawn, RootCancel, StopBegin, StopReturn, AcceptorCheck, AcceptFails
<1>8. CASE StopClose
  <2>1. conn' = [c \in Clients |-> IF conn[c] = "dialled" THEN "gone" ELSE conn[c]]
        /\ UNCHANGED <<queue, svc, clients, ch, from, missed, wants, pump, inHand, got>>
    BY <1>8 DEF StopClose
  <2>2. \A d \in Clients : conn'[d] \in Unregistered => conn[d] \in Unregistered
    BY <2>1 DEF Unregistered
  <2> QED  BY <2>1, <2>2, FlowKept
<1>9. ASSUME NEW c \in Clients, Accept(c) \/ ReadFails(c) \/ HandlerStep(c) \/ Dial(c)
      PROVE  StreamTypes' /\ \A d \in Clients : ClientOK(d)'
  <2>1. UNCHANGED <<queue, svc, clients, ch, from, missed, wants, pump, inHand, got>>
    BY <1>9 DEF Accept, ReadFails, HandlerStep, RegisterSkipped, PumpEnded, UnregisterSkipped, Dial
  <2>2. \/ conn[c] \in Unregistered /\ \A d \in Clients : d # c => conn'[d] = conn[d]
        \/ conn'[c] \notin Unregistered /\ \A d \in Clients : d # c => conn'[d] = conn[d]
    BY <1>9, <1>c
       DEF Accept, ReadFails, HandlerStep, RegisterSkipped, PumpEnded, UnregisterSkipped, Dial, Unregistered
  <2>3. \A d \in Clients : conn'[d] \in Unregistered => conn[d] \in Unregistered
    BY <2>2
  <2> QED  BY <2>1, <2>3, FlowKept
<1>10. ASSUME NEW c \in Clients, ReadRequest(c) PROVE StreamTypes' /\ \A d \in Clients : ClientOK(d)'
  BY <1>10, ReadStep
<1>11. ASSUME NEW c \in Clients, PumpStep(c) PROVE StreamTypes' /\ \A d \in Clients : ClientOK(d)'
  BY <1>11, PumpKeeps
<1>12. CASE UNCHANGED vars
  BY <1>12, FlowKept DEF vars
<1> QED  BY <1>2, <1>3, <1>4, <1>5, <1>6, <1>7, <1>8, <1>9, <1>10, <1>11, <1>12
         DEF Next, HubStep, StopStep, AcceptorStep

\* At first nobody is connected.
LEMMA InitStream == Init => StreamInv
<1> SUFFICES ASSUME Init PROVE StreamInv
  OBVIOUS
<1>1. HistoryInv
  BY InitHistory
<1>2. ClientsInv
  BY DEF Init, ClientsInv
<1>3. StreamTypes
  BY DEF Init, StreamTypes
<1>4. \A c \in Clients : ClientOK(c)
  BY DEF Init, ClientOK, Idle
<1> QED  BY <1>1, <1>2, <1>3, <1>4 DEF StreamInv

\* What a client has at any time is due to it or written, and nothing else.
LEMMA StreamInvariant == Spec => []StreamInv
<1>1. StreamInv /\ [Next]_vars => StreamInv'
  BY StreamPreserved
<1> QED  BY <1>1, InitStream, PTL DEF Spec

\* A registered client gets the history and then every message it subscribed to,
\* each once and in order across the seam, except what found its channel full:
\* for any clients, subscriptions and capacities (hub.go:164-200).
THEOREM RelayStream == Spec => []StreamExact
<1>1. StreamInv => StreamExact
  <2> SUFFICES ASSUME StreamInv, NEW c \in clients, pump[c] # "done"
               PROVE  InOrder(Stream(c)) /\ ToSet(Stream(c)) = Due(c)
    BY DEF StreamExact
  <2>1. Streaming(c)
    BY DEF StreamInv, ClientsInv, ClientOK
  <2>2. Heard = HeardCount
    BY HeardIsCount DEF StreamInv
  <2> QED  BY <2>1, <2>2 DEF Streaming, Due, Asked
<1> QED  BY <1>1, StreamInvariant, PTL

\* No message is missed before the client has a channel full of earlier ones to
\* read: the replay of the whole history always fits (server.go:215).
THEOREM RelayReplay == Spec => []ReplayWhole
<1>1. StreamInv => ReplayWhole
  <2> SUFFICES ASSUME StreamInv, NEW c \in clients, NEW n \in missed[c]
               PROVE  Cardinality({k \in from[c]..n - 1 : ShouldReceive(c, k)}) >= Buffer + History
    BY DEF ReplayWhole
  <2>1. Missing(c)
    BY DEF StreamInv, ClientsInv, ClientOK
  <2> QED  BY <2>1 DEF Missing, Asked
<1> QED  BY <1>1, StreamInvariant, PTL

-----------------------------------------------------------------------------
(* Stop *)

\* The server, its loops and Stop: where one is, the others are or have been.
ServerInv ==
  /\ running \in BOOLEAN /\ ctxDone \in BOOLEAN
  /\ server \in {"waiting", "listening", "serving", "ended"}
  /\ acceptor \in {"off", "check", "accept", "done"} /\ hub \in {"off", "loop", "done"}
  /\ listener \in {"none", "open", "closed"} /\ stop \in {"idle", "close", "wait", "returned"}
  /\ server = "serving" <=> acceptor # "off"
  /\ server = "serving" <=> hub # "off"
  /\ listener = "none" <=> server \in {"waiting", "ended"}
  /\ running => listener = "open"
  /\ stop # "idle" => ctxDone
  /\ stop = "close" => listener = "open" /\ ~running
  /\ stop = "wait" => listener = "closed"
  /\ listener = "closed" => stop \in {"wait", "returned"} /\ ~running
  /\ stop = "returned" /\ listener = "closed" => acceptor # "accept"

\* A connection, its handler and its pump
HandlerOK(c) ==
  /\ conn[c] = "dialled" => listener = "open"
  /\ conn[c] \in {"reading", "register", "serving", "unregister"} => server = "serving"
  /\ conn[c] \in {"off", "dialled", "reading"} => pump[c] = "off"
  /\ conn[c] \in {"register", "serving"} => pump[c] \in {"take", "write", "done"}
  /\ conn[c] = "unregister" => pump[c] = "done"
  /\ conn[c] = "gone" => pump[c] \in {"off", "done"}
  /\ stop = "returned" /\ listener = "closed" => conn[c] \in {"off", "gone"}

HandlerTypes ==
  /\ conn \in [Clients -> {"off", "dialled", "reading", "register", "serving", "unregister", "gone"}]
  /\ pump \in [Clients -> {"off", "take", "write", "done"}]

StopInv == ServerInv /\ HandlerTypes /\ \A c \in Clients : HandlerOK(c)

\* A step of the server, the acceptor or Stop that leaves the connections alone
LEMMA ServerStep ==
  ASSUME StopInv, UNCHANGED <<conn, pump>>, ServerInv',
         server = "serving" => server' = "serving",
         listener = "open" => listener' = "open",
         stop' = "returned" /\ listener' = "closed" => (stop = "returned" /\ listener = "closed") \/ Waited
  PROVE  StopInv'
<1>1. ASSUME NEW c \in Clients PROVE HandlerOK(c)'
  <2>1. stop = "wait" => conn[c] # "dialled"
    BY DEF StopInv, ServerInv, HandlerOK
  <2>2. HandlerOK(c)
    BY DEF StopInv
  <2>3. stop' = "returned" /\ listener' = "closed" => conn[c] \in {"off", "gone", "dialled"}
    BY <2>2 DEF HandlerOK, Waited
  <2>4. conn[c] = "dialled" => listener' = "open"
    BY <2>2 DEF HandlerOK
  <2> QED  BY <2>2, <2>3, <2>4 DEF HandlerOK
<1> QED  BY <1>1 DEF StopInv, HandlerTypes

\* A connection goes on, and its pump may.
LEMMA HandlerStepKeeps ==
  ASSUME StopInv, NEW c \in Clients, UNCHANGED serverVars, NEW x, NEW y,
         conn' = [conn EXCEPT ![c] = x], pump' = [pump EXCEPT ![c] = y],
         x \in {"off", "dialled", "reading", "register", "serving", "unregister", "gone"},
         y \in {"off", "take", "write", "done"}, hub' = hub, HandlerOK(c)'
  PROVE  StopInv'
<1>1. conn'[c] = x /\ pump'[c] = y
  BY DEF StopInv, HandlerTypes
<1>2. ASSUME NEW d \in Clients, d # c PROVE HandlerOK(d)'
  <2>1. conn'[d] = conn[d] /\ pump'[d] = pump[d]
    BY <1>2 DEF StopInv, HandlerTypes
  <2> QED  BY <2>1 DEF StopInv, HandlerOK
<1>3. HandlerTypes'
  BY DEF StopInv, HandlerTypes
<1>4. ServerInv'
  BY DEF StopInv, ServerInv
<1> QED  BY <1>2, <1>3, <1>4 DEF StopInv

\* The hub's steps; those of the server and of Stop.
LEMMA StopHub ==
  ASSUME StopInv, HubStep PROVE StopInv'
<1>1. CASE HubBroadcast
  BY <1>1 DEF HubBroadcast, StopInv, ServerInv, HandlerTypes, HandlerOK
<1>2. CASE HubDone
  BY <1>2 DEF HubDone, StopInv, ServerInv, HandlerTypes, HandlerOK
<1>3. ASSUME NEW c \in Clients, HubRegister(c) PROVE StopInv'
  <2>1. pump' = [pump EXCEPT ![c] = pump[c]] /\ conn[c] = "register" /\ hub' = hub
        /\ UNCHANGED serverVars /\ conn' = [conn EXCEPT ![c] = "serving"] /\ pump' = pump
    BY <1>3 DEF HubRegister, StopInv, HandlerTypes
  <2>2. HandlerOK(c)' /\ pump[c] \in {"off", "take", "write", "done"}
    BY <2>1 DEF StopInv, HandlerTypes, HandlerOK
  <2> QED  BY <2>1, <2>2, HandlerStepKeeps
<1>4. ASSUME NEW c \in Clients, HubUnregister(c) PROVE StopInv'
  <2>1. pump' = [pump EXCEPT ![c] = pump[c]] /\ conn[c] = "unregister" /\ hub' = hub
        /\ UNCHANGED serverVars /\ conn' = [conn EXCEPT ![c] = "gone"] /\ pump' = pump
    BY <1>4 DEF HubUnregister, StopInv, HandlerTypes
  <2>2. HandlerOK(c)' /\ pump[c] \in {"off", "take", "write", "done"}
    BY <2>1 DEF StopInv, HandlerTypes, HandlerOK
  <2> QED  BY <2>1, <2>2, HandlerStepKeeps
<1> QED  BY <1>1, <1>2, <1>3, <1>4 DEF HubStep

LEMMA StopServer ==
  ASSUME StopInv, Activate \/ GiveUp \/ Spawn \/ RootCancel \/ StopBegin \/ StopStep
  PROVE  StopInv'
<1>1. CASE Activate \/ GiveUp \/ Spawn \/ RootCancel \/ StopBegin
  <2>1. ServerInv'
    <3>1. CASE Activate
      <4>1. /\ listener = "none" /\ acceptor = "off" /\ hub = "off" /\ stop \in {"idle", "returned"}
            /\ (stop # "idle" => ctxDone)
        BY <3>1 DEF Activate, StopInv, ServerInv
      <4>2. /\ listener' = "open" /\ running' = TRUE /\ server' = "listening"
            /\ UNCHANGED <<ctxDone, acceptor, hub, stop>> /\ ctxDone \in BOOLEAN
        BY <3>1 DEF Activate, StopInv, ServerInv
      <4> QED  BY <4>1, <4>2 DEF ServerInv
    <3>2. CASE GiveUp
      BY <3>2 DEF GiveUp, StopInv, ServerInv
    <3>3. CASE Spawn
      BY <3>3 DEF Spawn, StopInv, ServerInv
    <3>4. CASE RootCancel
      BY <3>4 DEF RootCancel, StopInv, ServerInv
    <3>5. CASE StopBegin
      BY <3>5 DEF StopBegin, StopInv, ServerInv
    <3> QED  BY <1>1, <3>1, <3>2, <3>3, <3>4, <3>5
  <2>2. /\ UNCHANGED <<conn, pump>> /\ (server = "serving" => server' = "serving")
        /\ (listener = "open" => listener' = "open")
        /\ (stop' = "returned" /\ listener' = "closed" => stop = "returned" /\ listener = "closed")
    BY <1>1 DEF Activate, GiveUp, Spawn, RootCancel, StopBegin, StopInv, ServerInv
  <2> QED  BY <2>1, <2>2, ServerStep
<1>2. CASE StopReturn
  <2>1. ServerInv'
    BY <1>2 DEF StopReturn, Waited, StopInv, ServerInv
  <2>2. Waited /\ UNCHANGED <<conn, pump, server, listener>>
    BY <1>2 DEF StopReturn
  <2> QED  BY <2>1, <2>2, ServerStep
<1>3. CASE StopClose
  <2>1. ServerInv'
    BY <1>3 DEF StopClose, StopInv, ServerInv
  <2>2. /\ conn' = [c \in Clients |-> IF conn[c] = "dialled" THEN "gone" ELSE conn[c]]
        /\ UNCHANGED <<pump, server>> /\ stop' = "wait"
    BY <1>3 DEF StopClose
  <2>3. HandlerTypes'
    BY <2>2 DEF StopInv, HandlerTypes
  <2>4. ASSUME NEW c \in Clients PROVE HandlerOK(c)'
    <3>1. conn'[c] = IF conn[c] = "dialled" THEN "gone" ELSE conn[c]
      BY <2>2
    <3> QED  BY <2>2, <3>1 DEF StopInv, HandlerOK
  <2> QED  BY <2>1, <2>3, <2>4 DEF StopInv
<1> QED  BY <1>1, <1>2, <1>3 DEF StopStep

\* The acceptor's.
LEMMA StopAcceptor ==
  ASSUME StopInv, AcceptorStep PROVE StopInv'
<1>1. CASE AcceptorCheck \/ AcceptFails
  <2>1. ServerInv'
    BY <1>1 DEF AcceptorCheck, AcceptFails, StopInv, ServerInv
  <2>2. UNCHANGED <<conn, pump, server, listener, stop>>
    BY <1>1 DEF AcceptorCheck, AcceptFails
  <2> QED  BY <2>1, <2>2, ServerStep
<1>2. ASSUME NEW c \in Clients, Accept(c) PROVE StopInv'
  <2>1. /\ acceptor = "accept" /\ acceptor' = "check" /\ conn[c] = "dialled" /\ listener = "open"
        /\ conn' = [conn EXCEPT ![c] = "reading"]
        /\ UNCHANGED <<running, listener, ctxDone, server, stop, hub, pump>>
    BY <1>2 DEF Accept
  <2>2. ServerInv'
    BY <2>1 DEF StopInv, ServerInv
  <2>3. HandlerTypes'
    BY <2>1 DEF StopInv, HandlerTypes
  <2>4. ASSUME NEW d \in Clients PROVE HandlerOK(d)'
    <3>1. conn'[d] = IF d = c THEN "reading" ELSE conn[d]
      BY <2>1 DEF StopInv, HandlerTypes
    <3> QED  BY <2>1, <3>1 DEF StopInv, ServerInv, HandlerOK
  <2> QED  BY <2>2, <2>3, <2>4 DEF StopInv
<1> QED  BY <1>1, <1>2 DEF AcceptorStep

\* Those of a connection, its handler and its pump.
LEMMA StopHandler ==
  ASSUME StopInv, NEW c \in Clients,
         ReadRequest(c) \/ ReadFails(c) \/ HandlerStep(c) \/ PumpStep(c) \/ Dial(c)
  PROVE  StopInv'
<1> DEFINE x == conn'[c]
           y == pump'[c]
<1>t. HandlerTypes /\ HandlerOK(c)
  BY DEF StopInv
<1>1. UNCHANGED serverVars /\ hub' = hub
  BY DEF ReadRequest, ReadFails, HandlerStep, RegisterSkipped, PumpEnded, UnregisterSkipped, PumpStep, PumpTake,
         PumpWrite, PumpFails, PumpEnds, Dial
<1>2. CASE ReadRequest(c) \/ ReadFails(c) \/ HandlerStep(c) \/ Dial(c)
  <2>1. /\ conn' = [conn EXCEPT ![c] = x] /\ pump' = [pump EXCEPT ![c] = y]
        /\ x \in {"off", "dialled", "reading", "register", "serving", "unregister", "gone"}
        /\ y \in {"off", "take", "write", "done"}
    BY <1>t, <1>2 DEF HandlerTypes, ReadRequest, ReadFails, HandlerStep, RegisterSkipped, PumpEnded,
                      UnregisterSkipped, Dial
  <2>2. HandlerOK(c)'
    BY <1>t, <1>1, <1>2 DEF HandlerTypes, HandlerOK, ReadRequest, ReadFails, HandlerStep, RegisterSkipped,
                      PumpEnded, UnregisterSkipped, Dial
  <2> QED  BY <1>1, <2>1, <2>2, HandlerStepKeeps
<1>3. CASE PumpStep(c)
  <2>1. /\ conn' = conn /\ pump[c] \in {"take", "write"}
        /\ pump' = [pump EXCEPT ![c] = y] /\ y \in {"take", "write", "done"}
    BY <1>t, <1>3 DEF HandlerTypes, PumpStep, PumpTake, PumpWrite, PumpFails, PumpEnds
  <2>2. conn' = [conn EXCEPT ![c] = x]
        /\ x \in {"off", "dialled", "reading", "register", "serving", "unregister", "gone"}
    BY <1>t, <2>1 DEF HandlerTypes
  <2>3. HandlerOK(c)'
    BY <1>t, <1>1, <2>1 DEF HandlerTypes, HandlerOK
  <2> QED  BY <1>1, <2>1, <2>2, <2>3, HandlerStepKeeps
<1> QED  BY <1>2, <1>3

LEMMA StopPreserved == StopInv /\ [Next]_vars => StopInv'
<1> SUFFICES ASSUME StopInv, [Next]_vars PROVE StopInv'
  OBVIOUS
<1>1. CASE Broadcast \/ UNCHANGED vars
  BY <1>1 DEF Broadcast, vars, StopInv, ServerInv, HandlerTypes, HandlerOK
<1> QED  BY <1>1, StopHub, StopServer, StopAcceptor, StopHandler DEF Next

LEMMA StopInvariant == Spec => []StopInv
<1>1. Init => StopInv
  BY DEF Init, StopInv, ServerInv, HandlerTypes, HandlerOK
<1> QED  BY <1>1, StopPreserved, PTL DEF Spec

\* Stop that waited has returned.
StopDone == stop = "returned" /\ listener = "closed"

\* The acceptor takes nobody, no handler and no pump is at work, the hub has no client.
QuietAfterStop ==
  StopDone => /\ acceptor # "accept" /\ clients = {}
              /\ \A c \in Clients : conn[c] \in {"off", "gone"} /\ pump[c] \in {"off", "done"}

\* That lasts: no connection comes, and no handler, pump or client begins.
StaysQuiet == [][StopDone => StopDone' /\ UNCHANGED <<connVars, pumpVars, clients>>]_vars

\* No step changes the peace.
LEMMA QuietStep ==
  ASSUME StopInv, QuietAfterStop, StopDone, Next
  PROVE  StopDone' /\ UNCHANGED <<connVars, pumpVars, clients>>
<1> USE DEF StopDone, QuietAfterStop, connVars, pumpVars, serverVars, hubVars
<1>1. CASE HubStep
  BY <1>1 DEF HubStep, HubBroadcast, HubDone, Discard, HubRegister, HubUnregister
<1>2. CASE Broadcast
  BY <1>2 DEF Broadcast
<1>3. CASE Activate \/ GiveUp \/ Spawn
  BY <1>3 DEF Activate, GiveUp, Spawn, StopInv, ServerInv
<1>4. CASE RootCancel \/ StopBegin \/ StopStep
  BY <1>4 DEF RootCancel, StopBegin, StopStep, StopClose, StopReturn
<1>5. CASE AcceptorStep
  BY <1>5 DEF AcceptorStep, AcceptorCheck, Accept, AcceptFails
<1>6. ASSUME NEW c \in Clients,
             ReadRequest(c) \/ ReadFails(c) \/ HandlerStep(c) \/ PumpStep(c) \/ Dial(c)
      PROVE  FALSE
  BY <1>6 DEF ReadRequest, ReadFails, HandlerStep, RegisterSkipped, PumpEnded, UnregisterSkipped,
              PumpStep, PumpTake, PumpWrite, PumpFails, PumpEnds, Dial
<1> QED  BY <1>1, <1>2, <1>3, <1>4, <1>5, <1>6 DEF Next

\* Once Stop has waited and returned, no handler or pump is at work, the hub has no
\* client and nobody is accepted, although connections were being accepted, read and
\* registered when it began; and no later step changes that, the start of a hub and an
\* acceptor that Run had not come to included (server.go:127-163, 165-187).
THEOREM RelayQuietAfterStop == Spec => []QuietAfterStop /\ StaysQuiet
<1>1. StopInv /\ ClientsInv => QuietAfterStop
  BY DEF StopInv, HandlerOK, ServerInv, ClientsInv, QuietAfterStop, StopDone
<1>2. Spec => []ClientsInv
  <2>1. Init => ClientsInv
    BY DEF Init, ClientsInv
  <2> QED  BY <2>1, ClientsPreserved, PTL DEF Spec
<1>3. StopInv /\ QuietAfterStop /\ [Next]_vars
      => [StopDone => StopDone' /\ UNCHANGED <<connVars, pumpVars, clients>>]_vars
  BY QuietStep
<1> QED  BY <1>1, <1>2, <1>3, StopInvariant, PTL DEF Spec, StaysQuiet

\* Whoever Stop waits for has a step to take, but for a handler that reads its peer's
\* request: the acceptor finds the listener closed and the hub the context ended;
\* registering and unregistering find the hub or its end; and a handler that waits for
\* its pump finds one, which ends with the context, with a write or has ended.
StopUnblocked ==
  stop = "wait" =>
    /\ ctxDone /\ listener = "closed"
    /\ \A c \in Clients : /\ conn[c] \in {"register", "unregister"} => hub \in {"loop", "done"}
                          /\ conn[c] = "serving" => pump[c] \in {"take", "write", "done"}

\* While Stop waits nobody new is dialled or accepted; a handler, the acceptor and the
\* hub only go forward, so that each such step brings the end closer.
HandlerForward ==
  {<<"reading", "register">>, <<"reading", "gone">>, <<"register", "serving">>,
   <<"serving", "unregister">>, <<"unregister", "gone">>}

OnlyForward ==
  /\ \A c \in Clients : conn'[c] = conn[c] \/ <<conn[c], conn'[c]>> \in HandlerForward
  /\ acceptor' = acceptor \/ <<acceptor, acceptor'>> \in {<<"off", "check">>, <<"accept", "check">>, <<"check", "done">>}
  /\ hub' = hub \/ <<hub, hub'>> \in {<<"off", "loop">>, <<"loop", "done">>}

StopWorksOff == [][stop = "wait" => OnlyForward]_vars

\* Stop waits for nobody who waits for somebody else for ever, and what it waits for
\* gets less: the part of StopReturns that needs no fairness (server.go:165-187,
\* hub.go:112-126).
THEOREM RelayStopUnblocked == Spec => []StopUnblocked /\ StopWorksOff
<1>1. StopInv => StopUnblocked
  BY DEF StopInv, ServerInv, HandlerOK, StopUnblocked
<1> DEFINE A == stop = "wait" => OnlyForward
<1>2. StopInv /\ [Next]_vars => [A]_vars
  <2> SUFFICES ASSUME StopInv, Next, stop = "wait" PROVE OnlyForward
    OBVIOUS
  <2>1. listener = "closed" /\ ~running /\ HandlerTypes
    BY DEF StopInv, ServerInv
  <2>2. \A c \in Clients : conn[c] # "dialled"
    BY <2>1 DEF StopInv, HandlerOK
  <2>3. CASE HubBroadcast \/ HubDone \/ Broadcast \/ Activate \/ GiveUp \/ Spawn \/ RootCancel \/ StopBegin
             \/ StopReturn \/ AcceptorCheck \/ AcceptFails
    BY <2>1, <2>3 DEF OnlyForward, HubBroadcast, HubDone, Broadcast, Activate, GiveUp, Spawn, RootCancel,
         StopBegin, StopReturn, AcceptorCheck, AcceptFails, StopInv, ServerInv
  <2>4. CASE StopClose
    BY <2>4 DEF StopClose
  <2>5. ASSUME NEW c \in Clients, Accept(c) \/ Dial(c) PROVE FALSE
    BY <2>1, <2>5 DEF Accept, Dial
  <2>6. ASSUME NEW c \in Clients,
               HubRegister(c) \/ HubUnregister(c) \/ ReadRequest(c) \/ ReadFails(c) \/ HandlerStep(c) \/ PumpStep(c)
        PROVE  OnlyForward
    <3>1. UNCHANGED <<acceptor, hub>>
      BY <2>6 DEF HubRegister, HubUnregister, ReadRequest, ReadFails, HandlerStep, RegisterSkipped, PumpEnded,
         UnregisterSkipped, PumpStep, PumpTake, PumpWrite, PumpFails, PumpEnds
    <3>2. /\ \A d \in Clients : d # c => conn'[d] = conn[d]
          /\ conn'[c] = conn[c] \/ <<conn[c], conn'[c]>> \in HandlerForward
      BY <2>1, <2>6 DEF HandlerTypes, HandlerForward, HubRegister, HubUnregister, ReadRequest, ReadFails, HandlerStep,
         RegisterSkipped, PumpEnded, UnregisterSkipped, PumpStep, PumpTake, PumpWrite, PumpFails, PumpEnds
    <3> QED  BY <3>1, <3>2 DEF OnlyForward
  <2> QED  BY <2>3, <2>4, <2>5, <2>6 DEF Next, HubStep, StopStep, AcceptorStep
<1> HIDE DEF A
<1>3. Spec => [][A]_vars
  BY <1>2, StopInvariant, PTL DEF Spec
<1>4. Spec => []StopUnblocked
  BY <1>1, StopInvariant, PTL
<1> QED  BY <1>3, <1>4 DEF StopWorksOff, A

=============================================================================
