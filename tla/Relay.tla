------------------------------- MODULE Relay -------------------------------
(***************************************************************************)
(* The log relay (internal/app/relay/hub.go and server.go).  The server    *)
(* opens a socket once the profile is resolved, accepts connections and    *)
(* runs a handler and a write pump per connection; the hub is one loop     *)
(* that owns the clients and the history, replays the history to a client  *)
(* that registers and then sends it what is broadcast.  Stop waits for all *)
(* of them.                                                                *)
(*                                                                         *)
(* A log message is its number: the n-th message that entered h.broadcast  *)
(* is n, and svc[n] is the service it is about.  Lines of the protocol     *)
(* that carry no log (the status line) are left out.                       *)
(***************************************************************************)
EXTENDS Integers, Sequences, FiniteSets, SequencesExt, FiniteSetsExt

CONSTANTS Clients,    \* connections, each used once
          Services,   \* services with logs
          Requests,   \* what a client may subscribe to: sets of services, {} for all
          Buffer,     \* logs.buffer: the capacity of h.broadcast
          History,    \* logs.history: the capacity of the ring buffer
          MaxLogs     \* bound on messages that enter h.broadcast

ASSUME RelayAssumption ==
  /\ Requests \subseteq SUBSET Services
  /\ Buffer \in Nat \ {0} /\ History \in Nat \ {0} /\ MaxLogs \in Nat

VARIABLES
  running, listener,      \* s.running, s.listener
  ctxDone,                \* the context given to the hub and the handlers is cancelled
  server,                 \* control of Server.Run
  acceptor, stop,         \* control of acceptConnections and of Stop
  hub, queue, clients,    \* control of hub.Run, h.broadcast, h.clients
  items, head, count,     \* the ring buffer
  conn, pump,             \* per connection: control of its handler and of its write pump
  wants, ch, chClosed,    \* per connection: Services, SendChan, and whether it is closed
  inHand,                 \* per connection: the message being written
  svc, got, from, missed  \* history: what entered h.broadcast, what each client was
                          \* written, the first number due to it, what found its channel full

serverVars == <<running, listener, ctxDone, server, acceptor, stop>>
ringVars == <<items, head, count>>
hubVars == <<hub, queue, clients, ringVars, svc>>
chanVars == <<ch, chClosed, from, missed>>
connVars == <<conn, wants>>
pumpVars == <<pump, inHand, got>>
vars == <<serverVars, hubVars, chanVars, connVars, pumpVars>>

Numbers == 1..MaxLogs

TypeOK ==
  /\ running \in BOOLEAN /\ ctxDone \in BOOLEAN
  /\ listener \in {"none", "open", "closed"}
  /\ server \in {"waiting", "listening", "serving", "ended"}
  /\ acceptor \in {"off", "check", "accept", "done"}
  /\ stop \in {"idle", "close", "wait", "returned"}
  /\ hub \in {"off", "loop", "done"}
  /\ queue \in Seq(Numbers) /\ Len(queue) <= Buffer
  /\ clients \subseteq Clients
  /\ items \in [0..History - 1 -> 0..MaxLogs]
  /\ head \in 0..History - 1 /\ count \in 0..History
  /\ conn \in [Clients -> {"off", "dialled", "reading", "register", "serving",
                           "unregister", "gone"}]
  /\ pump \in [Clients -> {"off", "take", "write", "done"}]
  /\ wants \in [Clients -> SUBSET Services]
  /\ ch \in [Clients -> Seq(Numbers)]
  /\ \A c \in Clients : Len(ch[c]) <= Buffer + History
  /\ chClosed \in [Clients -> BOOLEAN]
  /\ inHand \in [Clients -> 0..MaxLogs]
  /\ svc \in Seq(Services) /\ Len(svc) <= MaxLogs
  /\ got \in [Clients -> Seq(Numbers)]
  /\ from \in [Clients -> 0..MaxLogs + 1]
  /\ missed \in [Clients -> SUBSET Numbers]

Init ==
  /\ running = FALSE /\ listener = "none" /\ ctxDone = FALSE
  /\ server = "waiting" /\ acceptor = "off" /\ stop = "idle"
  /\ hub = "off" /\ queue = <<>> /\ clients = {} /\ svc = <<>>
  /\ items = [i \in 0..History - 1 |-> 0] /\ head = 0 /\ count = 0
  /\ conn = [c \in Clients |-> "off"] /\ pump = [c \in Clients |-> "off"]
  /\ wants = [c \in Clients |-> {}]
  /\ ch = [c \in Clients |-> <<>>] /\ chClosed = [c \in Clients |-> FALSE]
  /\ from = [c \in Clients |-> 0] /\ missed = [c \in Clients |-> {}]
  /\ inHand = [c \in Clients |-> 0] /\ got = [c \in Clients |-> <<>>]

-----------------------------------------------------------------------------
(* The ring buffer and the clients' channels *)

\* Faulty: starts at the beginning of the array
ReplayedFromZero == [i \in 1..count |-> items[(i - 1) % History]]

\* forEach: from the oldest to the newest
Replayed == LET start == (head - count + History) % History
            IN  [i \in 1..count |-> items[(start + i - 1) % History]]

Push(n) ==
  /\ items' = [items EXCEPT ![head] = n]
  /\ head' = (head + 1) % History
  /\ count' = IF count < History THEN count + 1 ELSE count

ShouldReceive(c, n) == wants[c] = {} \/ svc[n] \in wants[c]

\* Faulty: replays what the client did not ask for
WantedAll(c, s) == s

\* The numbers of s that c is subscribed to, picked one by one
Wanted(c, s) ==
  LET pick[i \in 0..Len(s)] == IF i = 0 THEN <<>>
                               ELSE IF ShouldReceive(c, s[i]) THEN Append(pick[i - 1], s[i])
                               ELSE pick[i - 1]
  IN  pick[Len(s)]

\* Faulty: the channel has the hub's size
RoomLive(c) == IF Len(ch[c]) < Buffer THEN Buffer - Len(ch[c]) ELSE 0

Room(c) == Buffer + History - Len(ch[c])

\* Sent one by one without blocking: what does not fit is dropped
Accepted(c, s) == ch[c] \o SubSeq(s, 1, Min({Len(s), Room(c)}))
Dropped(c, s) == missed[c] \cup ToSet(SubSeq(s, Room(c) + 1, Len(s)))

-----------------------------------------------------------------------------
(* hub.Run: one goroutine, whose select takes any case that is ready *)

\* The messages the hub has taken from h.broadcast
Heard == IF queue = <<>> THEN Len(svc) ELSE Head(queue) - 1

HubRegister(c) ==
  /\ hub = "loop" /\ conn[c] = "register"
  /\ clients' = clients \cup {c}
  /\ ch' = [ch EXCEPT ![c] = Accepted(c, Wanted(c, Replayed))]
  /\ missed' = [missed EXCEPT ![c] = Dropped(c, Wanted(c, Replayed))]
  /\ from' = [from EXCEPT ![c] = Heard - count + 1]
  /\ conn' = [conn EXCEPT ![c] = "serving"]
  /\ UNCHANGED <<serverVars, hub, queue, ringVars, svc, chClosed, wants, pumpVars>>

\* Faulty: keeps the clients whose channels it closes
DiscardNothing(cs) ==
  /\ chClosed' = [c \in Clients |-> chClosed[c] \/ c \in cs]
  /\ UNCHANGED clients

\* Closes the channel of every client of cs and forgets it
Discard(cs) ==
  /\ chClosed' = [c \in Clients |-> chClosed[c] \/ c \in cs]
  /\ clients' = clients \ cs

HubUnregister(c) ==
  /\ hub = "loop" /\ conn[c] = "unregister"
  /\ Discard({c} \cap clients)
  /\ conn' = [conn EXCEPT ![c] = "gone"]
  /\ UNCHANGED <<serverVars, hub, queue, ringVars, svc, ch, from, missed, wants, pumpVars>>

HubBroadcast ==
  /\ hub = "loop" /\ queue # <<>>
  /\ LET n == Head(queue)
         to == {c \in clients : ShouldReceive(c, n)}
     IN  /\ Push(n)
         /\ ch' = [c \in Clients |-> IF c \in to THEN Accepted(c, <<n>>) ELSE ch[c]]
         /\ missed' = [c \in Clients |-> IF c \in to THEN Dropped(c, <<n>>) ELSE missed[c]]
  /\ queue' = Tail(queue)
  /\ UNCHANGED <<serverVars, hub, clients, svc, chClosed, from, connVars, pumpVars>>

HubDone ==
  /\ hub = "loop" /\ ctxDone
  /\ Discard(clients)
  /\ hub' = "done"
  /\ UNCHANGED <<serverVars, queue, ringVars, svc, ch, from, missed, connVars, pumpVars>>

HubStep ==
  HubBroadcast \/ HubDone \/ \E c \in Clients : HubRegister(c) \/ HubUnregister(c)

\* Server.Broadcast: a caller that read running before Stop cleared it may still
\* offer its message.  A message that finds h.broadcast full is dropped and has
\* no number.
Broadcast ==
  /\ running \/ stop # "idle"
  /\ Len(svc) < MaxLogs /\ Len(queue) < Buffer
  /\ \E s \in Services : svc' = Append(svc, s)
  /\ queue' = Append(queue, Len(svc) + 1)
  /\ UNCHANGED <<serverVars, hub, clients, ringVars, chanVars, connVars, pumpVars>>

-----------------------------------------------------------------------------
(* Server.Run, start and Stop *)

\* start has a listener and publishes that it runs, before its goroutines do
Activate ==
  /\ server = "waiting"
  /\ listener' = "open" /\ running' = TRUE /\ server' = "listening"
  /\ UNCHANGED <<ctxDone, acceptor, stop, hubVars, chanVars, connVars, pumpVars>>

\* The context ends, the subscription is closed, or start returns an error
GiveUp ==
  /\ server = "waiting" /\ server' = "ended"
  /\ UNCHANGED <<running, listener, ctxDone, acceptor, stop, hubVars, chanVars, connVars, pumpVars>>

Spawn ==
  /\ server = "listening" /\ server' = "serving"
  /\ hub' = "loop" /\ acceptor' = "check"
  /\ UNCHANGED <<running, listener, ctxDone, stop, queue, clients, ringVars, svc,
                 chanVars, connVars, pumpVars>>

\* The root context of the program ends: app.go's OnStop cancels it
RootCancel ==
  /\ ~ctxDone /\ ctxDone' = TRUE
  /\ UNCHANGED <<running, listener, server, acceptor, stop, hubVars, chanVars, connVars, pumpVars>>

\* The hook of the relay runs after the one that cancels the root context, so
\* that Stop's own cancel finds it cancelled
StopBegin ==
  /\ stop = "idle" /\ ctxDone
  /\ running' = FALSE
  /\ stop' = IF running THEN "close" ELSE "returned"
  /\ UNCHANGED <<listener, ctxDone, server, acceptor, hubVars, chanVars, connVars, pumpVars>>

\* Connections nobody accepted yet are reset
StopClose ==
  /\ stop = "close" /\ stop' = "wait"
  /\ listener' = "closed"
  /\ conn' = [c \in Clients |-> IF conn[c] = "dialled" THEN "gone" ELSE conn[c]]
  /\ UNCHANGED <<running, ctxDone, server, acceptor, hubVars, chanVars, wants, pumpVars>>

\* s.wg counts the hub, the acceptor and the handlers
Waited == /\ hub # "loop" /\ acceptor \in {"off", "done"}
          /\ \A c \in Clients : conn[c] \in {"off", "dialled", "gone"}

StopReturn ==
  /\ stop = "wait" /\ Waited /\ stop' = "returned"
  /\ UNCHANGED <<running, listener, ctxDone, server, acceptor, hubVars, chanVars, connVars, pumpVars>>

StopStep == StopClose \/ StopReturn

-----------------------------------------------------------------------------
(* acceptConnections and handleConnection *)

AcceptorCheck ==
  /\ acceptor = "check" /\ acceptor' = IF running THEN "accept" ELSE "done"
  /\ UNCHANGED <<running, listener, ctxDone, server, stop, hubVars, chanVars, connVars, pumpVars>>

Accept(c) ==
  /\ acceptor = "accept" /\ listener = "open" /\ conn[c] = "dialled"
  /\ acceptor' = "check"
  /\ conn' = [conn EXCEPT ![c] = "reading"]
  /\ UNCHANGED <<running, listener, ctxDone, server, stop, hubVars, chanVars, wants, pumpVars>>

AcceptFails ==
  /\ acceptor = "accept" /\ listener = "closed" /\ acceptor' = "check"
  /\ UNCHANGED <<running, listener, ctxDone, server, stop, hubVars, chanVars, connVars, pumpVars>>

AcceptorStep == AcceptorCheck \/ AcceptFails \/ \E c \in Clients : Accept(c)

\* The client's request arrives: its pump starts before it registers
ReadRequest(c) ==
  /\ conn[c] = "reading"
  /\ \E S \in Requests : wants' = [wants EXCEPT ![c] = S]
  /\ conn' = [conn EXCEPT ![c] = "register"]
  /\ pump' = [pump EXCEPT ![c] = "take"]
  /\ UNCHANGED <<serverVars, hubVars, chanVars, inHand, got>>

\* The client is gone before its request arrived, or sent something else
ReadFails(c) ==
  /\ conn[c] = "reading" /\ conn' = [conn EXCEPT ![c] = "gone"]
  /\ UNCHANGED <<serverVars, hubVars, chanVars, wants, pumpVars>>

\* Register and Unregister give up once the hub is done
RegisterSkipped(c) ==
  /\ conn[c] = "register" /\ hub = "done"
  /\ conn' = [conn EXCEPT ![c] = "serving"]
  /\ UNCHANGED <<serverVars, hubVars, chanVars, wants, pumpVars>>

PumpEnded(c) ==
  /\ conn[c] = "serving" /\ pump[c] = "done"
  /\ conn' = [conn EXCEPT ![c] = "unregister"]
  /\ UNCHANGED <<serverVars, hubVars, chanVars, wants, pumpVars>>

UnregisterSkipped(c) ==
  /\ conn[c] = "unregister" /\ hub = "done"
  /\ conn' = [conn EXCEPT ![c] = "gone"]
  /\ UNCHANGED <<serverVars, hubVars, chanVars, wants, pumpVars>>

HandlerStep(c) == RegisterSkipped(c) \/ PumpEnded(c) \/ UnregisterSkipped(c)

-----------------------------------------------------------------------------
(* writePump *)

PumpTake(c) ==
  /\ pump[c] = "take" /\ ch[c] # <<>>
  /\ inHand' = [inHand EXCEPT ![c] = Head(ch[c])]
  /\ ch' = [ch EXCEPT ![c] = Tail(@)]
  /\ pump' = [pump EXCEPT ![c] = "write"]
  /\ UNCHANGED <<serverVars, hubVars, chClosed, from, missed, connVars, got>>

PumpWrite(c) ==
  /\ pump[c] = "write"
  /\ got' = [got EXCEPT ![c] = Append(@, inHand[c])]
  /\ inHand' = [inHand EXCEPT ![c] = 0]
  /\ pump' = [pump EXCEPT ![c] = "take"]
  /\ UNCHANGED <<serverVars, hubVars, chanVars, connVars>>

\* The peer is gone, or did not read within SocketWriteTimeout
PumpFails(c) ==
  /\ pump[c] = "write"
  /\ pump' = [pump EXCEPT ![c] = "done"]
  /\ UNCHANGED <<serverVars, hubVars, chanVars, connVars, inHand, got>>

\* Faulty: only the hub ends a pump
PumpEndsClosed(c) ==
  /\ pump[c] = "take" /\ chClosed[c] /\ ch[c] = <<>>
  /\ pump' = [pump EXCEPT ![c] = "done"]
  /\ UNCHANGED <<serverVars, hubVars, chanVars, connVars, inHand, got>>

PumpEnds(c) ==
  /\ pump[c] = "take"
  /\ ctxDone \/ (chClosed[c] /\ ch[c] = <<>>)
  /\ pump' = [pump EXCEPT ![c] = "done"]
  /\ UNCHANGED <<serverVars, hubVars, chanVars, connVars, inHand, got>>

PumpStep(c) == PumpTake(c) \/ PumpWrite(c) \/ PumpFails(c) \/ PumpEnds(c)

-----------------------------------------------------------------------------
(* The peers *)

Dial(c) ==
  /\ listener = "open" /\ conn[c] = "off"
  /\ conn' = [conn EXCEPT ![c] = "dialled"]
  /\ UNCHANGED <<serverVars, hubVars, chanVars, wants, pumpVars>>

Next ==
  \/ HubStep \/ Broadcast
  \/ Activate \/ GiveUp \/ Spawn
  \/ RootCancel \/ StopBegin \/ StopStep
  \/ AcceptorStep
  \/ \E c \in Clients : \/ ReadRequest(c) \/ ReadFails(c) \/ HandlerStep(c)
                        \/ PumpStep(c) \/ Dial(c)

Spec == Init /\ [][Next]_vars

\* Goroutines that can run do.  An accepted peer sends its request or hangs up:
\* the client of fuku logs subscribes as soon as it is connected, and the server
\* sets no deadline on that read.
FairSpec ==
  /\ Spec
  /\ WF_vars(HubStep) /\ WF_vars(Spawn) /\ WF_vars(StopStep) /\ WF_vars(AcceptorStep)
  /\ WF_vars(HubDone)
  /\ \A c \in Clients : /\ WF_vars(ReadRequest(c) \/ ReadFails(c))
                        /\ WF_vars(HandlerStep(c)) /\ WF_vars(PumpStep(c))

-----------------------------------------------------------------------------
(* Properties *)

\* The history is the last messages the hub has heard, oldest first, however
\* often the ring buffer has wrapped around (hub.go:70-86).
HistoryIsLast ==
  Replayed = [i \in 1..Min({Heard, History}) |-> Heard - Min({Heard, History}) + i]

\* What c was written, is being written and has queued
Stream(c) == got[c] \o (IF pump[c] = "write" THEN <<inHand[c]>> ELSE <<>>) \o ch[c]

InOrder(q) == \A i, j \in 1..Len(q) : i < j => q[i] < q[j]

\* What c should have by now
Due(c) == {n \in from[c]..Heard : ShouldReceive(c, n)} \ missed[c]

\* A registered client has the history and then every message it subscribed to,
\* each once and in order, the seam between replay and live messages included;
\* it lacks only what found its channel full (hub.go:170-197).
StreamExact ==
  \A c \in clients : pump[c] # "done" => InOrder(Stream(c)) /\ ToSet(Stream(c)) = Due(c)

\* The channel has room for the whole history: a client that is replayed to loses
\* nothing of it, however many live messages are waiting (server.go:215).
ReplayWhole ==
  \A c \in clients : \A n \in missed[c] :
    Cardinality({k \in from[c]..n - 1 : ShouldReceive(c, k)}) >= Buffer + History

\* A send on a closed channel and a second close both panic: the hub keeps no
\* client whose channel it has closed, whichever of Unregister and the end of
\* the context comes first (hub.go:150-156, 183-187).
OpenWhileRegistered ==
  /\ \A c \in clients : ~chClosed[c]
  /\ hub = "done" => clients = {}

\* Stop returns, whatever the handlers, the hub and the clients are doing, if a
\* connected client subscribes or hangs up (server.go:165-187).
StopReturns == (stop # "idle") ~> (stop = "returned")

=============================================================================
