-------------------------------- MODULE Bus --------------------------------
(***************************************************************************)
(* The event bus (internal/app/bus/bus.go and subscriber.go).  Publishers  *)
(* are serialised by publishMu and hold b.mu for reading while they offer  *)
(* the message to every subscriber; Subscribe, unsubscribe and Close hold  *)
(* it for writing.  A subscriber has a bounded channel, an overflow queue  *)
(* for critical messages and a pump goroutine that moves the overflow into *)
(* the channel.                                                            *)
(*                                                                         *)
(* A message is its sequence number; critical records which numbers are    *)
(* critical.  got is what each receiver has taken, a history variable.     *)
(***************************************************************************)
EXTENDS Integers, Sequences, FiniteSets

CONSTANTS Publishers,   \* goroutines that publish
          Subs,         \* subscriptions, each used once
          Buffer,       \* logs.buffer: the channel's capacity
          MaxSeq,       \* bound on published messages
          None

ASSUME BusAssumption ==
  /\ Buffer \in Nat \ {0} /\ MaxSeq \in Nat
  /\ None \notin Publishers \cup Subs

VARIABLES
  seq, critical,   \* b.seq, and the critical ones among 1..seq
  closed,          \* b.closed
  publishMu,       \* the publisher holding publishMu, or None
  pc, msg, todo,   \* per publisher: control, message, subscribers still to offer it to
  at,              \* per publisher: the subscriber being sent to
  writer, toClose, \* b.mu held for writing, and the subscribers its holder closes
  state, from,     \* per subscriber: life cycle, and b.seq when it subscribed
  ch, overflow,    \* s.ch and s.overflow
  sig,             \* s.signal holds a token
  pump,            \* the pump's control
  got              \* history: what was received

pubVars == <<publishMu, pc, msg, todo, at>>
seqVars == <<seq, critical>>
lockVars == <<closed, writer, toClose>>
chanVars == <<ch, overflow, sig>>
vars == <<seqVars, pubVars, lockVars, state, from, chanVars, pump, got>>

Messages == 1..MaxSeq

TypeOK ==
  /\ seq \in 0..MaxSeq /\ critical \subseteq 1..seq
  /\ closed \in BOOLEAN
  /\ publishMu \in Publishers \cup {None}
  /\ pc \in [Publishers -> {"idle", "rlock", "offer", "try", "queue", "notify"}]
  /\ msg \in [Publishers -> 0..MaxSeq]
  /\ todo \in [Publishers -> SUBSET Subs]
  /\ at \in [Publishers -> Subs \cup {None}]
  /\ writer \in BOOLEAN /\ toClose \subseteq Subs
  /\ state \in [Subs -> {"new", "open", "closing", "closed"}]
  /\ from \in [Subs -> 0..MaxSeq]
  /\ ch \in [Subs -> Seq(Messages)] /\ \A s \in Subs : Len(ch[s]) <= Buffer
  /\ overflow \in [Subs -> Seq(Messages)]
  /\ sig \in [Subs -> BOOLEAN]
  /\ pump \in [Subs -> {"wait", "check", "send", "pop", "done"}]
  /\ got \in [Subs -> Seq(Messages)]

Init ==
  /\ seq = 0 /\ critical = {} /\ closed = FALSE
  /\ publishMu = None
  /\ pc = [p \in Publishers |-> "idle"] /\ msg = [p \in Publishers |-> 0]
  /\ todo = [p \in Publishers |-> {}] /\ at = [p \in Publishers |-> None]
  /\ writer = FALSE /\ toClose = {}
  /\ state = [s \in Subs |-> "new"] /\ from = [s \in Subs |-> 0]
  /\ ch = [s \in Subs |-> <<>>] /\ overflow = [s \in Subs |-> <<>>]
  /\ sig = [s \in Subs |-> FALSE] /\ pump = [s \in Subs |-> "wait"]
  /\ got = [s \in Subs |-> <<>>]

-----------------------------------------------------------------------------
(* Publish *)

Goto(p, l) == pc' = [pc EXCEPT ![p] = l]

\* The publishers that hold b.mu for reading
Readers == {p \in Publishers : pc[p] \notin {"idle", "rlock"}}

Subscribed == {s \in Subs : state[s] = "open"} \ toClose

LockPublish(p) ==
  /\ pc[p] = "idle" /\ publishMu = None /\ seq < MaxSeq
  /\ publishMu' = p
  /\ Goto(p, "rlock")
  /\ UNCHANGED <<seqVars, msg, todo, at, lockVars, state, from, chanVars, pump, got>>

\* b.mu.RLock, then the closed test and the sequence number
BeginPublish(p, crit) ==
  /\ pc[p] = "rlock" /\ ~writer
  /\ IF closed
       THEN /\ publishMu' = None /\ Goto(p, "idle")
            /\ UNCHANGED <<seqVars, msg, todo>>
       ELSE /\ seq' = seq + 1
            /\ critical' = IF crit THEN critical \cup {seq + 1} ELSE critical
            /\ msg' = [msg EXCEPT ![p] = seq + 1]
            /\ todo' = [todo EXCEPT ![p] = Subscribed]
            /\ Goto(p, "offer")
            /\ UNCHANGED publishMu
  /\ UNCHANGED <<at, lockVars, state, from, chanVars, pump, got>>

EndPublish(p) ==
  /\ pc[p] = "offer" /\ todo[p] = {}
  /\ publishMu' = None /\ Goto(p, "idle")
  /\ UNCHANGED <<seqVars, msg, todo, at, lockVars, state, from, chanVars, pump, got>>

Critical(p) == msg[p] \in critical

\* send is done with the subscriber
Served(p, s) == Goto(p, "offer") /\ todo' = [todo EXCEPT ![p] = @ \ {s}]

\* Faulty: a message may overtake the overflow
OfferDirect(p, s) ==
  /\ pc[p] = "offer" /\ s \in todo[p]
  /\ at' = [at EXCEPT ![p] = s]
  /\ Goto(p, "try")
  /\ UNCHANGED <<seqVars, publishMu, msg, todo, lockVars, state, from, chanVars, pump, got>>

\* send's first critical section: behind an overflow a critical message
\* queues up and any other is dropped
Offer(p, s) ==
  /\ pc[p] = "offer" /\ s \in todo[p]
  /\ at' = [at EXCEPT ![p] = s]
  /\ IF state[s] # "open" THEN Served(p, s) /\ UNCHANGED overflow
     ELSE IF overflow[s] = <<>> THEN Goto(p, "try") /\ UNCHANGED <<overflow, todo>>
     ELSE IF Critical(p)
       THEN /\ overflow' = [overflow EXCEPT ![s] = Append(@, msg[p])]
            /\ Goto(p, "notify") /\ UNCHANGED todo
       ELSE Served(p, s) /\ UNCHANGED overflow
  /\ UNCHANGED <<seqVars, publishMu, msg, lockVars, state, from, ch, sig, pump, got>>

\* Faulty: a full channel drops any message
TryAlwaysDrops(p, s) ==
  /\ pc[p] = "try" /\ at[p] = s
  /\ ch' = IF Len(ch[s]) < Buffer THEN [ch EXCEPT ![s] = Append(@, msg[p])] ELSE ch
  /\ Served(p, s)
  /\ UNCHANGED <<seqVars, publishMu, msg, at, lockVars, state, from, overflow, sig, pump, got>>

\* The non-blocking send to the channel
Try(p, s) ==
  /\ pc[p] = "try" /\ at[p] = s
  /\ IF Len(ch[s]) < Buffer
       THEN ch' = [ch EXCEPT ![s] = Append(@, msg[p])] /\ Served(p, s)
       ELSE /\ UNCHANGED ch
            /\ IF Critical(p) THEN Goto(p, "queue") /\ UNCHANGED todo ELSE Served(p, s)
  /\ UNCHANGED <<seqVars, publishMu, msg, at, lockVars, state, from, overflow, sig, pump, got>>

\* Faulty: leaves no token for the pump
QueueUnnotified(p, s) ==
  /\ pc[p] = "queue" /\ at[p] = s
  /\ overflow' = [overflow EXCEPT ![s] = Append(@, msg[p])]
  /\ Served(p, s)
  /\ UNCHANGED <<seqVars, publishMu, msg, at, lockVars, state, from, ch, sig, pump, got>>

Queue(p, s) ==
  /\ pc[p] = "queue" /\ at[p] = s
  /\ IF state[s] # "open" THEN Served(p, s) /\ UNCHANGED overflow
     ELSE /\ overflow' = [overflow EXCEPT ![s] = Append(@, msg[p])]
          /\ Goto(p, "notify") /\ UNCHANGED todo
  /\ UNCHANGED <<seqVars, publishMu, msg, at, lockVars, state, from, ch, sig, pump, got>>

\* The one-token signal channel: a token that is there already is enough
Notify(p, s) ==
  /\ pc[p] = "notify" /\ at[p] = s
  /\ sig' = [sig EXCEPT ![s] = TRUE]
  /\ Served(p, s)
  /\ UNCHANGED <<seqVars, publishMu, msg, at, lockVars, state, from, ch, overflow, pump, got>>

-----------------------------------------------------------------------------
(* The pump *)

Quit(s) == state[s] \in {"closing", "closed"}   \* s.quit is closed

PumpTo(s, l) == pump' = [pump EXCEPT ![s] = l]

PumpWake(s) ==
  /\ state[s] # "new" /\ pump[s] = "wait" /\ sig[s]
  /\ sig' = [sig EXCEPT ![s] = FALSE]
  /\ PumpTo(s, "check")
  /\ UNCHANGED <<seqVars, pubVars, lockVars, state, from, ch, overflow, got>>

PumpCheck(s) ==
  /\ pump[s] = "check"
  /\ PumpTo(s, IF overflow[s] = <<>> THEN "wait" ELSE "send")
  /\ UNCHANGED <<seqVars, pubVars, lockVars, state, from, chanVars, got>>

PumpSend(s) ==
  /\ pump[s] = "send" /\ Len(ch[s]) < Buffer
  /\ ch' = [ch EXCEPT ![s] = Append(@, Head(overflow[s]))]
  /\ PumpTo(s, "pop")
  /\ UNCHANGED <<seqVars, pubVars, lockVars, state, from, overflow, sig, got>>

PumpPop(s) ==
  /\ pump[s] = "pop"
  /\ overflow' = [overflow EXCEPT ![s] = Tail(@)]
  /\ PumpTo(s, "check")
  /\ UNCHANGED <<seqVars, pubVars, lockVars, state, from, ch, sig, got>>

\* Faulty: the pump only looks at quit while it waits for a token
PumpQuitWaiting(s) ==
  /\ pump[s] = "wait" /\ Quit(s)
  /\ PumpTo(s, "done")
  /\ UNCHANGED <<seqVars, pubVars, lockVars, state, from, chanVars, got>>

\* quit wins whenever it is ready in one of the pump's two selects
PumpQuit(s) ==
  /\ pump[s] \in {"wait", "send"} /\ Quit(s)
  /\ PumpTo(s, "done")
  /\ UNCHANGED <<seqVars, pubVars, lockVars, state, from, chanVars, got>>

Receive(s) ==
  /\ ch[s] # <<>>
  /\ got' = [got EXCEPT ![s] = Append(@, Head(ch[s]))]
  /\ ch' = [ch EXCEPT ![s] = Tail(@)]
  /\ UNCHANGED <<seqVars, pubVars, lockVars, state, from, overflow, sig, pump>>

-----------------------------------------------------------------------------
(* Subscribe, unsubscribe and Close: under b.mu.Lock *)

WriteLock == ~writer /\ Readers = {}

\* A closed bus still takes subscribers
Subscribe(s) ==
  /\ WriteLock /\ state[s] = "new"
  /\ state' = [state EXCEPT ![s] = "open"]
  /\ from' = [from EXCEPT ![s] = seq]
  /\ UNCHANGED <<seqVars, pubVars, lockVars, chanVars, pump, got>>

\* Faulty: unsubscribe does not take b.mu
UnsubscribeUnlocked(s) ==
  /\ ~writer /\ state[s] = "open"
  /\ writer' = TRUE /\ toClose' = {s}
  /\ UNCHANGED <<seqVars, pubVars, closed, state, from, chanVars, pump, got>>

\* The subscriber's context is cancelled
Unsubscribe(s) ==
  /\ WriteLock /\ state[s] = "open"
  /\ writer' = TRUE /\ toClose' = {s}
  /\ UNCHANGED <<seqVars, pubVars, closed, state, from, chanVars, pump, got>>

Close ==
  /\ WriteLock /\ ~closed
  /\ closed' = TRUE
  /\ writer' = TRUE /\ toClose' = Subscribed
  /\ UNCHANGED <<seqVars, pubVars, state, from, chanVars, pump, got>>

\* subscriber.close: closed and quit, one subscriber at a time
CloseSub(s) ==
  /\ s \in toClose /\ state[s] = "open"
  /\ \A u \in toClose : state[u] # "closing"
  /\ state' = [state EXCEPT ![s] = "closing"]
  /\ UNCHANGED <<seqVars, pubVars, lockVars, from, chanVars, pump, got>>

\* <-s.done, then close(s.ch)
CloseChan(s) ==
  /\ s \in toClose /\ state[s] = "closing" /\ pump[s] = "done"
  /\ state' = [state EXCEPT ![s] = "closed"]
  /\ toClose' = toClose \ {s}
  /\ UNCHANGED <<seqVars, pubVars, closed, writer, from, chanVars, pump, got>>

WriteUnlock ==
  /\ writer /\ toClose = {}
  /\ writer' = FALSE
  /\ UNCHANGED <<seqVars, pubVars, closed, toClose, state, from, chanVars, pump, got>>

-----------------------------------------------------------------------------

PublisherStep(p) ==
  \/ \E crit \in BOOLEAN : BeginPublish(p, crit)
  \/ EndPublish(p)
  \/ \E s \in Subs : Offer(p, s) \/ Try(p, s) \/ Queue(p, s) \/ Notify(p, s)

PumpStep(s) == PumpWake(s) \/ PumpCheck(s) \/ PumpSend(s) \/ PumpPop(s) \/ PumpQuit(s)

CloserStep == WriteUnlock \/ \E s \in Subs : CloseSub(s) \/ CloseChan(s)

Next ==
  \/ \E p \in Publishers : LockPublish(p) \/ PublisherStep(p)
  \/ \E s \in Subs : PumpStep(s) \/ Receive(s) \/ Subscribe(s) \/ Unsubscribe(s)
  \/ Close \/ CloserStep

Spec == Init /\ [][Next]_vars

\* Goroutines that can run do; nobody has to publish, subscribe, receive,
\* unsubscribe or close.
FairSpec ==
  /\ Spec
  /\ \A p \in Publishers : WF_vars(PublisherStep(p))
  /\ \A s \in Subs : WF_vars(PumpStep(s))
  /\ WF_vars(CloserStep)

-----------------------------------------------------------------------------
(* Properties *)

\* What waits in the overflow and is not in the channel yet: between the
\* pump's send and its pop the head is in both
Waiting(s) == IF pump[s] = "pop" THEN Tail(overflow[s]) ELSE overflow[s]

\* Everything s has been given, in the order it receives it
Stream(s) == got[s] \o ch[s] \o Waiting(s)

Among(q) == {q[i] : i \in 1..Len(q)}

\* A critical message is never dropped for an open subscriber: all those
\* published since it subscribed are in its stream, but for the one being
\* offered (ARCHITECTURE.md:100).
CriticalKept ==
  \A s \in Subs : state[s] = "open" =>
    \A n \in critical : n > from[s] =>
      \/ n \in Among(Stream(s))
      \/ \E p \in Publishers : msg[p] = n /\ pc[p] # "idle" /\ s \in todo[p]

\* Nobody is about to send on a closed channel, which would panic.
NoSendOnClosed ==
  \A s \in Subs : state[s] = "closed" =>
    /\ pump[s] = "done"
    /\ \A p \in Publishers : ~(pc[p] \in {"try", "queue", "notify"} /\ at[p] = s)

\* What a receiver can still get: a pump that has quit leaves its overflow
Pending(s) == ch[s] \o (IF pump[s] = "done" THEN <<>> ELSE Waiting(s))

Promise == INSTANCE Delivery WITH
             open <- {s \in Subs : state[s] = "open"},
             pending <- [s \in Subs |-> Pending(s)]

\* The bus implements the ordered delivery that its subscribers rely on, the
\* store for its sequence check and the runner for its commands.
DeliversInOrder == Promise!Spec

\* A critical message kept for an open subscriber reaches it, if its receiver
\* keeps receiving as the store and the runner do: the pump does not go to sleep
\* over it (subscriber.go:62-114).
CriticalDelivered ==
  \A s \in Subs : WF_vars(Receive(s)) =>
    \A n \in Messages : (state[s] = "open" /\ n \in Among(Waiting(s))) ~>
                        (n \in Among(got[s]) \/ state[s] # "open")

\* Close and unsubscribe come to an end, whatever the pump was doing and even if
\* the receiver has stopped receiving (subscriber.go:117-131).
CloseReturns == writer ~> ~writer

=============================================================================
